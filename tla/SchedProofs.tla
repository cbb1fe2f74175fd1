---------------------------- MODULE SchedProofs ----------------------------
(***************************************************************************)
(* Proofs about Sched for every set of thread addresses, channels and      *)
(* signals, every slice and every bound on thread ids.                     *)
(***************************************************************************)
EXTENDS Sched, SequenceTheorems, TLAPS

----------------------------------------------------------------------------
(* Sequences: the three ways the ring is rebuilt.                          *)

\* Appending an element adds it to the range: the ring is queue and current.
LEMMA RangeAppend ==
    ASSUME NEW S, NEW q \in Seq(S), NEW c \in S
    PROVE  /\ Append(q, c) \in Seq(S)
           /\ Len(Append(q, c)) = Len(q) + 1
           /\ Range(Append(q, c)) = Range(q) \cup {c}
<1>1. <<c>> \in Seq(S) /\ Len(<<c>>) = 1 /\ <<c>>[1] = c
  OBVIOUS
<1>3. Range(<<c>>) = {<<c>>[k] : k \in 1..1}
  BY <1>1, RangeEquality
<1>4. Range(<<c>>) = {c}
  BY <1>1, <1>3
<1>2. Append(q, c) = q \o <<c>>
  BY AppendIsConcat
<1>5. Range(q \o <<c>>) = Range(q) \cup Range(<<c>>)
  <2> DEFINE d == <<c>>
  <2>1. q \in Seq(S) /\ d \in Seq(S)
    BY <1>1
  <2> HIDE DEF d
  <2>2. Range(q \o d) = Range(q) \cup Range(d)
    BY ONLY <2>1, RangeConcatenation
  <2> QED
    BY ONLY <2>2 DEF d
<1>6. Range(Append(q, c)) = Range(q) \cup {c}
  BY ONLY <1>2, <1>4, <1>5
<1>7. Append(q, c) \in Seq(S) /\ Len(Append(q, c)) = Len(q) + 1
  BY AppendProperties
<1> QED
  BY ONLY <1>6, <1>7

\* Rotating the ring concatenates two parts of it.
LEMMA RangeConcat ==
    ASSUME NEW S, NEW a \in Seq(S), NEW b \in Seq(S)
    PROVE  a \o b \in Seq(S) /\ Range(a \o b) = Range(a) \cup Range(b)
<1>1. a \o b \in Seq(S)
  BY ConcatProperties
<1>2. a \in Seq(S) /\ b \in Seq(S)
  OBVIOUS
<1>3. Range(a \o b) = Range(a) \cup Range(b)
  BY ONLY <1>2, RangeConcatenation
<1> QED
  BY ONLY <1>1, <1>3

\* The elements of a contiguous part of a sequence.
LEMMA RangeSubSeq ==
    ASSUME NEW S, NEW r \in Seq(S), NEW m \in Int, NEW n \in Int,
           1 <= m, n <= Len(r)
    PROVE  /\ SubSeq(r, m, n) \in Seq(S)
           /\ Range(SubSeq(r, m, n)) = {r[k] : k \in m..n}
<1> DEFINE s == SubSeq(r, m, n)
<1>1. \A k \in m..n : r[k] \in S
  BY ElementOfSeq, LenProperties
<1>2. /\ s \in Seq(S)
      /\ Len(s) = IF m <= n THEN n - m + 1 ELSE 0
      /\ \A k \in 1..(n - m + 1) : s[k] = r[m + k - 1]
  BY <1>1, SubSeqProperties
<1> HIDE DEF s
<1>3. Range(s) = {s[k] : k \in 1..Len(s)}
  BY <1>2, RangeEquality
<1>4. ASSUME NEW k \in 1..Len(s) PROVE s[k] \in {r[j] : j \in m..n}
  <2>1. m + k - 1 \in m..n /\ k \in 1..(n - m + 1)
    BY <1>2
  <2> QED
    BY <2>1, <1>2
<1>5. ASSUME NEW j \in m..n PROVE r[j] \in {s[k] : k \in 1..Len(s)}
  <2>1. j - m + 1 \in 1..Len(s) /\ j - m + 1 \in 1..(n - m + 1)
    BY <1>2
  <2>2. s[j - m + 1] = r[m + (j - m + 1) - 1]
    BY <1>2, <2>1
  <2>3. m + (j - m + 1) - 1 = j
    OBVIOUS
  <2> QED
    BY <2>1, <2>2, <2>3
<1> QED
  BY <1>2, <1>3, <1>4, <1>5 DEF s

\* What schedule() does to the ring: the scan rotated to end at index i.
LEMMA RotateRing ==
    ASSUME NEW S, NEW r \in Seq(S), NEW i \in 1..Len(r),
           NEW q, q = SubSeq(r, i + 1, Len(r)) \o SubSeq(r, 1, i - 1)
    PROVE  /\ q \in Seq(S)
           /\ Range(Append(q, r[i])) = Range(r)
<1>1. Len(r) \in Nat /\ r[i] \in S
  BY LenProperties, ElementOfSeq
<1>2. /\ SubSeq(r, i + 1, Len(r)) \in Seq(S)
      /\ Range(SubSeq(r, i + 1, Len(r))) = {r[k] : k \in (i + 1)..Len(r)}
  <2>1. i + 1 \in Int /\ Len(r) \in Int /\ 1 <= i + 1 /\ Len(r) <= Len(r)
    BY <1>1
  <2> QED
    BY <2>1, RangeSubSeq
<1>3. /\ SubSeq(r, 1, i - 1) \in Seq(S)
      /\ Range(SubSeq(r, 1, i - 1)) = {r[k] : k \in 1..(i - 1)}
  <2>1. 1 \in Int /\ i - 1 \in Int /\ 1 <= 1 /\ i - 1 <= Len(r)
    BY <1>1
  <2> QED
    BY <2>1, RangeSubSeq
<1> DEFINE a == SubSeq(r, i + 1, Len(r))
           b == SubSeq(r, 1, i - 1)
<1>4. q \in Seq(S) /\ Range(q) = Range(a) \cup Range(b)
  <2>1. q = a \o b /\ a \in Seq(S) /\ b \in Seq(S)
    BY <1>2, <1>3
  <2> HIDE DEF a, b
  <2>2. a \o b \in Seq(S) /\ Range(a \o b) = Range(a) \cup Range(b)
    BY ONLY <2>1, RangeConcat
  <2> QED
    BY <2>1, <2>2, Zenon
<1>5. Range(Append(q, r[i])) = Range(q) \cup {r[i]}
  <2> DEFINE c == r[i]
  <2>1. q \in Seq(S) /\ c \in S
    BY <1>1, <1>4
  <2> HIDE DEF a, b, c
  <2>2. Range(Append(q, c)) = Range(q) \cup {c}
    BY ONLY <2>1, RangeAppend
  <2> QED
    BY <2>2 DEF c
<1>6. Range(r) = {r[k] : k \in 1..Len(r)}
  BY RangeEquality
<1>7. 1..Len(r) = ((i + 1)..Len(r)) \cup (1..(i - 1)) \cup {i}
  BY <1>1
<1>8. {r[k] : k \in 1..Len(r)} =
        {r[k] : k \in (i + 1)..Len(r)} \cup {r[k] : k \in 1..(i - 1)} \cup {r[i]}
  BY <1>7, Zenon
<1> QED
  BY <1>2, <1>3, <1>4, <1>5, <1>6, <1>8

\* What reaping does to the ring: the k-th thread is unlinked.
LEMMA UnlinkRing ==
    ASSUME NEW S, NEW q \in Seq(S), NEW k \in 1..Len(q)
    PROVE  /\ RemoveAt(q, k) \in Seq(S)
           /\ Range(RemoveAt(q, k)) \subseteq Range(q)
           /\ Range(q) \ {q[k]} \subseteq Range(RemoveAt(q, k))
<1>1. Len(q) \in Nat
  BY LenProperties
<1>2. /\ SubSeq(q, 1, k - 1) \in Seq(S)
      /\ Range(SubSeq(q, 1, k - 1)) = {q[j] : j \in 1..(k - 1)}
  <2>1. 1 \in Int /\ k - 1 \in Int /\ 1 <= 1 /\ k - 1 <= Len(q)
    BY <1>1
  <2> QED
    BY <2>1, RangeSubSeq
<1>3. /\ SubSeq(q, k + 1, Len(q)) \in Seq(S)
      /\ Range(SubSeq(q, k + 1, Len(q))) = {q[j] : j \in (k + 1)..Len(q)}
  <2>1. k + 1 \in Int /\ Len(q) \in Int /\ 1 <= k + 1 /\ Len(q) <= Len(q)
    BY <1>1
  <2> QED
    BY <2>1, RangeSubSeq
<1>4. RemoveAt(q, k) = SubSeq(q, 1, k - 1) \o SubSeq(q, k + 1, Len(q))
  BY DEF RemoveAt
<1> DEFINE a == SubSeq(q, 1, k - 1)
           b == SubSeq(q, k + 1, Len(q))
<1>5. RemoveAt(q, k) \in Seq(S) /\ Range(RemoveAt(q, k)) = Range(a) \cup Range(b)
  <2>1. RemoveAt(q, k) = a \o b /\ a \in Seq(S) /\ b \in Seq(S)
    BY <1>2, <1>3, <1>4
  <2> HIDE DEF a, b
  <2>2. a \o b \in Seq(S) /\ Range(a \o b) = Range(a) \cup Range(b)
    BY ONLY <2>1, RangeConcat
  <2> QED
    BY <2>1, <2>2, Zenon
<1>6. Range(q) = {q[j] : j \in 1..Len(q)}
  BY RangeEquality
<1>7. 1..Len(q) = ((k + 1)..Len(q)) \cup (1..(k - 1)) \cup {k}
  BY <1>1
<1>8. {q[j] : j \in 1..Len(q)} =
        {q[j] : j \in (k + 1)..Len(q)} \cup {q[j] : j \in 1..(k - 1)} \cup {q[k]}
  BY <1>7, Zenon
<1> QED
  BY <1>2, <1>3, <1>5, <1>6, <1>8
----------------------------------------------------------------------------
(* schedule(), whoever calls it.                                           *)

\* The states schedule() leaves: only ready threads change state, the chosen
\* one alone is RUNNING, and the ring keeps its members.
LEMMA ScheduleStep ==
    ASSUME TypeOK,
           NEW st \in [Thread -> SchedStates], NEW sl \in 1..SLICE,
           Schedule(st, sl)
    PROVE  /\ current' \in Thread
           /\ queue' \in Seq(Thread)
           /\ state' \in [Thread -> SchedStates]
           /\ slice' \in 1..SLICE
           /\ InRing' = InRing
           /\ state'[current'] = "RUNNING"
           /\ \A t \in Thread :
                 /\ st[t] \in {"RUNNABLE", "RUNNING"} => state'[t] \in {"RUNNABLE", "RUNNING"}
                 /\ st[t] \notin {"RUNNABLE", "RUNNING"} => state'[t] = st[t]
                 /\ t # current' /\ state'[t] = "RUNNING" => t # current /\ st[t] = "RUNNING"
<1> DEFINE ready == [t \in Thread |->
                       IF t = current /\ st[t] = "RUNNING" THEN "RUNNABLE" ELSE st[t]]
<1>1. Ring \in Seq(Thread)
  BY RangeAppend DEF TypeOK, Ring
<1>2. PICK i \in 1..Len(Ring) :
         /\ Chosen(ready, i)
         /\ state' = [ready EXCEPT ![Ring[i]] = "RUNNING"]
         /\ current' = Ring[i]
         /\ queue' = SubSeq(Ring, i + 1, Len(Ring)) \o SubSeq(Ring, 1, i - 1)
         /\ slice' = IF Ring[i] = current THEN sl ELSE SLICE
  BY DEF Schedule
<1>3. Ring[i] \in Thread
  BY <1>1, <1>2, ElementOfSeq
<1>4. ready \in [Thread -> SchedStates]
  BY DEF SchedStates
<1>5. ready[Ring[i]] = "RUNNABLE"
  BY <1>2 DEF Chosen
<1>6. queue' \in Seq(Thread) /\ Range(Append(queue', current')) = Range(Ring)
  <2> DEFINE r == Ring
             q == queue'
  <2>1. r \in Seq(Thread) /\ i \in 1..Len(r)
        /\ q = SubSeq(r, i + 1, Len(r)) \o SubSeq(r, 1, i - 1)
    BY <1>1, <1>2
  <2> HIDE DEF r, q
  <2>2. q \in Seq(Thread) /\ Range(Append(q, r[i])) = Range(r)
    BY ONLY <2>1, RotateRing, Zenon
  <2> QED
    BY <2>2, <1>2 DEF r, q
<1>7. InRing' = InRing
  BY <1>6 DEF InRing, Ring
<1>8. state' \in [Thread -> SchedStates] /\ state'[current'] = "RUNNING"
  BY <1>2, <1>3, <1>4 DEF SchedStates
<1>9. slice' \in 1..SLICE
  BY <1>2, ConstAssumption
<1>10. ASSUME NEW t \in Thread
       PROVE  /\ st[t] \in {"RUNNABLE", "RUNNING"} => state'[t] \in {"RUNNABLE", "RUNNING"}
              /\ st[t] \notin {"RUNNABLE", "RUNNING"} => state'[t] = st[t]
              /\ t # current' /\ state'[t] = "RUNNING" => t # current /\ st[t] = "RUNNING"
  BY <1>2, <1>3, <1>4, <1>5
<1> QED
  BY <1>2, <1>3, <1>6, <1>7, <1>8, <1>9, <1>10

\* The functions the actions build from the thread states and channels.
LEMMA ReadyType ==
    ASSUME NEW st \in [Thread -> SchedStates], NEW ts
    PROVE  Ready(st, ts) \in [Thread -> SchedStates]
BY DEF Ready, SchedStates

\* Waking threads leaves every wait channel a channel or NULL.
LEMMA UnchanType ==
    ASSUME TypeOK, NEW ts
    PROVE  Unchan(ts) \in [Thread -> Chans \cup {NoChan}]
BY DEF Unchan, TypeOK

----------------------------------------------------------------------------
(* Type correctness.                                                       *)

\* sched_init gives every field a value of its type.
LEMMA TypeInit == Init => TypeOK
BY ConstAssumption DEF Init, TypeOK, Thread, SchedStates, Places, IdlePrio

\* thread_exit keeps the types of what it changes.
LEMMA ThreadExitType ==
    ASSUME TypeOK, NEW cs, ThreadExit(cs)
    PROVE  /\ current' \in Thread /\ queue' \in Seq(Thread)
           /\ state' \in [Thread -> SchedStates] /\ slice' \in 1..SLICE
           /\ chan' \in [Thread -> Chans \cup {NoChan}]
<1> DEFINE woken == Waiting(cs)
           st == [Ready(state, woken) EXCEPT ![current] = "ZOMBIE"]
           waiter == IF parent[current] # NoThread /\ st[parent[current]] = "SLEEPING"
                     THEN {parent[current]} ELSE {}
           st2 == Ready(st, waiter)
<1>1. st \in [Thread -> SchedStates]
  BY ReadyType DEF TypeOK, SchedStates
<1>2. st2 \in [Thread -> SchedStates]
  BY <1>1, ReadyType
<1>3. Schedule(st2, slice) /\ slice \in 1..SLICE /\ chan' = Unchan(woken)
  BY DEF ThreadExit, TypeOK
<1> HIDE DEF st2, woken
<1> QED
  BY <1>2, <1>3, ScheduleStep, UnchanType

\* A new thread on the ring, from fork or spawn, is well formed.
LEMMA NewThreadType ==
    ASSUME TypeOK, NEW t \in Slots, NEW g \in Nat, NEW p \in Nat \cup {IdlePrio},
           NewThread(t, g, p), pc' \in [Thread -> Places]
    PROVE  TypeOK'
<1>1. t \in Thread /\ queue \in Seq(Thread) /\ queue' = Append(queue, t)
  BY DEF NewThread, TypeOK, Thread
<1>2. queue' \in Seq(Thread)
  BY <1>1, AppendProperties
<1>3. state' \in [Thread -> SchedStates] /\ id' \in [Thread -> Nat] /\ nextId' \in Nat
  BY <1>1 DEF TypeOK, NewThread, SchedStates
<1>4. pgid' \in [Thread -> Nat] /\ prio' \in [Thread -> Nat \cup {IdlePrio}]
  BY <1>1 DEF TypeOK, NewThread
<1>5. /\ parent' \in [Thread -> Thread \cup {NoThread}]
      /\ chan' \in [Thread -> Chans \cup {NoChan}] /\ wakeIn' \in [Thread -> Nat]
  BY <1>1 DEF TypeOK, NewThread
<1>6. pend' \in [Thread -> SUBSET Sigs] /\ caught' \in [Thread -> SUBSET Sigs]
  BY <1>1 DEF TypeOK, NewThread
<1>7. /\ current' \in Thread /\ slice' \in 1..SLICE
      /\ foreground' \in Thread \cup {NoThread} /\ fgPgrp' \in Nat
  BY DEF TypeOK, NewThread
<1> QED
  BY <1>2, <1>3, <1>4, <1>5, <1>6, <1>7 DEF TypeOK

\* signal_send keeps the types of what it changes.
LEMMA SignalSendType ==
    ASSUME TypeOK, NEW ts, NEW sig \in Sigs, SignalSend(ts, sig)
    PROVE  /\ pend' \in [Thread -> SUBSET Sigs] /\ caught' \in [Thread -> SUBSET Sigs]
           /\ state' \in [Thread -> SchedStates]
           /\ chan' \in [Thread -> Chans \cup {NoChan}]
<1>1. pend' \in [Thread -> SUBSET Sigs]
  BY DEF SignalSend, TypeOK
<1> QED
  BY <1>1, ReadyType, UnchanType DEF SignalSend, TypeOK

\* Every system call and interrupt keeps the types; one case per action.
LEMMA TypeStep == TypeOK /\ [Next]_vars => TypeOK'
<1> SUFFICES ASSUME TypeOK, [Next]_vars PROVE TypeOK'
  OBVIOUS
<1> USE DEF TypeOK, idVars, sigVars, jobVars, NoSwitch
<1>1. ASSUME NEW t \in Slots, Fork(t) PROVE TypeOK'
  <2>1. pc' \in [Thread -> Places]
    BY <1>1 DEF Fork, Places
  <2>2. pgid[current] \in Nat /\ prio[current] \in Nat \cup {IdlePrio}
    OBVIOUS
  <2> QED
    BY <1>1, <2>1, <2>2, NewThreadType DEF Fork
<1>2. ASSUME NEW t \in Slots, NEW p \in Prios, Spawn(t, p) PROVE TypeOK'
  <2>1. pc' \in [Thread -> Places]
    BY <1>2 DEF Spawn, Places
  <2>2. nextId \in Nat /\ p \in Nat \cup {IdlePrio}
    BY ConstAssumption
  <2> QED
    BY <1>2, <2>1, <2>2, NewThreadType DEF Spawn
<1>3. CASE EnableIrqs
  BY <1>3 DEF EnableIrqs, Places
<1>4. ASSUME NEW cs, Exit(cs) PROVE TypeOK'
  BY <1>4, ThreadExitType DEF Exit
<1>5. ASSUME NEW cs, DeliverDefault(cs) PROVE TypeOK'
  <2>1. pend' \in [Thread -> SUBSET Sigs]
    BY <1>5 DEF DeliverDefault
  <2> QED
    BY <1>5, <2>1, ThreadExitType DEF DeliverDefault
<1>6. CASE WaitReap
  <2>1. PICK k \in 1..Len(queue) :
           /\ queue' = RemoveAt(queue, k)
           /\ foreground' = IF foreground = queue[k] THEN NoThread ELSE foreground
    BY <1>6 DEF WaitReap
  <2>2. queue' \in Seq(Thread)
    BY <2>1, UnlinkRing
  <2>3. pc' \in [Thread -> Places]
    BY <1>6 DEF WaitReap, Places
  <2> QED
    BY <1>6, <2>1, <2>2, <2>3 DEF WaitReap
<1>7. CASE WaitNone
  BY <1>7 DEF WaitNone, Places
<1>8. CASE WaitSleep
  <2>1. [state EXCEPT ![current] = "SLEEPING"] \in [Thread -> SchedStates]
    BY DEF SchedStates
  <2>2. foreground' \in Thread
    BY <1>8, ElementOfSeq DEF WaitSleep
  <2>3. pc' \in [Thread -> Places]
    BY <1>8 DEF WaitSleep, Places
  <2> QED
    BY <1>8, <2>1, <2>2, <2>3, ScheduleStep DEF WaitSleep
<1>9. CASE Yield
  <2>1. pc' \in [Thread -> Places]
    BY <1>9 DEF Yield, Places
  <2> QED
    BY <1>9, <2>1, ScheduleStep DEF Yield
<1>10. CASE Resume
  BY <1>10 DEF Resume, Places
<1>11. CASE Return
  BY <1>11 DEF Return, Places
<1>12. ASSUME NEW n \in SleepTicks, Sleep(n) PROVE TypeOK'
  <2>1. [state EXCEPT ![current] = "SLEEPING"] \in [Thread -> SchedStates]
    BY DEF SchedStates
  <2>2. pc' \in [Thread -> Places] /\ wakeIn' \in [Thread -> Nat]
    BY <1>12, ConstAssumption DEF Sleep, Places
  <2> QED
    BY <1>12, <2>1, <2>2, ScheduleStep DEF Sleep
<1>13. ASSUME NEW n \in SleepTicks, NEW c \in Chans, WaitEvent(c, n) PROVE TypeOK'
  <2>1. [state EXCEPT ![current] = "SLEEPING"] \in [Thread -> SchedStates]
    BY DEF SchedStates
  <2>2. /\ pc' \in [Thread -> Places] /\ wakeIn' \in [Thread -> Nat]
        /\ chan' \in [Thread -> Chans \cup {NoChan}]
    BY <1>13, ConstAssumption DEF WaitEvent, Places
  <2> QED
    BY <1>13, <2>1, <2>2, ScheduleStep DEF WaitEvent
<1>14. ASSUME NEW c \in Chans, Block(c) PROVE TypeOK'
  <2>1. [state EXCEPT ![current] = "BLOCKED"] \in [Thread -> SchedStates]
    BY DEF SchedStates
  <2>2. /\ pc' \in [Thread -> Places]
        /\ chan' \in [Thread -> Chans \cup {NoChan}]
    BY <1>14 DEF Block, Places
  <2> QED
    BY <1>14, <2>1, <2>2, ScheduleStep DEF Block
<1>15. ASSUME NEW c \in Chans, Wake(c) PROVE TypeOK'
  <2>1. pc' \in [Thread -> Places]
    BY <1>15 DEF Wake, Places
  <2> QED
    BY <1>15, <2>1, ReadyType, UnchanType DEF Wake
<1>16. ASSUME NEW c \in Chans, DeviceIrq(c) PROVE TypeOK'
  <2>1. pc' \in [Thread -> Places]
    BY <1>16 DEF DeviceIrq, AfterIrq, Places
  <2> QED
    BY <1>16, <2>1, ReadyType, UnchanType DEF DeviceIrq
<1>17. ASSUME NEW sig \in Sigs, NEW ts, Kill(ts, sig) PROVE TypeOK'
  <2>1. pc' \in [Thread -> Places]
    BY <1>17 DEF Kill, Places
  <2> QED
    BY <1>17, <2>1, SignalSendType DEF Kill
<1>18. ASSUME NEW n \in 0..MaxId, NEW g \in PgidArgs, SetPgid(n, g) PROVE TypeOK'
  <2>1. pc' \in [Thread -> Places]
    BY <1>18 DEF SetPgid, Places
  <2>2. pgid' \in [Thread -> Nat]
    BY <1>18, ConstAssumption DEF SetPgid
  <2> QED
    BY <1>18, <2>1, <2>2 DEF SetPgid
<1>19. ASSUME NEW g \in PgidArgs, TtySetFgPgrp(g) PROVE TypeOK'
  BY <1>19, ConstAssumption DEF TtySetFgPgrp, Places
<1>20. ASSUME NEW sig \in Sigs, NEW h \in BOOLEAN, Signal(sig, h) PROVE TypeOK'
  <2>1. caught' \in [Thread -> SUBSET Sigs]
    BY <1>20 DEF Signal
  <2> QED
    BY <1>20, <2>1 DEF Signal, Places
<1>21. CASE DeliverNone
  BY <1>21 DEF DeliverNone, Places
<1>22. CASE DeliverHandler
  <2>1. pend' \in [Thread -> SUBSET Sigs]
    BY <1>22 DEF DeliverHandler
  <2> QED
    BY <1>22, <2>1 DEF DeliverHandler, Places
<1>23. CASE Tick
  <2>1. wakeIn' \in [Thread -> Nat]
    BY <1>23 DEF Tick, Elapsed
  <2>2. pc' \in [Thread -> Places]
    BY <1>23 DEF Tick, AfterIrq, Places
  <2>3. /\ current' \in Thread /\ queue' \in Seq(Thread)
        /\ state' \in [Thread -> SchedStates] /\ slice' \in 1..SLICE
    <3>1. Ready(state, Expired) \in [Thread -> SchedStates]
      BY ReadyType
    <3>4. SLICE \in 1..SLICE
      BY ConstAssumption
    <3>2. CASE Resched
      BY <1>23, <3>1, <3>2, <3>4, ScheduleStep DEF Tick
    <3>3. CASE ~Resched
      BY <1>23, <3>1, <3>3, ConstAssumption DEF Tick, Resched
    <3> QED
      BY <3>2, <3>3
  <2> QED
    BY <1>23, <2>1, <2>2, <2>3 DEF Tick
<1>24. CASE CtrlC
  <2>1. pc' \in [Thread -> Places]
    BY <1>24 DEF CtrlC, AfterIrq, Places
  <2> QED
    BY <1>24, <2>1, SignalSendType DEF CtrlC
<1>25. CASE UNCHANGED vars
  BY <1>25 DEF vars
<1> QED
  BY <1>1, <1>2, <1>3, <1>4, <1>5, <1>6, <1>7, <1>8, <1>9, <1>10, <1>11, <1>12,
     <1>13, <1>14, <1>15, <1>16, <1>17, <1>18, <1>19, <1>20, <1>21, <1>22, <1>23,
     <1>24, <1>25 DEF Next, KillPid, KillGroup

\* Whatever the threads, channels and signals, no system call or interrupt
\* takes a field of a thread or the slice counter out of its range.
THEOREM TypeCorrect == Spec => []TypeOK
BY TypeInit, TypeStep, PTL DEF Spec

----------------------------------------------------------------------------
(* Safety.  The invariants are proved together: that current alone is      *)
(* RUNNING says that no wakeup touches it, that the idle thread is ready   *)
(* says that it never ran the code that parks a thread, and where it runs  *)
(* (BootPlace) says why.                                                   *)

BootPlace == pc[Boot] \in {"boot", "idle"}

SafeInv ==
    /\ TypeOK /\ OneRunning /\ IdleReady /\ BootPlace
    /\ NoLostExit /\ ForegroundAlive

\* A thread state that a wakeup may have changed.
Woke(t, before, after) ==
    \/ after[t] = before[t]
    \/ before[t] \in {"SLEEPING", "BLOCKED"} /\ after[t] = "RUNNABLE"

\* At boot only the boot thread runs and there is no zombie.
LEMMA SafeInit == Init => SafeInv
<1> SUFFICES ASSUME Init PROVE SafeInv
  OBVIOUS
<1>1. TypeOK
  BY TypeInit
<1>2. InRing = {Boot}
  <2>1. Ring = <<Boot>> /\ <<Boot>> \in Seq(Thread) /\ Len(<<Boot>>) = 1 /\ <<Boot>>[1] = Boot
    BY DEF Ring, Init, Thread
  <2>2. Range(<<Boot>>) = {<<Boot>>[k] : k \in 1..1}
    BY <2>1, RangeEquality
  <2> QED
    BY <2>1, <2>2 DEF InRing
<1> QED
  BY <1>1, <1>2, ConstAssumption
     DEF Init, SafeInv, OneRunning, IdleReady, BootPlace, NoLostExit, ForegroundAlive, Thread

\* Steps that call schedule() with states st.
LEMMA SwitchSafe ==
    ASSUME SafeInv, TypeOK',
           NEW st \in [Thread -> SchedStates], NEW sl \in 1..SLICE, Schedule(st, sl),
           \A t \in Thread : t # current => Woke(t, state, st),
           current = Boot => st[current] \in {"RUNNABLE", "RUNNING"},
           pc'[Boot] = pc[Boot],
           \A t \in Thread : t # current /\ pc'[t] = "wait" => pc[t] = "wait",
           parent' = parent,
           parent[current] # NoThread /\ st[current] = "ZOMBIE"
               => st[parent[current]] # "SLEEPING",
           pc'[current] = "wait" /\ st[current] = "SLEEPING"
               => \A c \in InRing : parent[c] = current => state[c] # "ZOMBIE",
           foreground' = foreground \/ foreground' \in InRing
    PROVE  SafeInv'
<1> USE DEF SafeInv
<1>1. /\ InRing' = InRing
      /\ state'[current'] = "RUNNING" /\ current' \in Thread
      /\ \A t \in Thread :
            /\ st[t] \in {"RUNNABLE", "RUNNING"} => state'[t] \in {"RUNNABLE", "RUNNING"}
            /\ st[t] \notin {"RUNNABLE", "RUNNING"} => state'[t] = st[t]
            /\ t # current' /\ state'[t] = "RUNNING" => t # current /\ st[t] = "RUNNING"
  BY ScheduleStep
<1>2. OneRunning'
  BY <1>1 DEF OneRunning, Woke
<1>3. Boot \in Thread
  BY DEF Thread
<1>4. IdleReady'
  <2>1. st[Boot] \in {"RUNNABLE", "RUNNING"}
    BY <1>3 DEF IdleReady, Woke
  <2> QED
    BY <1>1, <1>3, <2>1 DEF IdleReady
<1>5. BootPlace'
  BY DEF BootPlace
<1>6. ForegroundAlive'
  BY <1>1 DEF ForegroundAlive
<1>7. NoLostExit'
  <2> SUFFICES ASSUME NEW t \in InRing, NEW c \in InRing,
                      pc'[t] = "wait", state'[t] = "SLEEPING", parent[c] = t,
                      state'[c] = "ZOMBIE"
               PROVE  FALSE
    BY <1>1 DEF NoLostExit
  <2>1. t \in Thread /\ c \in Thread /\ t # NoThread
    <3>1. queue \in Seq(Thread) /\ current \in Thread
      BY DEF TypeOK
    <3>2. InRing \subseteq Thread
      BY <3>1, RangeAppend, RangeOfSeq DEF InRing, Ring
    <3> QED
      BY <3>2, ConstAssumption
  <2>2. st[t] = "SLEEPING" /\ st[c] = "ZOMBIE"
    BY <1>1, <2>1 DEF SchedStates
  <2>3. CASE c = current
    BY <2>1, <2>2, <2>3
  <2>4. CASE c # current /\ t = current
    BY <2>1, <2>2, <2>4 DEF Woke
  <2>5. CASE c # current /\ t # current
    BY <2>1, <2>2, <2>5 DEF Woke, NoLostExit
  <2> QED
    BY <2>3, <2>4, <2>5
<1> QED
  BY <1>2, <1>4, <1>5, <1>6, <1>7

\* Steps after which the same thread runs on.
LEMMA StaySafe ==
    ASSUME SafeInv, TypeOK', current' = current,
           \A t \in Thread : Woke(t, state, state'),
           pc'[Boot] \in {"boot", "idle"},
           \A t \in Thread : pc'[t] = "wait" => pc[t] = "wait",
           parent' = parent,
           InRing' \subseteq InRing, Boot \in InRing',
           foreground' # NoThread => foreground' \in InRing'
    PROVE  SafeInv'
<1> USE DEF SafeInv
<1>1. OneRunning'
  BY DEF OneRunning, Woke
<1>2. IdleReady'
  BY DEF IdleReady, Woke, Thread
<1>3. NoLostExit'
  <2>1. InRing \subseteq Thread
    BY RangeAppend, RangeOfSeq DEF InRing, Ring, TypeOK
  <2> QED
    BY <2>1 DEF NoLostExit, Woke
<1> QED
  BY <1>1, <1>2, <1>3 DEF BootPlace, ForegroundAlive

\* The ring is unchanged when its parts are.
LEMMA SameRing ==
    ASSUME SafeInv, UNCHANGED <<current, queue, foreground>>
    PROVE  /\ InRing' = InRing /\ Boot \in InRing'
           /\ foreground' # NoThread => foreground' \in InRing'
BY DEF SafeInv, InRing, Ring, IdleReady, ForegroundAlive

\* A wakeup never touches the running thread or the idle thread.
LEMMA WakeFacts ==
    ASSUME NEW ts, \A t \in ts : state[t] \in {"SLEEPING", "BLOCKED"}
    PROVE  \A t \in Thread : Woke(t, state, Ready(state, ts))
<1> SUFFICES ASSUME NEW t \in Thread PROVE Woke(t, state, Ready(state, ts))
  OBVIOUS
<1> QED
  BY DEF Woke, Ready

\* thread_exit: the exiting thread is current and its parent, if it sleeps,
\* is made runnable in the same step.
LEMMA ThreadExitSafe ==
    ASSUME SafeInv, TypeOK', NEW cs, ThreadExit(cs), current # Boot,
           pc' = pc, parent' = parent, foreground' = foreground
    PROVE  SafeInv'
<1> USE DEF SafeInv
<1> DEFINE woken == Waiting(cs)
           st == [Ready(state, woken) EXCEPT ![current] = "ZOMBIE"]
           p == parent[current]
           waiter == IF p # NoThread /\ st[p] = "SLEEPING" THEN {p} ELSE {}
           st2 == Ready(st, waiter)
<1>1. Ready(state, woken) \in [Thread -> SchedStates] /\ current \in Thread
  BY ReadyType DEF TypeOK
<1>2. st \in [Thread -> SchedStates] /\ st[current] = "ZOMBIE"
  BY <1>1 DEF SchedStates
<1>3. st2 \in [Thread -> SchedStates]
  BY <1>2, ReadyType
<1>4. InRing \subseteq Thread
  BY RangeAppend, RangeOfSeq DEF InRing, Ring, TypeOK
<1>5. \A t \in Thread : t # current => Woke(t, state, st)
  <2>1. \A t \in woken : state[t] \in {"SLEEPING", "BLOCKED"}
    BY DEF Waiting
  <2>2. \A t \in Thread : Woke(t, state, Ready(state, woken))
    BY <2>1, WakeFacts
  <2> QED
    BY <1>1, <2>2 DEF Woke
<1>6. st2[current] = "ZOMBIE"
  BY <1>1, <1>2 DEF Ready
<1>7. \A t \in Thread : t # current => Woke(t, state, st2)
  <2> SUFFICES ASSUME NEW t \in Thread, t # current PROVE Woke(t, state, st2)
    OBVIOUS
  <2>1. CASE t \in waiter
    <3>1. st[t] = "SLEEPING" /\ st2[t] = "RUNNABLE"
      BY <2>1 DEF Ready
    <3>2. state[t] = "SLEEPING"
      BY <1>5, <3>1 DEF Woke
    <3> QED
      BY <3>1, <3>2 DEF Woke
  <2>2. CASE t \notin waiter
    <3>1. st2[t] = st[t]
      BY <2>2 DEF Ready
    <3> QED
      BY <3>1, <1>5, Zenon DEF Woke
  <2> QED
    BY <2>1, <2>2
<1>8. p # NoThread => st2[p] # "SLEEPING"
  <2> SUFFICES ASSUME p # NoThread PROVE st2[p] # "SLEEPING"
    OBVIOUS
  <2>1. p \in Thread
    BY <1>1 DEF TypeOK
  <2>2. CASE st[p] = "SLEEPING"
    BY <2>1, <2>2 DEF Ready
  <2>3. CASE st[p] # "SLEEPING"
    BY <2>1, <2>3 DEF Ready
  <2> QED
    BY <2>2, <2>3
<1>9. Schedule(st2, slice) /\ slice \in 1..SLICE
  BY DEF ThreadExit, TypeOK
<1> HIDE DEF st2
<1> QED
  BY <1>3, <1>6, <1>7, <1>8, <1>9, SwitchSafe

\* A thread at a fresh or reused address disturbs no part of the invariant.
LEMMA NewThreadSafe ==
    ASSUME SafeInv, TypeOK', NEW t \in Slots, NEW g, NEW p, NewThread(t, g, p),
           pc'[t] = "user", pc'[Boot] \in {"boot", "idle"},
           \A u \in Thread : pc'[u] = "wait" => pc[u] = "wait"
    PROVE  SafeInv'
<1> USE DEF SafeInv
<1>1. /\ t \in Thread /\ t \notin InRing /\ t # Boot /\ t # current
      /\ queue \in Seq(Thread) /\ current \in Thread
  <2>1. queue \in Seq(Thread) /\ current \in Thread
    BY DEF TypeOK
  <2>2. current \in InRing
    BY <2>1, RangeAppend DEF InRing, Ring
  <2> QED
    BY <2>1, <2>2, ConstAssumption DEF NewThread, Thread
<1>2. InRing = Range(queue) \cup {current} /\ InRing' = InRing \cup {t}
  <2> DEFINE q2 == Append(queue, t)
  <2>1. InRing = Range(queue) \cup {current}
    BY <1>1, RangeAppend DEF InRing, Ring
  <2>2. q2 \in Seq(Thread) /\ Range(q2) = Range(queue) \cup {t}
    BY <1>1, RangeAppend
  <2> HIDE DEF q2
  <2>3. Range(Append(q2, current)) = Range(q2) \cup {current}
    BY ONLY <1>1, <2>2, RangeAppend
  <2>4. InRing' = Range(Append(q2, current))
    BY DEF InRing, Ring, NewThread, q2
  <2> QED
    BY <2>1, <2>2, <2>3, <2>4
<1>3. OneRunning'
  BY <1>1 DEF OneRunning, NewThread, TypeOK
<1>4. IdleReady'
  BY <1>1, <1>2 DEF IdleReady, NewThread, TypeOK, Thread
<1>5. ForegroundAlive'
  BY <1>2 DEF ForegroundAlive, NewThread
<1>6. NoLostExit'
  <2> SUFFICES ASSUME NEW u \in InRing', NEW c \in InRing', pc'[u] = "wait",
                      state'[u] = "SLEEPING", parent'[c] = u, state'[c] = "ZOMBIE"
               PROVE  FALSE
    BY DEF NoLostExit
  <2>1. InRing \subseteq Thread
    BY <1>1, RangeAppend, RangeOfSeq DEF InRing, Ring
  <2>2. u # t /\ c # t
    BY <1>1 DEF NewThread, TypeOK
  <2>3. u \in InRing /\ c \in InRing /\ u \in Thread /\ c \in Thread
    BY <1>2, <2>1, <2>2
  <2>4. pc[u] = "wait" /\ state[u] = "SLEEPING" /\ parent[c] = u /\ state[c] = "ZOMBIE"
    BY <2>2, <2>3 DEF NewThread, TypeOK
  <2> QED
    BY <2>3, <2>4 DEF NoLostExit
<1> QED
  BY <1>3, <1>4, <1>5, <1>6 DEF BootPlace

\* What every case of the step below needs to know of the current state.
LEMMA StepFacts ==
    ASSUME SafeInv
    PROVE  /\ Boot \in Thread /\ current \in Thread /\ pc \in [Thread -> Places]
           /\ state \in [Thread -> SchedStates] /\ slice \in 1..SLICE
           /\ InRing \subseteq Thread /\ current \in InRing /\ Range(queue) \subseteq InRing
           /\ pc[Boot] \in {"boot", "idle"}
           /\ state[current] = "RUNNING"
<1>1. /\ queue \in Seq(Thread) /\ current \in Thread /\ slice \in 1..SLICE
      /\ state \in [Thread -> SchedStates] /\ pc \in [Thread -> Places]
  BY DEF SafeInv, TypeOK
<1>2. InRing = Range(queue) \cup {current}
  BY <1>1, RangeAppend DEF InRing, Ring
<1>3. Range(queue) \subseteq Thread
  BY <1>1, RangeOfSeq
<1> QED
  BY <1>1, <1>2, <1>3 DEF SafeInv, BootPlace, OneRunning, Thread

\* Every system call and interrupt keeps the invariant; one case per action.
LEMMA SafeStep == SafeInv /\ [Next]_vars => SafeInv'
<1> SUFFICES ASSUME SafeInv, [Next]_vars PROVE SafeInv'
  OBVIOUS
<1> USE StepFacts DEF idVars, sigVars, jobVars
<1>a. TypeOK'
  BY TypeStep DEF SafeInv
<1>b. \A t \in Thread : Woke(t, state, state)
  BY DEF Woke
<1>c. ASSUME NEW ts PROVE \A t \in Thread : Woke(t, state, Ready(state, Parked(ts)))
  BY WakeFacts DEF Parked
<1>d. ASSUME NEW cs PROVE \A t \in Thread : Woke(t, state, Ready(state, Waiting(cs)))
  BY WakeFacts DEF Waiting
<1>e. \A t \in Thread : Woke(t, state, Ready(state, Expired))
  BY WakeFacts DEF Expired
<1>1. ASSUME NEW t \in Slots, Fork(t) PROVE SafeInv'
  <2>1. t \in Thread /\ t # current
    BY <1>1 DEF Thread, Fork, NewThread
  <2>2. /\ pc'[t] = "user" /\ pc'[Boot] \in {"boot", "idle"}
        /\ \A u \in Thread : pc'[u] = "wait" => pc[u] = "wait"
    BY <1>1, <2>1, ConstAssumption DEF Fork, AtUser
  <2> QED
    BY <1>1, <1>a, <2>2, NewThreadSafe DEF Fork
<1>2. ASSUME NEW t \in Slots, NEW p \in Prios, Spawn(t, p) PROVE SafeInv'
  <2>2. /\ pc'[t] = "user" /\ pc'[Boot] \in {"boot", "idle"}
        /\ \A u \in Thread : pc'[u] = "wait" => pc[u] = "wait"
    BY <1>2, ConstAssumption DEF Spawn, Thread
  <2> QED
    BY <1>2, <1>a, <2>2, NewThreadSafe DEF Spawn
<1>3. CASE EnableIrqs
  <2>1. /\ pc'[Boot] \in {"boot", "idle"}
        /\ \A t \in Thread : pc'[t] = "wait" => pc[t] = "wait"
    BY <1>3 DEF EnableIrqs
  <2> QED
    BY <1>3, <1>a, <1>b, <2>1, StaySafe, SameRing DEF EnableIrqs, NoSwitch
<1>4. ASSUME NEW cs \in SUBSET Chans, Exit(cs) PROVE SafeInv'
  BY <1>4, <1>a, ThreadExitSafe DEF Exit, AtUser
<1>5. ASSUME NEW cs \in SUBSET Chans, DeliverDefault(cs) PROVE SafeInv'
  BY <1>5, <1>a, ThreadExitSafe DEF DeliverDefault, Returning
<1>6. CASE WaitReap
  <2>1. PICK k \in 1..Len(queue) :
          /\ ZombieChild(queue[k])
          /\ queue' = RemoveAt(queue, k)
          /\ foreground' = IF foreground = queue[k] THEN NoThread ELSE foreground
    BY <1>6 DEF WaitReap
  <2>2. queue[k] # Boot
    BY <2>1 DEF ZombieChild, SafeInv, IdleReady
  <2>3. InRing' \subseteq InRing /\ InRing \ {queue[k]} \subseteq InRing'
    <3>1. queue \in Seq(Thread) /\ current' = current
      BY <1>6 DEF SafeInv, TypeOK, WaitReap
    <3>2. /\ queue' \in Seq(Thread) /\ Range(queue') \subseteq Range(queue)
          /\ Range(queue) \ {queue[k]} \subseteq Range(queue')
      BY <2>1, <3>1, UnlinkRing
    <3>3. InRing = Range(queue) \cup {current}
      BY <3>1, RangeAppend DEF InRing, Ring
    <3>4. InRing' = Range(queue') \cup {current}
      <4> DEFINE q == queue'
      <4>1. q \in Seq(Thread) /\ InRing' = Range(Append(q, current))
        BY <3>1, <3>2 DEF InRing, Ring
      <4> HIDE DEF q
      <4>2. Range(Append(q, current)) = Range(q) \cup {current}
        BY <3>1, <4>1, RangeAppend
      <4> QED
        BY <4>1, <4>2 DEF q
    <3> QED
      BY <3>2, <3>3, <3>4
  <2>4. Boot \in InRing' /\ (foreground' # NoThread => foreground' \in InRing')
    BY <2>1, <2>2, <2>3 DEF SafeInv, IdleReady, ForegroundAlive
  <2>5. /\ pc'[Boot] \in {"boot", "idle"}
        /\ \A t \in Thread : pc'[t] = "wait" => pc[t] = "wait"
    BY <1>6 DEF WaitReap, WaitLoop
  <2> QED
    BY <1>6, <1>a, <1>b, <2>3, <2>4, <2>5, StaySafe DEF WaitReap
<1>7. CASE WaitNone
  <2>1. /\ pc'[Boot] \in {"boot", "idle"}
        /\ \A t \in Thread : pc'[t] = "wait" => pc[t] = "wait"
    BY <1>7 DEF WaitNone, WaitLoop
  <2> QED
    BY <1>7, <1>a, <1>b, <2>1, StaySafe, SameRing DEF WaitNone, NoSwitch
<1>8. CASE WaitSleep
  <2> DEFINE st == [state EXCEPT ![current] = "SLEEPING"]
  <2>1. /\ st \in [Thread -> SchedStates] /\ st[current] = "SLEEPING" /\ current # Boot
        /\ \A t \in Thread : t # current => Woke(t, state, st)
    BY <1>8 DEF SchedStates, Woke, WaitSleep, WaitLoop
  <2>2. /\ pc'[Boot] = pc[Boot]
        /\ \A t \in Thread : t # current /\ pc'[t] = "wait" => pc[t] = "wait"
    BY <1>8, <2>1 DEF WaitSleep
  <2>3. \A c \in InRing : parent[c] = current => state[c] # "ZOMBIE"
    BY <1>8 DEF WaitSleep, ZombieChild, Child
  <2>4. foreground' \in InRing
    <3>1. PICK k \in 1..Len(queue) : foreground' = queue[k]
      BY <1>8 DEF WaitSleep
    <3>2. queue[k] \in Range(queue)
      BY <3>1, RangeEquality DEF SafeInv, TypeOK
    <3> QED
      BY <3>1, <3>2
  <2>5. Schedule(st, slice) /\ parent' = parent
    BY <1>8 DEF WaitSleep
  <2> HIDE DEF st
  <2> QED
    BY <1>a, <2>1, <2>2, <2>3, <2>4, <2>5, SwitchSafe
<1>9. CASE Yield
  <2>1. /\ current # Boot /\ pc'[Boot] = pc[Boot] /\ pc'[current] = "ret"
        /\ \A t \in Thread : t # current /\ pc'[t] = "wait" => pc[t] = "wait"
    BY <1>9 DEF Yield, AtUser
  <2> QED
    BY <1>9, <1>a, <1>b, <2>1, SwitchSafe DEF Yield
\* Sleep, Block and WaitEvent: the thread parks at a place other than "wait".
<1>h. ASSUME NEW s \in {"SLEEPING", "BLOCKED"}, NEW at \in Places \ {"wait"},
             current # Boot, pc' = [pc EXCEPT ![current] = at],
             Schedule([state EXCEPT ![current] = s], slice),
             parent' = parent, foreground' = foreground
      PROVE  SafeInv'
  <2> DEFINE st == [state EXCEPT ![current] = s]
  <2>1. /\ st \in [Thread -> SchedStates] /\ st[current] = s
        /\ \A t \in Thread : t # current => Woke(t, state, st)
    BY DEF SchedStates, Woke
  <2>2. /\ pc'[Boot] = pc[Boot] /\ pc'[current] # "wait"
        /\ \A t \in Thread : t # current /\ pc'[t] = "wait" => pc[t] = "wait"
    BY <1>h
  <2>3. Schedule(st, slice)
    BY <1>h
  <2> HIDE DEF st
  <2> QED
    BY <1>a, <1>h, <2>1, <2>2, <2>3, SwitchSafe
<1>10. ASSUME NEW n \in SleepTicks, Sleep(n) PROVE SafeInv'
  <2>1. current # Boot
    BY <1>10 DEF Sleep, AtUser
  <2> QED
    BY <1>10, <1>h, <2>1 DEF Sleep, Places
<1>11. ASSUME NEW c \in Chans, Block(c) PROVE SafeInv'
  <2>1. current # Boot
    BY <1>11 DEF Block, InCall
  <2> QED
    BY <1>11, <1>h, <2>1 DEF Block, Places
<1>12. ASSUME NEW c \in Chans, NEW n \in SleepTicks, WaitEvent(c, n) PROVE SafeInv'
  <2>1. current # Boot
    BY <1>12 DEF WaitEvent, InCall
  <2> QED
    BY <1>12, <1>h, <2>1 DEF WaitEvent, Places
\* Calls after which the same thread goes on, in kernel code or at EL0.
<1>f. ASSUME UNCHANGED <<current, queue, foreground, parent>>,
             \A t \in Thread : Woke(t, state, state'),
             NEW at \in Places \ {"wait"}, pc' = [pc EXCEPT ![current] = at],
             current # Boot
      PROVE  SafeInv'
  <2>1. /\ pc'[Boot] \in {"boot", "idle"}
        /\ \A t \in Thread : pc'[t] = "wait" => pc[t] = "wait"
    BY <1>f
  <2> QED
    BY <1>a, <1>f, <2>1, StaySafe, SameRing
<1>13. CASE Resume
  <2>1. current # Boot
    BY <1>13 DEF Resume
  <2> QED
    BY <1>13, <1>b, <1>f, <2>1 DEF Resume, NoSwitch, Places
<1>14. CASE Return
  <2>1. current # Boot
    BY <1>14 DEF Return
  <2> QED
    BY <1>14, <1>b, <1>f, <2>1 DEF Return, NoSwitch, Places
<1>15. ASSUME NEW c \in Chans, Wake(c) PROVE SafeInv'
  <2>1. current # Boot
    BY <1>15 DEF Wake, InCall
  <2> QED
    BY <1>15, <1>d, <1>f, <2>1 DEF Wake, NoSwitch, Places
\* Interrupts after which the same thread goes on.
<1>g. ASSUME UNCHANGED <<current, queue, foreground, parent>>,
             \A t \in Thread : Woke(t, state, state'), AfterIrq
      PROVE  SafeInv'
  <2>1. /\ pc'[Boot] \in {"boot", "idle"}
        /\ \A t \in Thread : pc'[t] = "wait" => pc[t] = "wait"
    BY <1>g DEF AfterIrq
  <2> QED
    BY <1>a, <1>g, <2>1, StaySafe, SameRing
<1>16. ASSUME NEW c \in Chans, DeviceIrq(c) PROVE SafeInv'
  BY <1>16, <1>d, <1>g DEF DeviceIrq, NoSwitch
<1>17. ASSUME NEW sig \in Sigs, NEW ts, Kill(ts, sig) PROVE SafeInv'
  <2>1. current # Boot
    BY <1>17 DEF Kill, AtUser
  <2> QED
    BY <1>17, <1>c, <1>f, <2>1 DEF Kill, SignalSend, NoSwitch, Places
<1>18. ASSUME NEW n \in 0..MaxId, NEW g \in PgidArgs, SetPgid(n, g) PROVE SafeInv'
  <2>1. current # Boot
    BY <1>18 DEF SetPgid, AtUser
  <2> QED
    BY <1>18, <1>b, <1>f, <2>1 DEF SetPgid, NoSwitch, Places
<1>19. ASSUME NEW g \in PgidArgs, TtySetFgPgrp(g) PROVE SafeInv'
  <2>1. current # Boot
    BY <1>19 DEF TtySetFgPgrp, AtUser
  <2> QED
    BY <1>19, <1>b, <1>f, <2>1 DEF TtySetFgPgrp, NoSwitch, Places
<1>20. ASSUME NEW sig \in Sigs, NEW h \in BOOLEAN, Signal(sig, h) PROVE SafeInv'
  <2>1. current # Boot
    BY <1>20 DEF Signal, AtUser
  <2> QED
    BY <1>20, <1>b, <1>f, <2>1 DEF Signal, NoSwitch, Places
<1>21. CASE DeliverNone
  <2>1. current # Boot
    BY <1>21 DEF DeliverNone, Returning
  <2> QED
    BY <1>21, <1>b, <1>f, <2>1 DEF DeliverNone, NoSwitch, Places
<1>22. CASE DeliverHandler
  <2>1. current # Boot
    BY <1>22 DEF DeliverHandler, Returning
  <2> QED
    BY <1>22, <1>b, <1>f, <2>1 DEF DeliverHandler, NoSwitch, Places
<1>23. CASE Tick
  <2>1. parent' = parent /\ foreground' = foreground
    BY <1>23 DEF Tick
  <2>2. /\ pc'[Boot] = pc[Boot] /\ pc'[current] # "wait"
        /\ \A t \in Thread : pc'[t] = "wait" => pc[t] = "wait"
    BY <1>23 DEF Tick, AfterIrq, IrqsOn
  <2>3. CASE Resched
    <3> DEFINE st == Ready(state, Expired)
    <3>1. st \in [Thread -> SchedStates]
      BY ReadyType
    <3>2. st[current] = "RUNNING" /\ SLICE \in 1..SLICE
      BY ConstAssumption DEF Ready, Expired
    <3>3. Schedule(st, SLICE)
      BY <1>23, <2>3 DEF Tick, Resched
    <3>4. \A t \in Thread : t # current => Woke(t, state, st)
      BY <1>e
    <3> HIDE DEF st
    <3> QED
      BY <1>a, <2>1, <2>2, <3>1, <3>2, <3>3, <3>4, SwitchSafe
  <2>4. CASE ~Resched
    BY <1>23, <1>e, <1>g, <2>1, <2>4 DEF Tick
  <2> QED
    BY <2>3, <2>4
<1>24. CASE CtrlC
  BY <1>24, <1>c, <1>g DEF CtrlC, SignalSend, NoSwitch
<1>25. CASE UNCHANGED vars
  <2>1. /\ pc'[Boot] \in {"boot", "idle"}
        /\ \A t \in Thread : pc'[t] = "wait" => pc[t] = "wait"
    BY <1>25 DEF vars
  <2> QED
    BY <1>25, <1>a, <1>b, <2>1, StaySafe, SameRing DEF vars
<1> QED
  BY <1>1, <1>2, <1>3, <1>4, <1>5, <1>6, <1>7, <1>8, <1>9, <1>10, <1>11, <1>12,
     <1>13, <1>14, <1>15, <1>16, <1>17, <1>18, <1>19, <1>20, <1>21, <1>22, <1>23,
     <1>24, <1>25 DEF Next, KillPid, KillGroup

\* The inductive invariant of the scheduler.
LEMMA SafetyInvariant == Spec => []SafeInv
BY SafeInit, SafeStep, PTL DEF Spec

\* However wakeups, signals, exits and ticks interleave, for any number of
\* threads and channels the thread on the CPU is the one marked RUNNING.
THEOREM OneRunningAlways == Spec => []OneRunning
<1>1. SafeInv => OneRunning
  BY DEF SafeInv
<1> QED
  BY <1>1, SafetyInvariant, PTL

\* schedule() always finds the idle thread ready.
THEOREM IdleReadyAlways == Spec => []IdleReady
<1>1. SafeInv => IdleReady
  BY DEF SafeInv
<1> QED
  BY <1>1, SafetyInvariant, PTL

\* No parent sleeps in sched_wait over a zombie child, even when a thread
\* reuses the address of the child's dead parent.
THEOREM NoLostExitAlways == Spec => []NoLostExit
<1>1. SafeInv => NoLostExit
  BY DEF SafeInv
<1> QED
  BY <1>1, SafetyInvariant, PTL

\* The Ctrl-C target is never a freed thread.
THEOREM ForegroundAliveAlways == Spec => []ForegroundAlive
<1>1. SafeInv => ForegroundAlive
  BY DEF SafeInv
<1> QED
  BY <1>1, SafetyInvariant, PTL

----------------------------------------------------------------------------
(* What a step may do to the ring and to the states of its threads: call   *)
(* schedule(), keep the CPU, add a thread or reap one.                      *)

Switches ==
    \E st \in [Thread -> SchedStates], sl \in 1..SLICE :
        /\ Schedule(st, sl)
        /\ \A t \in Thread : t # current => Woke(t, state, st)
        /\ prio' = prio

Stays ==
    /\ UNCHANGED <<current, queue>>
    /\ slice' <= slice
    /\ \A t \in Thread : Woke(t, state, state')

Joins(t) ==
    /\ t \in Slots \ InRing
    /\ UNCHANGED <<current, slice>> /\ queue' = Append(queue, t)
    /\ \A u \in Thread : u # t => state'[u] = state[u]

\* A step that gives up the CPU in a state s of the current thread.
LEMMA Parking ==
    ASSUME SafeInv, NEW s \in SchedStates,
           Schedule([state EXCEPT ![current] = s], slice), prio' = prio
    PROVE  Switches
<1> DEFINE st == [state EXCEPT ![current] = s]
<1>1. st \in [Thread -> SchedStates] /\ \A t \in Thread : t # current => Woke(t, state, st)
  BY StepFacts DEF Woke
<1>2. Schedule(st, slice) /\ slice \in 1..SLICE
  BY StepFacts
<1> HIDE DEF st
<1> QED
  BY <1>1, <1>2 DEF Switches

\* thread_exit calls schedule() with its caller a zombie.
LEMMA Exiting ==
    ASSUME SafeInv, NEW cs, ThreadExit(cs), prio' = prio
    PROVE  Switches
<1> DEFINE woken == Waiting(cs)
           st == [Ready(state, woken) EXCEPT ![current] = "ZOMBIE"]
           p == parent[current]
           waiter == IF p # NoThread /\ st[p] = "SLEEPING" THEN {p} ELSE {}
           st2 == Ready(st, waiter)
<1>1. current \in Thread /\ state \in [Thread -> SchedStates]
  BY StepFacts
<1>2. \A t \in Thread : Woke(t, state, Ready(state, woken))
  BY WakeFacts DEF Waiting
<1>3. st \in [Thread -> SchedStates] /\ \A t \in Thread : t # current => st[t] = Ready(state, woken)[t]
  <2>1. Ready(state, woken) \in [Thread -> SchedStates]
    BY <1>1, ReadyType
  <2> QED
    BY <2>1 DEF SchedStates
<1>4. st2 \in [Thread -> SchedStates]
  BY <1>3, ReadyType
<1>5. \A t \in Thread : t # current => Woke(t, state, st)
  BY <1>2, <1>3 DEF Woke
<1> HIDE DEF st, woken
<1>6. \A t \in Thread : st2[t] = IF t \in waiter THEN "RUNNABLE" ELSE st[t]
  BY DEF Ready
<1>7. \A t \in Thread : t \in waiter => st[t] = "SLEEPING"
  OBVIOUS
<1> HIDE DEF st2, waiter
<1>8. \A t \in Thread : t # current => Woke(t, state, st2)
  BY <1>5, <1>6, <1>7 DEF Woke
<1>9. Schedule(st2, slice) /\ slice \in 1..SLICE
  BY StepFacts DEF ThreadExit, st, st2, woken, waiter
<1> QED
  BY <1>4, <1>8, <1>9 DEF Switches

\* Every system call and interrupt is of one of the four kinds.
LEMMA StepKinds ==
    ASSUME SafeInv, [Next]_vars
    PROVE  Switches \/ Stays \/ WaitReap \/ \E t \in Slots : Joins(t)
<1> USE DEF idVars, sigVars, jobVars, NoSwitch
<1>0. /\ slice \in Nat /\ slice <= slice /\ slice - 1 <= slice
      /\ state \in [Thread -> SchedStates] /\ current \in Thread /\ slice \in 1..SLICE
  BY StepFacts, ConstAssumption
<1>a. \A t \in Thread : Woke(t, state, state)
  BY DEF Woke
<1>b. ASSUME NEW ts PROVE \A t \in Thread : Woke(t, state, Ready(state, Parked(ts)))
  BY WakeFacts DEF Parked
<1>c. ASSUME NEW cs PROVE \A t \in Thread : Woke(t, state, Ready(state, Waiting(cs)))
  BY WakeFacts DEF Waiting
<1>d. \A t \in Thread : Woke(t, state, Ready(state, Expired))
  BY WakeFacts DEF Expired
\* Steps that leave the ring and the states of all threads alone.
<1>e. ASSUME UNCHANGED <<current, queue, slice, state>> PROVE Stays
  BY <1>0, <1>a, <1>e DEF Stays
<1>1. ASSUME NEW t \in Slots, Fork(t) PROVE Joins(t)
  BY <1>0, <1>1 DEF Joins, Fork, NewThread
<1>2. ASSUME NEW t \in Slots, NEW p \in Prios, Spawn(t, p) PROVE Joins(t)
  BY <1>0, <1>2 DEF Joins, Spawn, NewThread
<1>3. ASSUME NEW cs, Exit(cs) PROVE Switches
  BY <1>3, Exiting DEF Exit
<1>4. ASSUME NEW cs, DeliverDefault(cs) PROVE Switches
  BY <1>4, Exiting DEF DeliverDefault
<1>5. CASE WaitSleep \/ \E n \in SleepTicks : Sleep(n) \/ \E c \in Chans : WaitEvent(c, n)
  BY <1>5, Parking DEF WaitSleep, Sleep, WaitEvent, SchedStates
<1>6. CASE \E c \in Chans : Block(c)
  BY <1>6, Parking DEF Block, SchedStates
<1>7. CASE Yield
  BY <1>0, <1>7, <1>a DEF Yield, Switches
<1>8. CASE EnableIrqs \/ WaitNone \/ Resume \/ Return \/ DeliverNone \/ DeliverHandler
  BY <1>8, <1>e DEF EnableIrqs, WaitNone, Resume, Return, DeliverNone, DeliverHandler
<1>9. ASSUME NEW g \in PgidArgs,
             TtySetFgPgrp(g) \/ \E n \in 0..MaxId : SetPgid(n, g)
      PROVE  Stays
  BY <1>9, <1>e DEF TtySetFgPgrp, SetPgid
<1>10. ASSUME NEW c \in Chans, Wake(c) \/ DeviceIrq(c) PROVE Stays
  BY <1>0, <1>10, <1>c DEF Wake, DeviceIrq, Stays
<1>11. ASSUME NEW ts, NEW sig, Kill(ts, sig) PROVE Stays
  BY <1>0, <1>11, <1>b DEF Kill, SignalSend, Stays
<1>12. CASE CtrlC
  BY <1>0, <1>12, <1>b DEF CtrlC, SignalSend, Stays
<1>13. CASE Tick /\ Resched
  <2> DEFINE st == Ready(state, Expired)
  <2>1. /\ st \in [Thread -> SchedStates] /\ Schedule(st, SLICE) /\ SLICE \in 1..SLICE
        /\ prio' = prio /\ \A t \in Thread : Woke(t, state, st)
    BY <1>0, <1>13, <1>d, ReadyType, ConstAssumption DEF Tick
  <2> HIDE DEF st
  <2> QED
    BY <2>1 DEF Switches
<1>14. CASE Tick /\ ~Resched
  BY <1>0, <1>14, <1>d DEF Tick, Stays
<1>15. CASE UNCHANGED vars
  BY <1>15, <1>e DEF vars
<1>16. ASSUME NEW sig \in Sigs, NEW h \in BOOLEAN, Signal(sig, h) PROVE Stays
  BY <1>16, <1>e DEF Signal
<1> QED
  BY <1>1, <1>2, <1>3, <1>4, <1>5, <1>6, <1>7, <1>8, <1>9, <1>10, <1>11, <1>12, <1>13,
     <1>14, <1>15, <1>16 DEF Next, KillPid, KillGroup

\* The new ring after each kind of step.
LEMMA RingAfter ==
    ASSUME SafeInv
    PROVE  /\ Stays => InRing' = InRing
           /\ \A t \in Slots : Joins(t) => InRing' = InRing \cup {t}
<1>1. queue \in Seq(Thread) /\ current \in Thread
  BY DEF SafeInv, TypeOK
<1>2. Stays => InRing' = InRing
  BY DEF Stays, InRing, Ring
<1>3. ASSUME NEW t \in Slots, Joins(t) PROVE InRing' = InRing \cup {t}
  <2> DEFINE q2 == Append(queue, t)
  <2>1. InRing = Range(queue) \cup {current}
    BY <1>1, RangeAppend DEF InRing, Ring
  <2>2. q2 \in Seq(Thread) /\ Range(q2) = Range(queue) \cup {t}
    <3>1. t \in Thread
      BY DEF Thread
    <3> QED
      BY ONLY <1>1, <3>1, RangeAppend
  <2> HIDE DEF q2
  <2>3. Range(Append(q2, current)) = Range(q2) \cup {current}
    BY ONLY <1>1, <2>2, RangeAppend
  <2>4. InRing' = Range(Append(q2, current))
    BY <1>3 DEF InRing, Ring, Joins, q2
  <2> QED
    BY <2>1, <2>2, <2>3, <2>4
<1> QED
  BY <1>2, <1>3

\* Reaping takes one zombie child of the caller off the ring.
LEMMA Reaping ==
    ASSUME SafeInv, WaitReap
    PROVE  /\ UNCHANGED <<current, state, slice>>
           /\ InRing' \subseteq InRing
           /\ \A t \in InRing : t \notin InRing' => state[t] = "ZOMBIE" /\ parent[t] = current
<1>1. PICK k \in 1..Len(queue) : ZombieChild(queue[k]) /\ queue' = RemoveAt(queue, k)
  BY DEF WaitReap
<1>2. queue \in Seq(Thread) /\ current \in Thread /\ UNCHANGED <<current, state, slice>>
  BY DEF SafeInv, TypeOK, WaitReap
<1>3. /\ queue' \in Seq(Thread) /\ Range(queue') \subseteq Range(queue)
      /\ Range(queue) \ {queue[k]} \subseteq Range(queue')
  BY <1>1, <1>2, UnlinkRing
<1>4. InRing = Range(queue) \cup {current}
  BY <1>2, RangeAppend DEF InRing, Ring
<1>5. InRing' = Range(queue') \cup {current}
  <2> DEFINE q == queue'
  <2>1. q \in Seq(Thread) /\ InRing' = Range(Append(q, current))
    BY <1>2, <1>3 DEF InRing, Ring
  <2> HIDE DEF q
  <2>2. Range(Append(q, current)) = Range(q) \cup {current}
    BY <1>2, <2>1, RangeAppend
  <2> QED
    BY <2>1, <2>2 DEF q
<1> QED
  BY <1>1, <1>2, <1>3, <1>4, <1>5 DEF ZombieChild, Child

\* schedule() picks a thread that no ready thread outranks, and no other step
\* starts a slice or changes hands.
LEMMA PriorityStep ==
    ASSUME SafeInv, [Next]_vars, slice' > slice \/ current' # current,
           NEW t \in InRing', state'[t] = "RUNNABLE"
    PROVE  prio'[t] <= prio'[current']
<1>1. slice \in 1..SLICE /\ slice \in Int
  BY StepFacts, ConstAssumption
<1>2. Switches
  <2>1. TypeOK'
    BY TypeStep DEF SafeInv
  <2>2. slice' \in Int
    BY <2>1, ConstAssumption DEF TypeOK
  <2>3. ~Stays
    BY <1>1, <2>2 DEF Stays
  <2>4. ~WaitReap
    BY <1>1, <2>2, Reaping
  <2>5. \A u \in Slots : ~Joins(u)
    BY <1>1, <2>2 DEF Joins
  <2> QED
    BY <2>3, <2>4, <2>5, StepKinds
<1>3. PICK st \in [Thread -> SchedStates], sl \in 1..SLICE : Schedule(st, sl) /\ prio' = prio
  BY <1>2 DEF Switches
<1> DEFINE ready == [u \in Thread |->
                       IF u = current /\ st[u] = "RUNNING" THEN "RUNNABLE" ELSE st[u]]
<1>4. PICK i \in 1..Len(Ring) :
         /\ Chosen(ready, i)
         /\ state' = [ready EXCEPT ![Ring[i]] = "RUNNING"]
         /\ current' = Ring[i]
  BY <1>3 DEF Schedule
<1>5. Ring \in Seq(Thread) /\ InRing' = InRing /\ prio \in [Thread -> Nat \cup {IdlePrio}]
  <2>1. TypeOK
    BY DEF SafeInv
  <2>2. Ring \in Seq(Thread)
    BY <2>1, RangeAppend DEF TypeOK, Ring
  <2> QED
    BY <1>3, <2>1, <2>2, ScheduleStep DEF TypeOK
<1>6. Ring[i] \in Thread /\ t \in Range(Ring)
  BY <1>4, <1>5, ElementOfSeq DEF InRing
<1>7. PICK j \in 1..Len(Ring) : t = Ring[j]
  BY <1>5, <1>6, RangeEquality
<1>8. t \in Thread /\ t # Ring[i]
  BY <1>4, <1>5, <1>6, <1>7, ElementOfSeq
<1>9. ready[t] = "RUNNABLE"
  BY <1>4, <1>8
<1> HIDE DEF ready
<1>10. prio[t] < prio[Ring[i]] \/ prio[t] = prio[Ring[i]]
  BY <1>4, <1>7, <1>9 DEF Chosen
<1>11. prio[t] \in Int /\ prio[Ring[i]] \in Int
  BY <1>5, <1>6, <1>8 DEF IdlePrio
<1>12. prio[t] <= prio[Ring[i]]
  BY <1>10, <1>11
<1> QED
  BY <1>3, <1>4, <1>12

\* Whoever gives up the CPU, and whatever a tick wakes, the thread that takes
\* it has the highest priority of all that are ready.
THEOREM PriorityRespectedAlways == Spec => PriorityRespected
<1>1. SafeInv /\ [Next]_vars =>
        [slice' > slice \/ current' # current =>
            \A t \in InRing' : state'[t] = "RUNNABLE" => prio'[t] <= prio'[current']]_vars
  BY PriorityStep
<1> QED
  BY <1>1, SafetyInvariant, PTL DEF Spec, PriorityRespected

\* A zombie is not woken, killed or scheduled, and it alone can be unlinked.
LEMMA ZombieStep ==
    ASSUME SafeInv, [Next]_vars, NEW t \in InRing
    PROVE  /\ state[t] = "ZOMBIE" => state'[t] = "ZOMBIE"
           /\ t \notin InRing' => state[t] = "ZOMBIE" /\ parent[t] = current
<1>1. t \in Thread /\ TypeOK /\ state[current] = "RUNNING"
  BY StepFacts DEF SafeInv
<1>2. CASE Switches
  <2>1. PICK st \in [Thread -> SchedStates], sl \in 1..SLICE :
           Schedule(st, sl) /\ \A u \in Thread : u # current => Woke(u, state, st)
    BY <1>2 DEF Switches
  <2>2. InRing' = InRing /\ (st[t] = "ZOMBIE" => state'[t] = "ZOMBIE")
    BY <1>1, <2>1, ScheduleStep
  <2>3. state[t] = "ZOMBIE" => st[t] = "ZOMBIE"
    BY <1>1, <2>1 DEF Woke
  <2> QED
    BY <2>2, <2>3
<1>3. CASE Stays
  BY <1>1, <1>3, RingAfter DEF Stays, Woke
<1>4. CASE WaitReap
  BY <1>4, Reaping
<1>5. ASSUME NEW u \in Slots, Joins(u)
      PROVE  t \in InRing' /\ state'[t] = state[t]
  BY <1>1, <1>5, RingAfter DEF Joins
<1> QED
  BY <1>2, <1>3, <1>4, <1>5, StepKinds

\* A zombie waits for its parent on the ring, and nothing else leaves it.
THEOREM ZombieUntilReapedAlways == Spec => ZombieUntilReaped
<1>1. SafeInv /\ [Next]_vars =>
        [\A t \in InRing :
           /\ state[t] = "ZOMBIE" => state'[t] = "ZOMBIE"
           /\ t \notin InRing' => state[t] = "ZOMBIE" /\ parent[t] = current]_vars
  BY ZombieStep
<1> QED
  BY <1>1, SafetyInvariant, PTL DEF Spec, ZombieUntilReaped

----------------------------------------------------------------------------
(* Wait channels.                                                          *)

\* A thread gets a channel only together with the place where it waits for
\* it, and leaves that place only by giving the channel up.
LEMMA ChanStep ==
    ASSUME SafeInv, NoStaleChan, [Next]_vars
    PROVE  NoStaleChan'
<1> USE StepFacts DEF idVars, sigVars, jobVars, NoSwitch
<1>0. chan \in [Thread -> Chans \cup {NoChan}] /\ NoChan \notin Chans
  BY ConstAssumption DEF SafeInv, TypeOK
\* Steps of a thread outside sched_block: some channels are given up.
<1>a. ASSUME InRing' \subseteq InRing,
             \A t \in Thread : chan'[t] \in {chan[t], NoChan},
             \A t \in Thread : t # current => pc'[t] = pc[t],
             pc[current] # "block" \/ pc' = pc
      PROVE  NoStaleChan'
  <2> SUFFICES ASSUME NEW t \in InRing', chan'[t] # NoChan PROVE pc'[t] = "block"
    BY DEF NoStaleChan
  <2>1. t \in InRing /\ t \in Thread /\ chan[t] # NoChan
    BY <1>a
  <2>2. pc[t] = "block"
    BY <2>1 DEF NoStaleChan
  <2> QED
    BY <1>a, <2>1, <2>2
\* sched_block and sched_wait_event.
<1>b. ASSUME InRing' \subseteq InRing, NEW c,
             chan' = [chan EXCEPT ![current] = c],
             pc' = [pc EXCEPT ![current] = "block"]
      PROVE  NoStaleChan'
  BY <1>0, <1>b DEF NoStaleChan
<1>c. ASSUME Switches PROVE InRing' = InRing
  <2>1. TypeOK
    BY DEF SafeInv
  <2> QED
    BY <1>c, <2>1, ScheduleStep DEF Switches
<1>d. ASSUME NEW t \in Slots, Joins(t), chan' = [chan EXCEPT ![t] = NoChan],
             \A u \in Thread \ {t, current} : pc'[u] = pc[u], pc[current] # "block"
      PROVE  NoStaleChan'
  <2>1. InRing' = InRing \cup {t} /\ t \in Thread
    BY <1>d, RingAfter DEF Thread
  <2> SUFFICES ASSUME NEW u \in InRing', chan'[u] # NoChan PROVE pc'[u] = "block"
    BY DEF NoStaleChan
  <2>2. u # t /\ u \in InRing /\ u \in Thread /\ chan[u] # NoChan
    BY <1>0, <1>d, <2>1
  <2>3. pc[u] = "block"
    BY <2>2 DEF NoStaleChan
  <2> QED
    BY <1>d, <2>2, <2>3
<1>e. ASSUME NEW ts PROVE \A t \in Thread : Unchan(ts)[t] \in {chan[t], NoChan}
  BY DEF Unchan
<1>1. ASSUME NEW t \in Slots, Fork(t) PROVE NoStaleChan'
  <2>1. Joins(t)
    BY <1>1 DEF Joins, Fork, NewThread
  <2> QED
    BY <1>1, <1>d, <2>1 DEF Fork, NewThread, AtUser
<1>2. ASSUME NEW t \in Slots, NEW p \in Prios, Spawn(t, p) PROVE NoStaleChan'
  <2>1. Joins(t)
    BY <1>2 DEF Joins, Spawn, NewThread
  <2> QED
    BY <1>2, <1>d, <2>1 DEF Spawn, NewThread
<1>3. ASSUME NEW cs, Exit(cs) \/ DeliverDefault(cs) PROVE NoStaleChan'
  <2>1. ThreadExit(cs) /\ prio' = prio /\ pc' = pc
    BY <1>3 DEF Exit, DeliverDefault
  <2>2. InRing' = InRing /\ chan' = Unchan(Waiting(cs))
    BY <1>c, <2>1, Exiting DEF ThreadExit
  <2> QED
    BY <1>a, <1>e, <2>1, <2>2
<1>4. CASE WaitSleep \/ \E n \in SleepTicks : Sleep(n)
  <2>1. InRing' = InRing
    BY <1>4, <1>c, Parking DEF WaitSleep, Sleep, SchedStates
  <2>2. pc[current] # "block" /\ chan' = chan /\ \A t \in Thread : t # current => pc'[t] = pc[t]
    BY <1>4 DEF WaitSleep, WaitLoop, Sleep, AtUser
  <2> QED
    BY <1>a, <2>1, <2>2
<1>5. CASE Yield
  <2>1. InRing' = InRing
    <3>1. \A t \in Thread : Woke(t, state, state)
      BY DEF Woke
    <3> QED
      BY <1>5, <1>c, <3>1 DEF Yield, Switches
  <2>2. pc[current] # "block" /\ chan' = chan /\ \A t \in Thread : t # current => pc'[t] = pc[t]
    BY <1>5 DEF Yield, AtUser
  <2> QED
    BY <1>a, <2>1, <2>2
<1>6. ASSUME NEW c \in Chans, Block(c) \/ \E n \in SleepTicks : WaitEvent(c, n)
      PROVE  NoStaleChan'
  <2>1. InRing' = InRing
    BY <1>6, <1>c, Parking DEF Block, WaitEvent, SchedStates
  <2> QED
    BY <1>6, <1>b, <2>1 DEF Block, WaitEvent
<1>7. CASE Resume
  BY <1>0, <1>7 DEF Resume, NoStaleChan, InRing, Ring
<1>8. CASE WaitReap
  <2>1. pc[current] # "block" /\ chan' = chan /\ \A t \in Thread : t # current => pc'[t] = pc[t]
    BY <1>8 DEF WaitReap, WaitLoop
  <2> QED
    BY <1>8, <1>a, <2>1, Reaping
\* Steps after which the same thread runs on.
<1>f. ASSUME UNCHANGED <<current, queue>>, chan' = chan \/ \E ts : chan' = Unchan(ts),
             pc[current] # "block", NEW at, pc' = [pc EXCEPT ![current] = at]
      PROVE  NoStaleChan'
  <2>1. InRing' = InRing
    BY <1>f DEF InRing, Ring
  <2>2. \A t \in Thread : chan'[t] \in {chan[t], NoChan}
    BY <1>e, <1>f
  <2>3. \A t \in Thread : t # current => pc'[t] = pc[t]
    BY <1>f
  <2> QED
    BY <1>a, <1>f, <2>1, <2>2, <2>3
<1>9. CASE EnableIrqs \/ WaitNone \/ Return \/ DeliverNone \/ DeliverHandler
  BY <1>9, <1>f
     DEF EnableIrqs, WaitNone, WaitLoop, Return, DeliverNone, DeliverHandler, Returning
<1>10. ASSUME NEW g \in PgidArgs, TtySetFgPgrp(g) \/ \E n \in 0..MaxId : SetPgid(n, g)
       PROVE  NoStaleChan'
  BY <1>10, <1>f DEF TtySetFgPgrp, SetPgid, AtUser
<1>11. ASSUME NEW sig \in Sigs, NEW h \in BOOLEAN, Signal(sig, h) PROVE NoStaleChan'
  BY <1>11, <1>f DEF Signal, AtUser
<1>12. ASSUME NEW c \in Chans, Wake(c) PROVE NoStaleChan'
  BY <1>12, <1>f DEF Wake, InCall
<1>13. ASSUME NEW c \in Chans, DeviceIrq(c) PROVE NoStaleChan'
  BY <1>13, <1>f DEF DeviceIrq, IrqsOn, AfterIrq
<1>14. ASSUME NEW ts, NEW sig, Kill(ts, sig) PROVE NoStaleChan'
  BY <1>14, <1>f DEF Kill, SignalSend, AtUser
<1>15. CASE CtrlC
  BY <1>15, <1>f DEF CtrlC, SignalSend, IrqsOn, AfterIrq
<1>16. CASE Tick
  <2>1. InRing' = InRing
    <3>1. CASE Resched
      <4>1. Schedule(Ready(state, Expired), SLICE)
        BY <1>16, <3>1 DEF Tick
      <4>2. Ready(state, Expired) \in [Thread -> SchedStates] /\ SLICE \in 1..SLICE /\ TypeOK
        BY ReadyType, ConstAssumption DEF SafeInv
      <4> QED
        BY <4>1, <4>2, ScheduleStep
    <3>2. CASE ~Resched
      BY <1>16, <3>2 DEF Tick, InRing, Ring
    <3> QED
      BY <3>1, <3>2
  <2>2. pc[current] # "block" /\ chan' = chan /\ \A t \in Thread : t # current => pc'[t] = pc[t]
    BY <1>16 DEF Tick, IrqsOn, AfterIrq
  <2> QED
    BY <1>a, <2>1, <2>2
<1>17. CASE UNCHANGED vars
  BY <1>17 DEF vars, NoStaleChan, InRing, Ring
<1> QED
  BY <1>1, <1>2, <1>3, <1>4, <1>5, <1>6, <1>7, <1>8, <1>9, <1>10, <1>11, <1>12, <1>13,
     <1>14, <1>15, <1>16, <1>17 DEF Next, KillPid, KillGroup

\* No thread on the ring carries the channel of a wait it has left, however
\* timeouts, wakeups and signals ended that wait.
THEOREM NoStaleChanAlways == Spec => []NoStaleChan
<1>1. Init => NoStaleChan
  <2>1. ASSUME Init PROVE NoStaleChan
    <3>1. InRing \subseteq Thread
      BY <2>1, SafeInit, StepFacts
    <3> QED
      BY <2>1, <3>1 DEF Init, NoStaleChan
  <2> QED
    BY <2>1
<1>2. SafeInv /\ NoStaleChan /\ [Next]_vars => NoStaleChan'
  BY ChanStep
<1> QED
  BY <1>1, <1>2, SafetyInvariant, PTL DEF Spec

=============================================================================
