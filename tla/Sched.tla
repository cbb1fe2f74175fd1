------------------------------- MODULE Sched -------------------------------
(***************************************************************************)
(* Threads, the priority round-robin scheduler, fork / exit / wait, the    *)
(* sleep and wakeup primitive and signals: src/sched.c, src/signal.c and   *)
(* the parts of exceptions.c and syscall.c that drive them.                *)
(*                                                                         *)
(* One CPU.  Exceptions mask interrupts, so a system call is atomic up to  *)
(* the next call of schedule(); an interrupt is taken only from EL0 or     *)
(* from the idle loop.  pc[t] says where thread t is: at EL0 ("user"),     *)
(* inside a system call with the CPU ("kernel"), suspended inside          *)
(* sched_wait / sched_block / sleep_ticks ("wait" / "block" / "sleep"),    *)
(* or about to run signals_deliver on its way back to EL0 ("ret").  The    *)
(* boot thread is at "boot" until kmain enables interrupts, then "idle".   *)
(***************************************************************************)
EXTENDS Integers, Sequences, SequencesExt

CONSTANTS
    Slots,       \* addresses at which kmalloc may place a struct thread
    Boot,        \* the statically allocated boot/idle thread
    NoThread,    \* the NULL thread pointer
    Chans,       \* wait channels
    NoChan,      \* the NULL channel
    Sigs,        \* signal numbers in use
    Prios,       \* priorities proc_spawn is called with
    PgidArgs,    \* group ids passed to setpgid and TIOCSPGRP (0 included)
    SleepTicks,  \* arguments of sleep_ticks / sched_wait_event
    SLICE,       \* SCHED_TIME_SLICE
    MaxId        \* bound on next_id

SIGKILL == 9
SIGINT == 2
IdlePrio == -1

Thread == Slots \cup {Boot}
SchedStates == {"RUNNABLE", "RUNNING", "SLEEPING", "BLOCKED", "EXITED", "ZOMBIE"}
Places == {"boot", "idle", "user", "kernel", "ret", "wait", "block", "sleep"}

ASSUME ConstAssumption ==
    /\ Boot \notin Slots /\ NoThread \notin Thread /\ NoChan \notin Chans
    /\ Sigs \subseteq 1..31
    /\ Prios \subseteq Nat
    /\ PgidArgs \subseteq Nat
    /\ SleepTicks \subseteq Nat
    /\ SLICE \in Nat \ {0}
    /\ MaxId \in Nat

VARIABLES
    current,     \* the running thread
    queue,       \* the rest of the ring, in ring order after current
    state, id, pgid, prio, parent, chan, pend, \* fields of struct thread
    wakeIn,      \* wake_tick - jiffies, 0 once the deadline has passed
    caught,      \* signals with a non-NULL sig_handler
    pc,          \* where the thread's kernel stack is suspended
    nextId, foreground, fgPgrp, slice

idVars   == <<id, prio, parent, nextId>>
sigVars  == <<pend, caught>>
jobVars  == <<pgid, foreground, fgPgrp>>
vars == <<current, queue, state, chan, wakeIn, pc, slice, idVars, sigVars, jobVars>>

\* The ring as a scan that starts at current->next sees it: current comes last.
Ring == Append(queue, current)
InRing == Range(Ring)

----------------------------------------------------------------------------
(* Scheduling.                                                             *)

\* Mutant: the priority comparison is lost, the first ready thread runs.
ChosenFirst(st, i) ==
    /\ st[Ring[i]] = "RUNNABLE"
    /\ \A j \in 1..Len(Ring) : st[Ring[j]] = "RUNNABLE" => i <= j

\* Mutant: ">=" for ">" keeps the last ready thread among equals.
ChosenLast(st, i) ==
    /\ st[Ring[i]] = "RUNNABLE"
    /\ \A j \in 1..Len(Ring) : st[Ring[j]] = "RUNNABLE" =>
          \/ prio[Ring[j]] < prio[Ring[i]]
          \/ prio[Ring[j]] = prio[Ring[i]] /\ i >= j

\* schedule()'s choice: the highest priority, and among equals the first
\* one met after current.
Chosen(st, i) ==
    /\ st[Ring[i]] = "RUNNABLE"
    /\ \A j \in 1..Len(Ring) : st[Ring[j]] = "RUNNABLE" =>
          \/ prio[Ring[j]] < prio[Ring[i]]
          \/ prio[Ring[j]] = prio[Ring[i]] /\ i <= j

\* schedule() entered with thread states st and sl ticks left in the slice.
Schedule(st, sl) ==
    LET ready == [t \in Thread |->
                    IF t = current /\ st[t] = "RUNNING" THEN "RUNNABLE" ELSE st[t]]
    IN \E i \in 1..Len(Ring) :
         /\ Chosen(ready, i)
         /\ state' = [ready EXCEPT ![Ring[i]] = "RUNNING"]
         /\ current' = Ring[i]
         /\ queue' = SubSeq(Ring, i + 1, Len(Ring)) \o SubSeq(Ring, 1, i - 1)
         /\ slice' = IF Ring[i] = current THEN sl ELSE SLICE

\* The current thread keeps the CPU.
NoSwitch == UNCHANGED <<current, queue, slice>>

\* The CPU runs kernel code or EL0 code of thread t.
AtUser(t) == t = current /\ pc[t] = "user"
InCall(t) == t = current /\ pc[t] \in {"user", "kernel"}
IrqsOn == pc[current] \in {"user", "idle"}

\* Threads sched_wake would make runnable for a channel in cs.
Waiting(cs) == {t \in InRing : state[t] \in {"BLOCKED", "SLEEPING"} /\ chan[t] \in cs}
Ready(st, ts) == [t \in Thread |-> IF t \in ts THEN "RUNNABLE" ELSE st[t]]
Unchan(ts) == [t \in Thread |-> IF t \in ts THEN NoChan ELSE chan[t]]

\* Mutant: signal_send makes its target runnable whatever its state.
ParkedAll(ts) == ts

\* signal_send to every thread of ts: post the bit, unblock a parked thread.
Parked(ts) == {t \in ts : state[t] \in {"SLEEPING", "BLOCKED"}}
SignalSend(ts, sig) ==
    /\ pend' = [t \in Thread |-> IF t \in ts THEN pend[t] \cup {sig} ELSE pend[t]]
    /\ state' = Ready(state, Parked(ts))
    /\ chan' = Unchan(Parked(ts))
    /\ UNCHANGED caught

----------------------------------------------------------------------------
Init ==
    /\ current = Boot
    /\ queue = <<>>
    /\ state = [t \in Thread |-> IF t = Boot THEN "RUNNING" ELSE "EXITED"]
    /\ id = [t \in Thread |-> 0]
    /\ pgid = [t \in Thread |-> 0]
    /\ prio = [t \in Thread |-> IdlePrio]
    /\ parent = [t \in Thread |-> NoThread]
    /\ chan = [t \in Thread |-> NoChan]
    /\ wakeIn = [t \in Thread |-> 0]
    /\ pend = [t \in Thread |-> {}]
    /\ caught = [t \in Thread |-> {}]
    /\ pc = [t \in Thread |-> IF t = Boot THEN "boot" ELSE "user"]
    /\ nextId = 1
    /\ foreground = NoThread
    /\ fgPgrp = 0
    /\ slice = SLICE

\* A fresh struct thread at address t, linked in just before current.
NewThread(t, group, priority) ==
    /\ t \in Slots \ InRing
    /\ nextId <= MaxId
    /\ queue' = Append(queue, t)
    /\ state' = [state EXCEPT ![t] = "RUNNABLE"]
    /\ id' = [id EXCEPT ![t] = nextId]
    /\ nextId' = nextId + 1
    /\ pgid' = [pgid EXCEPT ![t] = group]
    /\ prio' = [prio EXCEPT ![t] = priority]
    /\ parent' = [parent EXCEPT ![t] = current]
    /\ chan' = [chan EXCEPT ![t] = NoChan]
    /\ wakeIn' = [wakeIn EXCEPT ![t] = 0]
    /\ pend' = [pend EXCEPT ![t] = {}]
    /\ caught' = [caught EXCEPT ![t] = {}]
    /\ UNCHANGED <<current, slice, foreground, fgPgrp>>

\* proc_spawn from kmain, before interrupts are enabled.
Spawn(t, p) ==
    /\ pc[current] = "boot"
    /\ NewThread(t, nextId, p)
    /\ pc' = [pc EXCEPT ![t] = "user"]

EnableIrqs ==
    /\ pc[current] = "boot"
    /\ pc' = [pc EXCEPT ![current] = "idle"]
    /\ NoSwitch /\ UNCHANGED <<state, chan, wakeIn, idVars, sigVars, jobVars>>

\* sched_fork: the child resumes at EL0 through fork_ret.
Fork(t) ==
    /\ AtUser(current)
    /\ NewThread(t, pgid[current], prio[current])
    /\ pc' = [pc EXCEPT ![t] = "user", ![current] = "ret"]

\* Mutant: the exiting thread does not look after a waiting parent.
ThreadExitNoWake(cs) ==
    /\ chan' = Unchan(Waiting(cs))
    /\ Schedule([Ready(state, Waiting(cs)) EXCEPT ![current] = "ZOMBIE"], slice)

\* thread_exit.  cs are the channels that closing the descriptors and giving
\* up the display seat wake; parent is read even when it points at a thread
\* that has been reaped.  One step: that closing a TCP socket may sleep in
\* net_wait for up to three seconds (socket.c:63, tcp_close), with some of the
\* descriptors closed and the others not, is left out.
ThreadExit(cs) ==
    LET woken  == Waiting(cs)
        st     == [Ready(state, woken) EXCEPT ![current] = "ZOMBIE"]
        p      == parent[current]
        waiter == IF p # NoThread /\ st[p] = "SLEEPING" THEN {p} ELSE {}
    IN /\ chan' = Unchan(woken)
       /\ Schedule(Ready(st, waiter), slice)

Exit(cs) ==
    /\ AtUser(current)
    /\ ThreadExit(cs)
    /\ UNCHANGED <<wakeIn, pc, idVars, sigVars, jobVars>>

----------------------------------------------------------------------------
(* sched_wait: one action for each way through the body of its loop.       *)

Child(t) == parent[t] = current
\* Mutant: the scan looks for the old tombstone state.
ExitedChild(t) == Child(t) /\ state[t] = "EXITED"

ZombieChild(t) == Child(t) /\ state[t] = "ZOMBIE"
WaitLoop == pc[current] \in {"user", "wait"}

\* Mutant: the reaper unlinks the predecessor it remembered too early.
WaitReapOffByOne ==
    /\ WaitLoop
    /\ \E k \in 1..Len(queue) :
         /\ ZombieChild(queue[k])
         /\ \A j \in 1..(k - 1) : ~ZombieChild(queue[j])
         /\ queue' = RemoveAt(queue, IF k > 1 THEN k - 1 ELSE k)
         /\ foreground' = IF foreground = queue[k] THEN NoThread ELSE foreground
    /\ pc' = [pc EXCEPT ![current] = "ret"]
    /\ UNCHANGED <<current, slice, state, chan, wakeIn, idVars, sigVars, pgid, fgPgrp>>

\* Mutant: reaping leaves the foreground pointer alone.
WaitReapKeepFg ==
    /\ WaitLoop
    /\ \E k \in 1..Len(queue) :
         /\ ZombieChild(queue[k])
         /\ \A j \in 1..(k - 1) : ~ZombieChild(queue[j])
         /\ queue' = RemoveAt(queue, k)
    /\ pc' = [pc EXCEPT ![current] = "ret"]
    /\ UNCHANGED <<current, slice, state, chan, wakeIn, idVars, sigVars, jobVars>>

\* The first zombie child met on the ring is unlinked and its memory freed;
\* the freed struct keeps its contents until the address is used again.
WaitReap ==
    /\ WaitLoop
    /\ \E k \in 1..Len(queue) :
         /\ ZombieChild(queue[k])
         /\ \A j \in 1..(k - 1) : ~ZombieChild(queue[j])
         /\ queue' = RemoveAt(queue, k)
         /\ foreground' = IF foreground = queue[k] THEN NoThread ELSE foreground
    /\ pc' = [pc EXCEPT ![current] = "ret"]
    /\ UNCHANGED <<current, slice, state, chan, wakeIn, idVars, sigVars, pgid, fgPgrp>>

WaitNone ==
    /\ WaitLoop
    /\ \A t \in InRing : ~Child(t)
    /\ pc' = [pc EXCEPT ![current] = "ret"]
    /\ NoSwitch /\ UNCHANGED <<state, chan, wakeIn, idVars, sigVars, jobVars>>

\* No zombie yet: the last child of the scan becomes the Ctrl-C target and
\* the caller sleeps, with whatever wake_tick an earlier sleep left behind.
WaitSleep ==
    /\ WaitLoop
    /\ \A t \in InRing : ~ZombieChild(t)
    /\ \E k \in 1..Len(queue) :
         /\ Child(queue[k])
         /\ \A j \in (k + 1)..Len(queue) : ~Child(queue[j])
         /\ foreground' = queue[k]
    /\ pc' = [pc EXCEPT ![current] = "wait"]
    /\ Schedule([state EXCEPT ![current] = "SLEEPING"], slice)
    /\ UNCHANGED <<chan, wakeIn, idVars, sigVars, pgid, fgPgrp>>

----------------------------------------------------------------------------
(* Sleep and wakeup.                                                       *)

Yield ==
    /\ AtUser(current)
    /\ pc' = [pc EXCEPT ![current] = "ret"]
    /\ Schedule(state, slice)
    /\ UNCHANGED <<chan, wakeIn, idVars, sigVars, jobVars>>

\* sleep_ticks(n), the whole of SYS_SLEEP and SYS_NANOSLEEP.
Sleep(n) ==
    /\ AtUser(current)
    /\ wakeIn' = [wakeIn EXCEPT ![current] = n]
    /\ pc' = [pc EXCEPT ![current] = "sleep"]
    /\ Schedule([state EXCEPT ![current] = "SLEEPING"], slice)
    /\ UNCHANGED <<chan, idVars, sigVars, jobVars>>

\* sched_block(c), from a system call that found its condition false.
Block(c) ==
    /\ InCall(current)
    /\ chan' = [chan EXCEPT ![current] = c]
    /\ pc' = [pc EXCEPT ![current] = "block"]
    /\ Schedule([state EXCEPT ![current] = "BLOCKED"], slice)
    /\ UNCHANGED <<wakeIn, idVars, sigVars, jobVars>>

\* sched_wait_event(c, n).
WaitEvent(c, n) ==
    /\ InCall(current)
    /\ chan' = [chan EXCEPT ![current] = c]
    /\ wakeIn' = [wakeIn EXCEPT ![current] = n]
    /\ pc' = [pc EXCEPT ![current] = "block"]
    /\ Schedule([state EXCEPT ![current] = "SLEEPING"], slice)
    /\ UNCHANGED <<idVars, sigVars, jobVars>>

\* Mutant: sched_block does not clear wait_chan when it returns.
ResumeKeepChan ==
    /\ pc[current] = "block"
    /\ pc' = [pc EXCEPT ![current] = "kernel"]
    /\ NoSwitch /\ UNCHANGED <<chan, state, wakeIn, idVars, sigVars, jobVars>>

\* The tail of sched_block / sched_wait_event once the thread runs again: the
\* caller re-checks its condition in the same system call.
Resume ==
    /\ pc[current] = "block"
    /\ chan' = [chan EXCEPT ![current] = NoChan]
    /\ pc' = [pc EXCEPT ![current] = "kernel"]
    /\ NoSwitch /\ UNCHANGED <<state, wakeIn, idVars, sigVars, jobVars>>

\* sched_wake(c) from a system call, which goes on afterwards.
Wake(c) ==
    /\ InCall(current)
    /\ state' = Ready(state, Waiting({c}))
    /\ chan' = Unchan(Waiting({c}))
    /\ pc' = [pc EXCEPT ![current] = "kernel"]
    /\ NoSwitch /\ UNCHANGED <<wakeIn, idVars, sigVars, jobVars>>

\* The system call is done.
Return ==
    /\ pc[current] = "kernel"
    /\ pc' = [pc EXCEPT ![current] = "ret"]
    /\ NoSwitch /\ UNCHANGED <<state, chan, wakeIn, idVars, sigVars, jobVars>>

----------------------------------------------------------------------------
(* Signals and process groups.                                             *)

\* sched_kill(n, sig), n >= 0: the first thread with that pid, zombies
\* included; with no such thread the call only returns -1.
KillTargets(n) == {t \in InRing : id[t] = n}
\* sched_kill(-g, sig): the members of group g that have not exited.
GroupTargets(g) == {t \in InRing : pgid[t] = g /\ state[t] \notin {"EXITED", "ZOMBIE"}}

Kill(ts, sig) ==
    /\ AtUser(current)
    /\ SignalSend(ts, sig)
    /\ pc' = [pc EXCEPT ![current] = "ret"]
    /\ NoSwitch /\ UNCHANGED <<wakeIn, idVars, jobVars>>

KillPid(n, sig) == Kill(KillTargets(n), sig)
KillGroup(g, sig) == g > 0 /\ Kill(GroupTargets(g), sig)

\* sched_setpgid(n, g) and, with n = g = 0, SYS_SETSID.
SetPgid(n, g) ==
    LET target == IF n = 0 THEN {current} ELSE KillTargets(n)
    IN /\ AtUser(current)
       /\ pgid' = [t \in Thread |-> IF t \notin target THEN pgid[t]
                                    ELSE IF g = 0 THEN id[t] ELSE g]
       /\ pc' = [pc EXCEPT ![current] = "ret"]
       /\ NoSwitch
       /\ UNCHANGED <<state, chan, wakeIn, idVars, sigVars, foreground, fgPgrp>>

\* ioctl(TIOCSPGRP) on the console.
TtySetFgPgrp(g) ==
    /\ AtUser(current)
    /\ fgPgrp' = g
    /\ pc' = [pc EXCEPT ![current] = "ret"]
    /\ NoSwitch /\ UNCHANGED <<state, chan, wakeIn, idVars, sigVars, pgid, foreground>>

\* SYS_SIGNAL / SYS_RT_SIGACTION: install a handler or go back to the default.
Signal(sig, handled) ==
    /\ AtUser(current)
    /\ caught' = [caught EXCEPT ![current] = IF handled THEN @ \cup {sig} ELSE @ \ {sig}]
    /\ pc' = [pc EXCEPT ![current] = "ret"]
    /\ NoSwitch /\ UNCHANGED <<state, chan, wakeIn, idVars, pend, jobVars>>

\* signals_deliver on the way back to EL0: the lowest pending signal runs its
\* handler or ends the thread.
Returning == pc[current] \in {"ret", "sleep"}
Lowest(sig) == sig \in pend[current] /\ \A s \in pend[current] : sig <= s
\* Mutant: signal_action lets SIGKILL be caught.
HandledAny(sig) == sig \in caught[current]

Handled(sig) == sig # SIGKILL /\ sig \in caught[current]

DeliverNone ==
    /\ Returning
    /\ pend[current] = {}
    /\ pc' = [pc EXCEPT ![current] = "user"]
    /\ NoSwitch /\ UNCHANGED <<state, chan, wakeIn, idVars, sigVars, jobVars>>

DeliverHandler ==
    /\ Returning
    /\ \E sig \in Sigs :
         /\ Lowest(sig) /\ Handled(sig)
         /\ pend' = [pend EXCEPT ![current] = @ \ {sig}]
    /\ pc' = [pc EXCEPT ![current] = "user"]
    /\ NoSwitch /\ UNCHANGED <<state, chan, wakeIn, caught, idVars, jobVars>>

DeliverDefault(cs) ==
    /\ Returning
    /\ \E sig \in Sigs :
         /\ Lowest(sig) /\ ~Handled(sig)
         /\ pend' = [pend EXCEPT ![current] = @ \ {sig}]
    /\ ThreadExit(cs)
    /\ UNCHANGED <<wakeIn, pc, caught, idVars, jobVars>>

----------------------------------------------------------------------------
(* Interrupts.  An interrupt taken from EL0 ends in signals_deliver.       *)

AfterIrq == pc' = [pc EXCEPT ![current] = IF @ = "user" THEN "ret" ELSE @]

\* The timer interrupt: sched_tick, then schedule() when a sleeper of higher
\* priority woke or the slice is used up.
\* Mutant: the tick does not advance the sleep clock.
ElapsedNone(t) == wakeIn[t]

Elapsed(t) == IF wakeIn[t] > 0 THEN wakeIn[t] - 1 ELSE 0
Expired == {t \in InRing : state[t] = "SLEEPING" /\ Elapsed(t) = 0}
\* Mutant: "slice_left--" tests the slice before it is decremented.
ReschedLate == slice = 0 \/ \E t \in Expired : prio[t] > prio[current]

Resched == slice = 1 \/ \E t \in Expired : prio[t] > prio[current]

Tick ==
    /\ IrqsOn
    /\ wakeIn' = [t \in Thread |-> Elapsed(t)]
    /\ \/ /\ Resched
          /\ Schedule(Ready(state, Expired), SLICE)
       \/ /\ ~Resched
          /\ state' = Ready(state, Expired)
          /\ slice' = slice - 1
          /\ UNCHANGED <<current, queue>>
    /\ AfterIrq
    /\ UNCHANGED <<chan, idVars, sigVars, jobVars>>

\* A device interrupt whose handler only wakes a channel.
DeviceIrq(c) ==
    /\ IrqsOn
    /\ state' = Ready(state, Waiting({c}))
    /\ chan' = Unchan(Waiting({c}))
    /\ AfterIrq
    /\ NoSwitch /\ UNCHANGED <<wakeIn, idVars, sigVars, jobVars>>

\* Ctrl-C on the console: tty_intr.
IntrTargets ==
    IF fgPgrp > 0 /\ GroupTargets(fgPgrp) # {} THEN GroupTargets(fgPgrp)
    ELSE {foreground} \ {NoThread}

CtrlC ==
    /\ IrqsOn
    /\ SIGINT \in Sigs
    /\ SignalSend(IntrTargets, SIGINT)
    /\ AfterIrq
    /\ NoSwitch /\ UNCHANGED <<wakeIn, idVars, jobVars>>

----------------------------------------------------------------------------
Next ==
    \/ \E t \in Slots : Fork(t) \/ \E p \in Prios : Spawn(t, p)
    \/ EnableIrqs
    \/ \E cs \in SUBSET Chans : Exit(cs) \/ DeliverDefault(cs)
    \/ WaitReap \/ WaitNone \/ WaitSleep
    \/ Yield \/ Resume \/ Return
    \/ \E n \in SleepTicks : Sleep(n) \/ \E c \in Chans : WaitEvent(c, n)
    \/ \E c \in Chans : Block(c) \/ Wake(c) \/ DeviceIrq(c)
    \/ \E sig \in Sigs : \E n \in 0..MaxId : KillPid(n, sig) \/ KillGroup(n, sig)
    \/ \E n \in 0..MaxId, g \in PgidArgs : SetPgid(n, g)
    \/ \E g \in PgidArgs : TtySetFgPgrp(g)
    \/ \E sig \in Sigs, h \in BOOLEAN : Signal(sig, h)
    \/ DeliverNone \/ DeliverHandler
    \/ Tick \/ CtrlC

Spec == Init /\ [][Next]_vars

\* The timer interrupt stays pending while masked and is taken at the next
\* return to EL0 or to the idle loop; kernel code runs on to its end.
KernelStep ==
    \/ WaitReap /\ pc[current] = "wait"
    \/ WaitSleep /\ pc[current] = "wait"
    \/ WaitNone /\ pc[current] = "wait"
    \/ Resume \/ Return \/ EnableIrqs
    \/ DeliverNone \/ DeliverHandler \/ \E cs \in SUBSET Chans : DeliverDefault(cs)

FairSpec == Spec /\ SF_vars(Tick) /\ WF_vars(KernelStep)
----------------------------------------------------------------------------
(* Properties.                                                             *)

\* Every variable keeps its type; the slice has 1..SLICE ticks left.
TypeOK ==
    /\ current \in Thread
    /\ queue \in Seq(Thread)
    /\ state \in [Thread -> SchedStates]
    /\ id \in [Thread -> Nat]
    /\ pgid \in [Thread -> Nat]
    /\ prio \in [Thread -> Nat \cup {IdlePrio}]
    /\ parent \in [Thread -> Thread \cup {NoThread}]
    /\ chan \in [Thread -> Chans \cup {NoChan}]
    /\ wakeIn \in [Thread -> Nat]
    /\ pend \in [Thread -> SUBSET Sigs]
    /\ caught \in [Thread -> SUBSET Sigs]
    /\ pc \in [Thread -> Places]
    /\ nextId \in Nat
    /\ foreground \in Thread \cup {NoThread}
    /\ fgPgrp \in Nat
    /\ slice \in 1..SLICE

\* Whatever wakes, signals or exits interleave, the thread on the CPU is the
\* only one marked RUNNING (schedule, sched.c:401): no wakeup, kill or parent
\* wake in thread_exit ever flips the state of the thread that runs.
OneRunning == \A t \in Thread : state[t] = "RUNNING" <=> t = current

\* The idle thread can always be dispatched, so schedule() never falls into
\* its "nothing runnable" return (sched.c:425) with a parked current.
IdleReady == Boot \in InRing /\ state[Boot] \in {"RUNNABLE", "RUNNING"}

\* A thread asleep in sched_wait has no zombie child: neither the race of the
\* scan with thread_exit nor the adoption of orphans through a reused address
\* leaves a parent asleep over a child it could reap (sched.c:479, 521).
NoLostExit ==
    \A t, c \in InRing :
        pc[t] = "wait" /\ state[t] = "SLEEPING" /\ parent[c] = t => state[c] # "ZOMBIE"

\* The Ctrl-C target is a thread still on the ring: reaping never leaves
\* foreground pointing at freed memory (sched.c:512).
ForegroundAlive == foreground # NoThread => foreground \in InRing

\* Only a thread inside sched_block / sched_wait_event carries a wait channel,
\* also after a timeout, which does not clear it (sched_tick): a later sleep or
\* wait of the same thread cannot be ended by a stale channel's wakeup.
NoStaleChan == \A t \in InRing : chan[t] # NoChan => pc[t] = "block"

\* Whenever the CPU changes hands or a new slice starts, no ready thread has
\* a higher priority than the one that runs.
PriorityRespected ==
    [][slice' > slice \/ current' # current =>
          \A t \in InRing' : state'[t] = "RUNNABLE" => prio'[t] <= prio'[current']]_vars

\* A zombie stays a zombie on the ring, whatever is signalled or woken, until
\* the thread its parent pointer names reaps it; nothing else leaves the ring.
ZombieUntilReaped ==
    [][\A t \in InRing :
          /\ state[t] = "ZOMBIE" => state'[t] = "ZOMBIE"
          /\ t \notin InRing' => state[t] = "ZOMBIE" /\ parent[t] = current]_vars

\* Round robin: with threads of one priority every ready thread gets the CPU.
NoStarvation == \A t \in Slots : state[t] = "RUNNABLE" ~> state[t] # "RUNNABLE"

\* A timed sleep ends: the thread comes back to EL0, or a signal ended it.
Dead(t) == t \notin InRing \/ state[t] = "ZOMBIE"
SleepEnds == \A t \in Slots : pc[t] = "sleep" ~> pc[t] # "sleep" \/ Dead(t)

\* A child that exits while its parent is in sched_wait is reaped.
WaitReaps ==
    \A p, c \in Slots :
        (pc[p] = "wait" /\ parent[c] = p /\ state[c] = "ZOMBIE" /\ c \in InRing)
            ~> ~(parent[c] = p /\ state[c] = "ZOMBIE" /\ c \in InRing)

\* A posted SIGKILL ends the thread, unless it is parked in one of the two
\* loops that sleep again without looking at sig_pending.
KillLands ==
    \A t \in Slots : SIGKILL \in pend[t] ~> Dead(t) \/ pc[t] \in {"wait", "block"}

(* What a comment says and the code does not do.                           *)

\* signal.c:15 "Unblock a sleeping/blocked thread so the signal can be
\* delivered (EINTR)": a posted SIGKILL ends the thread wherever it sleeps.
KillAlwaysLands == \A t \in Slots : SIGKILL \in pend[t] ~> Dead(t)

\* sched.c:335 "Block the current thread for `ticks` timer ticks, then become
\* runnable again": without a signal a sleep is over only at its deadline.
SleepNotCutShort ==
    \A t \in InRing : pc[t] = "sleep" /\ state[t] \in {"RUNNABLE", "RUNNING"}
                          => wakeIn[t] = 0 \/ pend[t] # {}

\* sched.c:492 "return its pid (or -1 if the caller has no children)": the
\* thread a wait reaps was created by the caller, so it is younger.
ReapsOwnChild == [][\A t \in InRing : t \notin InRing' => id[t] > id[current]]_vars
=============================================================================
