----------------------------- MODULE PipeProofs -----------------------------
(***************************************************************************)
(* Proofs about Pipe for any number of processes, pipes and descriptors,   *)
(* any capacity and any reads and writes.                                  *)
(***************************************************************************)
EXTENDS Pipe, Counting, SequenceTheorems

----------------------------------------------------------------------------
(* Files, free slots and remainders.                                       *)

\* The two ends are different files, and every file is an end of its pipe.
LEMMA Files ==
    /\ \A f \in File : f[1] \in Pipes /\ (f = ReadEnd(f[1]) \/ f = WriteEnd(f[1]))
    /\ \A p \in Pipes : /\ ReadEnd(p) \in File /\ ReadEnd(p)[1] = p
                        /\ WriteEnd(p) \in File /\ WriteEnd(p)[1] = p
    /\ \A p, q \in Pipes : ReadEnd(p) # WriteEnd(q)
    /\ NoFile \notin File /\ Console \notin File /\ NoFile # Console
<1>1. ASSUME NEW f \in File PROVE f[1] \in Pipes /\ (f = ReadEnd(f[1]) \/ f = WriteEnd(f[1]))
  <2>1. PICK p \in Pipes, b \in BOOLEAN : f = <<p, b>>
    BY DEF File
  <2>2. f[1] = p /\ (b = TRUE \/ b = FALSE)
    BY <2>1
  <2> QED
    BY <2>1, <2>2 DEF ReadEnd, WriteEnd
<1>2. ASSUME NEW p \in Pipes
      PROVE  /\ ReadEnd(p) \in File /\ ReadEnd(p)[1] = p
             /\ WriteEnd(p) \in File /\ WriteEnd(p)[1] = p
  BY DEF File, ReadEnd, WriteEnd
<1>3. \A p, q \in Pipes : ReadEnd(p) # WriteEnd(q)
  BY DEF ReadEnd, WriteEnd
<1> QED
  BY <1>1, <1>2, <1>3, FileAssumption

\* Tables and process sets are finite, and a pipe holds at least a byte.
LEMMA Constants ==
    /\ IsFiniteSet(Procs) /\ IsFiniteSet(Fds) /\ Fds \subseteq Nat
    /\ PIPE_SIZE \in Nat \ {0}
<1>1. IsFiniteSet(0..15)
  <2>1. 0 \in Int /\ 15 \in Int
    OBVIOUS
  <2> QED
    BY <2>1, FS_Interval
<1>2. Fds \in SUBSET (0..15)
  BY ConstAssumption
<1>3. IsFiniteSet(Fds)
  BY <1>1, <1>2, FS_Subset
<1> QED
  BY <1>2, <1>3, ConstAssumption

\* The lowest free descriptor is a free descriptor.
LEMMA LowestFree ==
    ASSUME NEW T \in SUBSET Fds, T # {}
    PROVE  Min(T) \in T
<1>1. \E m \in T : \A n \in T : m <= n
  BY Constants, LeastNatural
<1> QED
  BY <1>1 DEF Min

\* Where an index of the ring ends up.
LEMMA InRing ==
    ASSUME NEW i \in Int
    PROVE  i % PIPE_SIZE \in 0..(PIPE_SIZE - 1)
  BY Constants

\* An index that runs over the end of the ring starts again at its front,
\* and the distance between two indices is taken the same way.
LEMMA Wrap ==
    ASSUME NEW i \in Nat, i < 2 * PIPE_SIZE
    PROVE  i % PIPE_SIZE = IF i < PIPE_SIZE THEN i ELSE i - PIPE_SIZE
<1>1. CASE i < PIPE_SIZE
  BY <1>1, Constants
<1>2. CASE ~(i < PIPE_SIZE)
  BY <1>2, Constants
<1> QED
  BY <1>1, <1>2

LEMMA WrapSum ==
    ASSUME NEW i \in 0..(PIPE_SIZE - 1), NEW a \in 0..PIPE_SIZE
    PROVE  (i + a) % PIPE_SIZE = IF i + a < PIPE_SIZE THEN i + a ELSE i + a - PIPE_SIZE
<1>1. i + a \in Nat /\ i + a < 2 * PIPE_SIZE
  BY Constants
<1> QED
  BY <1>1, Wrap, Constants

LEMMA TwoSteps ==
    ASSUME NEW i \in 0..(PIPE_SIZE - 1), NEW a \in Nat, NEW b \in Nat, a + b <= PIPE_SIZE
    PROVE  (((i + a) % PIPE_SIZE) + b) % PIPE_SIZE = (i + (a + b)) % PIPE_SIZE
<1> DEFINE j == (i + a) % PIPE_SIZE
<1>1. j = IF i + a < PIPE_SIZE THEN i + a ELSE i + a - PIPE_SIZE
  BY Wrap, Constants
<1>2. (i + (a + b)) % PIPE_SIZE
         = IF i + (a + b) < PIPE_SIZE THEN i + (a + b) ELSE i + (a + b) - PIPE_SIZE
  BY Wrap, Constants
<1> HIDE DEF j
<1>3. (j + b) % PIPE_SIZE = IF j + b < PIPE_SIZE THEN j + b ELSE j + b - PIPE_SIZE
  BY <1>1, Wrap, Constants
<1>4. (j + b) % PIPE_SIZE = (i + (a + b)) % PIPE_SIZE
  BY <1>1, <1>2, <1>3, Constants
<1> QED
  BY <1>4 DEF j

LEMMA Distance ==
    ASSUME NEW i \in 0..(PIPE_SIZE - 1), NEW j \in 0..(PIPE_SIZE - 1)
    PROVE  (i - j) % PIPE_SIZE = IF i >= j THEN i - j ELSE i - j + PIPE_SIZE
<1>1. CASE i >= j
  BY <1>1, Constants
<1>2. CASE ~(i >= j)
  BY <1>2, Constants
<1> QED
  BY <1>1, <1>2

----------------------------------------------------------------------------
(* The inductive invariant.                                                *)

\* A process inside a call has the arguments of a read or of a write that is
\* not finished.
CallTyped(c) ==
    /\ c.file \in File
    /\ \/ /\ c.op = "read"
          /\ c.len \in Nat \ {0}
       \/ /\ c.op = "write"
          /\ c.data \in Data
          /\ c.len = Len(c.data)
          /\ c.done \in Nat /\ c.done < Len(c.data)
CallsTyped == \A t \in Procs : pc[t] \in {"ready", "blocked"} => CallTyped(call[t])

\* What a call works on is named by a descriptor of its process: nobody else
\* changes the table while the process sleeps.
CallsNamed ==
    \A t \in Procs : pc[t] \in {"ready", "blocked"} => \E d \in Fds : fds[t][d] = call[t].file

\* A process slot that is not in use has no descriptors.
SlotsEmpty == \A t \in Procs : pc[t] = "none" => \A d \in Fds : fds[t][d] = NoFile

\* The write index follows the read index by as many bytes as are unread.
RingKept == \A p \in Pipes : w[p] = (r[p] + count[p]) % PIPE_SIZE

Tables == call = [t \in Procs |-> call[t]] /\ answer = [t \in Procs |-> answer[t]]

PipeInv ==
    /\ TypeOK /\ Tables /\ CallsTyped /\ CallsNamed /\ SlotsEmpty /\ RingKept
    /\ RefsAreDescriptors /\ EndsAreReachable /\ NoLostWakeup

\* The number of descriptors that name file f.
Named(f) == Cardinality(Holding(fds, Procs, Fds, f))

\* A file that some descriptor names has a reference, and its pipe is live.
LEMMA NamedIsLive ==
    ASSUME PipeInv, NEW t \in Procs, NEW d \in Fds, fds[t][d] \in File
    PROVE  ref[fds[t][d]] > 0 /\ fds[t][d][1] \in live
<1> DEFINE f == fds[t][d]
<1>1. f \in File /\ ref[f] = Named(f) /\ ref[f] \in Nat
  BY DEF PipeInv, RefsAreDescriptors, TypeOK, Named, Holding
<1>2. Named(f) # 0
  BY Constants, HoldingNone DEF Named
<1>3. ref[f] > 0
  BY <1>1, <1>2
<1>4. f[1] \in Pipes /\ (f = ReadEnd(f[1]) \/ f = WriteEnd(f[1]))
  BY <1>1, Files
<1>5. readers[f[1]] \in 0..1 /\ writers[f[1]] \in 0..1
  BY <1>4 DEF PipeInv, TypeOK
<1>6. readers[f[1]] > 0 \/ writers[f[1]] > 0
  BY <1>3, <1>4 DEF PipeInv, EndsAreReachable
<1>7. f[1] \in live
  BY <1>4, <1>5, <1>6 DEF PipeInv, EndsAreReachable
<1> QED
  BY <1>3, <1>7

\* What the runs check and the invariant implies.
LEMMA HoldsPipe == PipeInv => CallHoldsPipe
<1>1. SUFFICES ASSUME PipeInv, NEW t \in Procs, pc[t] \in {"ready", "blocked"}
               PROVE  call[t].file[1] \in live
  BY DEF CallHoldsPipe
<1>2. PICK d \in Fds : fds[t][d] = call[t].file
  BY <1>1 DEF PipeInv, CallsNamed
<1>3. call[t].file \in File
  BY <1>1 DEF PipeInv, CallsTyped, CallTyped
<1> QED
  BY <1>1, <1>2, <1>3, NamedIsLive

LEMMA InitInv == Init => PipeInv
<1>1. SUFFICES ASSUME Init PROVE PipeInv
  OBVIOUS
<1>2. TypeOK
  <2>1. (CHOOSE b \in Bytes : TRUE) \in Bytes
    BY ConstAssumption
  <2>2. 0 \in 0..(PIPE_SIZE - 1) /\ 0 \in 0..PIPE_SIZE
    BY Constants
  <2>3. pc \in [Procs -> {"none", "user", "ready", "blocked"}]
    BY <1>1 DEF Init
  <2> QED
    BY <1>1, <2>1, <2>2, <2>3 DEF Init, TypeOK
<1>3. RefsAreDescriptors
  <2>1. ASSUME NEW f \in File PROVE Cardinality(Holding(fds, Procs, Fds, f)) = 0
    BY <1>1, Constants, Files, HoldingNone DEF Init
  <2> QED
    BY <1>1, <2>1 DEF Init, RefsAreDescriptors, Holding
<1>4. EndsAreReachable
  BY <1>1, Files DEF Init, EndsAreReachable
<1>5. Tables /\ CallsTyped /\ CallsNamed /\ SlotsEmpty /\ NoLostWakeup
  BY <1>1 DEF Init, Tables, CallsTyped, CallsNamed, SlotsEmpty, NoLostWakeup
<1>6. RingKept
  <2>1. (0 + 0) % PIPE_SIZE = 0
    BY Wrap, Constants
  <2> QED
    BY <1>1, <2>1 DEF Init, RingKept
<1> QED
  BY <1>2, <1>3, <1>4, <1>5, <1>6 DEF PipeInv

----------------------------------------------------------------------------
(* Steps that change descriptors.                                          *)

PcStates == {"none", "user", "ready", "blocked"}

\* What vfs_close does to pipes whose files lose references, wherever the
\* processes are: the ends that can be reached are counted right, and who
\* sleeps on still has a reason to.
LEMMA CloseGood ==
    ASSUME PipeInv, NEW newRef \in [File -> Nat], NEW at \in [Procs -> PcStates],
           VfsClose(newRef, at), UNCHANGED <<ring, call>>,
           \A f \in File : newRef[f] > 0 => ref[f] > 0,
           \A u \in Procs : at[u] = "blocked" => pc[u] = "blocked"
    PROVE  /\ ref' = newRef /\ live' \subseteq Pipes
           /\ readers' \in [Pipes -> 0..1] /\ writers' \in [Pipes -> 0..1]
           /\ EndsAreReachable' /\ NoLostWakeup'
           /\ pc' \in [Procs -> PcStates]
           /\ \A u \in Procs : /\ pc'[u] \in {"none", "user"} <=> at[u] \in {"none", "user"}
                               /\ pc'[u] = "none" <=> at[u] = "none"
<1> DEFINE gone == {f \in File : ref[f] > 0 /\ newRef[f] <= 0}
           rd == [p \in Pipes |-> IF ReadEnd(p) \in gone THEN readers[p] - 1 ELSE readers[p]]
           wr == [p \in Pipes |-> IF WriteEnd(p) \in gone THEN writers[p] - 1 ELSE writers[p]]
           freed == {f[1] : f \in {g \in gone : rd[g[1]] = 0 /\ wr[g[1]] = 0}}
           woken == {f[1] : f \in gone}
<1>1. /\ ref' = newRef /\ readers' = rd /\ writers' = wr
      /\ live' = live \ freed /\ pc' = Woken(at, woken)
  BY DEF VfsClose
<1>2. ASSUME NEW p \in Pipes
      PROVE  /\ rd[p] \in 0..1 /\ wr[p] \in 0..1
             /\ rd[p] > 0 <=> newRef[ReadEnd(p)] > 0
             /\ wr[p] > 0 <=> newRef[WriteEnd(p)] > 0
             /\ rd[p] = readers[p] \/ ReadEnd(p) \in gone
             /\ wr[p] = writers[p] \/ WriteEnd(p) \in gone
  <2>1. /\ ReadEnd(p) \in File /\ WriteEnd(p) \in File
        /\ readers[p] \in 0..1 /\ writers[p] \in 0..1
        /\ readers[p] > 0 <=> ref[ReadEnd(p)] > 0
        /\ writers[p] > 0 <=> ref[WriteEnd(p)] > 0
    BY Files DEF PipeInv, TypeOK, EndsAreReachable
  <2>2. /\ newRef[ReadEnd(p)] \in Nat /\ newRef[WriteEnd(p)] \in Nat
        /\ ref[ReadEnd(p)] \in Nat /\ ref[WriteEnd(p)] \in Nat
    BY <2>1 DEF PipeInv, TypeOK
  <2> QED
    BY <2>1, <2>2
<1>3. ASSUME NEW p \in Pipes PROVE p \in freed <=> (p \in live /\ rd[p] = 0 /\ wr[p] = 0)
  <2>1. p \in freed => rd[p] = 0 /\ wr[p] = 0 /\ (ReadEnd(p) \in gone \/ WriteEnd(p) \in gone)
    <3>1. SUFFICES ASSUME NEW f \in gone, f[1] = p, rd[f[1]] = 0, wr[f[1]] = 0
                   PROVE  ReadEnd(p) \in gone \/ WriteEnd(p) \in gone
      OBVIOUS
    <3> QED
      BY <3>1, Files
  <2>2. p \in live <=> readers[p] + writers[p] > 0
    BY DEF PipeInv, EndsAreReachable
  <2>3. readers[p] \in 0..1 /\ writers[p] \in 0..1
    BY DEF PipeInv, TypeOK
  <2>4. ReadEnd(p) \in gone => readers[p] > 0
    BY DEF PipeInv, EndsAreReachable
  <2>5. WriteEnd(p) \in gone => writers[p] > 0
    BY DEF PipeInv, EndsAreReachable
  <2>6. ASSUME p \in live, rd[p] = 0, wr[p] = 0 PROVE p \in freed
    <3>1. ReadEnd(p) \in gone \/ WriteEnd(p) \in gone
      <4> HIDE DEF rd, wr, gone
      <4> QED
        BY <2>6, <2>2, <2>3, <1>2
    <3>2. ReadEnd(p)[1] = p /\ WriteEnd(p)[1] = p
      BY Files
    <3> HIDE DEF rd, wr, gone
    <3> QED
      BY <3>1, <3>2, <2>6
  <2> HIDE DEF rd, wr, gone, freed
  <2> QED
    BY <2>1, <2>2, <2>3, <2>4, <2>5, <2>6
<1> HIDE DEF rd, wr, gone, freed, woken
<1>4. /\ live' \subseteq Pipes
      /\ readers' \in [Pipes -> 0..1] /\ writers' \in [Pipes -> 0..1]
  <2>1. live \subseteq Pipes
    BY DEF PipeInv, TypeOK
  <2>2. readers' = [p \in Pipes |-> rd[p]] /\ writers' = [p \in Pipes |-> wr[p]]
    BY <1>1 DEF rd, wr
  <2> QED
    BY <1>1, <1>2, <2>1, <2>2
<1>5. EndsAreReachable'
  <2>1. ASSUME NEW p \in Pipes PROVE p \in live' <=> rd[p] + wr[p] > 0
    <3>1. p \in live <=> readers[p] + writers[p] > 0
      BY DEF PipeInv, EndsAreReachable
    <3>2. p \notin live => readers[p] = 0 /\ writers[p] = 0
      BY <3>1 DEF PipeInv, TypeOK
    <3>3. (ReadEnd(p) \in gone => readers[p] > 0) /\ (WriteEnd(p) \in gone => writers[p] > 0)
      BY DEF gone, PipeInv, EndsAreReachable
    <3>4. p \in live' <=> p \in live /\ p \notin freed
      BY <1>1
    <3>5. rd[p] \in 0..1 /\ wr[p] \in 0..1
      BY <1>2
    <3> QED
      BY <1>2, <1>3, <3>2, <3>3, <3>4, <3>5
  <2> QED
    BY <1>1, <1>2, <2>1 DEF EndsAreReachable
<1>6. /\ pc' \in [Procs -> PcStates]
      /\ \A u \in Procs : /\ pc'[u] \in {"none", "user"} <=> at[u] \in {"none", "user"}
                          /\ pc'[u] = "none" <=> at[u] = "none"
                          /\ pc'[u] = "blocked" => at[u] = "blocked" /\ call[u].file[1] \notin woken
  BY <1>1 DEF Woken, PcStates
<1>7. NoLostWakeup'
  <2>1. SUFFICES ASSUME NEW u \in Procs, pc'[u] = "blocked"
                 PROVE  LET p == call[u].file[1]
                        IN \/ call[u].op = "read" /\ count[p] = 0 /\ writers'[p] > 0
                           \/ call[u].op = "write" /\ count[p] = PIPE_SIZE /\ readers'[p] > 0
    BY DEF NoLostWakeup, ring
  <2> DEFINE p == call[u].file[1]
  <2>2. pc[u] = "blocked" /\ p \notin woken
    BY <2>1, <1>6
  <2>3. call[u].file \in File /\ p \in Pipes
    BY <2>2, Files DEF PipeInv, CallsTyped, CallTyped
  <2>4. ReadEnd(p) \notin gone /\ WriteEnd(p) \notin gone
    BY <2>2, <2>3, Files DEF woken
  <2>5. readers'[p] = readers[p] /\ writers'[p] = writers[p]
    BY <1>1, <1>2, <2>3, <2>4
  <2>6. \/ call[u].op = "read" /\ count[p] = 0 /\ writers[p] > 0
        \/ call[u].op = "write" /\ count[p] = PIPE_SIZE /\ readers[p] > 0
    BY <2>2 DEF PipeInv, NoLostWakeup
  <2> QED
    BY <2>5, <2>6
<1> QED
  BY <1>1, <1>4, <1>5, <1>6, <1>7

\* What is left to show of a step that changes descriptors only.
LEMMA DescriptorStep ==
    ASSUME PipeInv, UNCHANGED <<ring, call>>,
           fds' \in [Procs -> [Fds -> File \cup {NoFile, Console}]],
           ref' \in [File -> Nat], live' \subseteq Pipes,
           readers' \in [Pipes -> 0..1], writers' \in [Pipes -> 0..1],
           pc' \in [Procs -> PcStates], killed' \in [Procs -> BOOLEAN],
           \A u \in Procs : pc'[u] \in {"none", "user"} <=> pc[u] \in {"none", "user"},
           \A u \in Procs : pc'[u] \in {"ready", "blocked"} => fds'[u] = fds[u],
           answer' = [u \in Procs |-> answer'[u]],
           SlotsEmpty', RefsAreDescriptors', EndsAreReachable', NoLostWakeup'
    PROVE  PipeInv'
<1>1. TypeOK'
  BY DEF PipeInv, TypeOK, ring, PcStates
<1>2. \A u \in Procs : pc'[u] \in {"ready", "blocked"} => pc[u] \in {"ready", "blocked"}
  BY DEF PipeInv, TypeOK, PcStates
<1>3. Tables' /\ CallsTyped' /\ CallsNamed' /\ RingKept'
  BY <1>2 DEF PipeInv, Tables, CallsTyped, CallTyped, CallsNamed, RingKept, ring
<1> QED
  BY <1>1, <1>3 DEF PipeInv

\* References that count descriptors are natural numbers.
LEMMA CountsAreRefs ==
    ASSUME NEW newRef, newRef = [f \in File |-> newRef[f]],
           \A f \in File : newRef[f] = Cardinality(Holding(fds', Procs, Fds, f))
    PROVE  newRef \in [File -> Nat]
<1>1. \A f \in File : newRef[f] \in Nat
  BY Constants, HoldingFinite
<1> QED
  BY <1>1

\* RefsAreDescriptors in the terms of the counting lemmas.
LEMMA RefsCount ==
    /\ RefsAreDescriptors <=> \A f \in File : ref[f] = Cardinality(Holding(fds, Procs, Fds, f))
    /\ RefsAreDescriptors' <=> \A f \in File : ref'[f] = Cardinality(Holding(fds', Procs, Fds, f))
  BY DEF RefsAreDescriptors, Holding

\* One descriptor changes: one file may lose a descriptor, one may gain it.
LEMMA OneSlot ==
    ASSUME RefsAreDescriptors, NEW t \in Procs, NEW d \in Fds,
           SameButSlot(fds, fds', Procs, Fds, t, d), NEW f \in File
    PROVE  /\ ref[f] \in Nat
           /\ Cardinality(Holding(fds', Procs, Fds, f)) = ref[f]
                - (IF fds[t][d] = f THEN 1 ELSE 0) + (IF fds'[t][d] = f THEN 1 ELSE 0)
<1>1. /\ Cardinality(Holding(fds, Procs, Fds, f)) \in Nat
      /\ Cardinality(Holding(fds', Procs, Fds, f)) = Cardinality(Holding(fds, Procs, Fds, f))
                - (IF fds[t][d] = f THEN 1 ELSE 0) + (IF fds'[t][d] = f THEN 1 ELSE 0)
  BY Constants, SlotChange
<1> QED
  BY <1>1, RefsCount

LEMMA CloseStep ==
    ASSUME PipeInv, NEW t \in Procs, NEW d \in Fds, Close(t, d)
    PROVE  PipeInv'
<1> DEFINE N == [f \in File |-> IF f = fds[t][d] THEN ref[f] - 1 ELSE ref[f]]
<1>1. /\ fds \in [Procs -> [Fds -> File \cup {NoFile, Console}]] /\ pc \in [Procs -> PcStates]
      /\ fds' = [fds EXCEPT ![t][d] = NoFile] /\ VfsClose(N, pc)
      /\ UNCHANGED <<ring, call, killed>> /\ pc[t] = "user"
  BY DEF Close, PipeInv, TypeOK, AtUser, PcStates
<1>2. ASSUME NEW f \in File PROVE N[f] = Cardinality(Holding(fds', Procs, Fds, f))
  <2>1. fds'[t][d] = NoFile /\ NoFile # f
    BY <1>1, Files
  <2>2. SameButSlot(fds, fds', Procs, Fds, t, d)
    BY <1>1 DEF SameButSlot
  <2>3. /\ ref[f] \in Nat
        /\ Cardinality(Holding(fds', Procs, Fds, f)) = ref[f]
             - (IF fds[t][d] = f THEN 1 ELSE 0) + (IF fds'[t][d] = f THEN 1 ELSE 0)
    BY <2>2, OneSlot DEF PipeInv
  <2> QED
    BY <2>1, <2>3
<1>3. N \in [File -> Nat]
  <2> HIDE DEF N
  <2>1. N = [f \in File |-> N[f]]
    BY DEF N
  <2> QED
    BY <1>2, <2>1, CountsAreRefs
<1>4. \A f \in File : N[f] > 0 => ref[f] > 0
  BY <1>3 DEF PipeInv, TypeOK
<1> HIDE DEF N
<1>5. /\ ref' = N /\ live' \subseteq Pipes
      /\ readers' \in [Pipes -> 0..1] /\ writers' \in [Pipes -> 0..1]
      /\ EndsAreReachable' /\ NoLostWakeup' /\ pc' \in [Procs -> PcStates]
      /\ \A u \in Procs : /\ pc'[u] \in {"none", "user"} <=> pc[u] \in {"none", "user"}
                          /\ pc'[u] = "none" <=> pc[u] = "none"
  BY <1>1, <1>3, <1>4, CloseGood
<1>6. RefsAreDescriptors'
  BY <1>2, <1>5, RefsCount
<1>7. SlotsEmpty'
  BY <1>1, <1>5 DEF PipeInv, SlotsEmpty
<1>8. /\ fds' \in [Procs -> [Fds -> File \cup {NoFile, Console}]]
      /\ \A u \in Procs : pc'[u] \in {"ready", "blocked"} => fds'[u] = fds[u]
  BY <1>1, <1>5
<1>9. killed' \in [Procs -> BOOLEAN] /\ answer' = [u \in Procs |-> answer'[u]]
  BY <1>1 DEF PipeInv, TypeOK, Tables, Close
<1> QED
  BY <1>1, <1>3, <1>5, <1>6, <1>7, <1>8, <1>9, DescriptorStep

LEMMA Dup2Step ==
    ASSUME PipeInv, NEW t \in Procs, NEW o \in Fds, NEW n \in Fds, Dup2(t, o, n)
    PROVE  PipeInv'
<1> DEFINE N == [f \in File |-> ref[f] + (IF f = fds[t][o] THEN 1 ELSE 0)
                                       - (IF f = fds[t][n] THEN 1 ELSE 0)]
<1>1. /\ fds \in [Procs -> [Fds -> File \cup {NoFile, Console}]] /\ pc \in [Procs -> PcStates]
      /\ fds' = [fds EXCEPT ![t][n] = Handle(t, o)] /\ VfsClose(N, pc)
      /\ UNCHANGED <<ring, call, killed>> /\ pc[t] = "user"
  BY DEF Dup2, PipeInv, TypeOK, AtUser, PcStates
<1>2. /\ Handle(t, o) \in File \cup {NoFile, Console}
      /\ \A f \in File : Handle(t, o) = f <=> fds[t][o] = f
  BY <1>1, Files DEF Handle
<1>3. ASSUME NEW f \in File PROVE N[f] = Cardinality(Holding(fds', Procs, Fds, f))
  <2>1. fds'[t][n] = f <=> fds[t][o] = f
    BY <1>1, <1>2
  <2>2. SameButSlot(fds, fds', Procs, Fds, t, n)
    BY <1>1 DEF SameButSlot
  <2>3. /\ ref[f] \in Nat
        /\ Cardinality(Holding(fds', Procs, Fds, f)) = ref[f]
             - (IF fds[t][n] = f THEN 1 ELSE 0) + (IF fds'[t][n] = f THEN 1 ELSE 0)
    BY <2>2, OneSlot DEF PipeInv
  <2> QED
    BY <2>1, <2>3
<1>4. N \in [File -> Nat]
  <2> HIDE DEF N
  <2>1. N = [f \in File |-> N[f]]
    BY DEF N
  <2> QED
    BY <1>3, <2>1, CountsAreRefs
<1>5. ASSUME NEW f \in File, N[f] > 0 PROVE ref[f] > 0
  <2>1. fds[t][o] = f => ref[f] > 0
    BY NamedIsLive
  <2>2. fds[t][o] # f => N[f] <= ref[f] /\ ref[f] \in Nat /\ N[f] \in Nat
    BY <1>4 DEF PipeInv, TypeOK
  <2> QED
    BY <1>5, <2>1, <2>2
<1> HIDE DEF N
<1>6. /\ ref' = N /\ live' \subseteq Pipes
      /\ readers' \in [Pipes -> 0..1] /\ writers' \in [Pipes -> 0..1]
      /\ EndsAreReachable' /\ NoLostWakeup' /\ pc' \in [Procs -> PcStates]
      /\ \A u \in Procs : /\ pc'[u] \in {"none", "user"} <=> pc[u] \in {"none", "user"}
                          /\ pc'[u] = "none" <=> pc[u] = "none"
  BY <1>1, <1>4, <1>5, CloseGood
<1>7. RefsAreDescriptors'
  BY <1>3, <1>6, RefsCount
<1>8. SlotsEmpty'
  BY <1>1, <1>6 DEF PipeInv, SlotsEmpty
<1>9. /\ fds' \in [Procs -> [Fds -> File \cup {NoFile, Console}]]
      /\ \A u \in Procs : pc'[u] \in {"ready", "blocked"} => fds'[u] = fds[u]
  BY <1>1, <1>2, <1>6
<1>10. killed' \in [Procs -> BOOLEAN] /\ answer' = [u \in Procs |-> answer'[u]]
  BY <1>1 DEF PipeInv, TypeOK, Tables, Dup2
<1> QED
  BY <1>1, <1>4, <1>6, <1>7, <1>8, <1>9, <1>10, DescriptorStep

\* A step that neither frees a pipe nor changes where the processes are keeps
\* what was said of the ends as long as a file has references or has none.
LEMMA SameEnds ==
    ASSUME PipeInv, UNCHANGED <<live, readers, writers>>, ref' \in [File -> Nat],
           \A f \in File : ref'[f] > 0 <=> ref[f] > 0
    PROVE  EndsAreReachable'
<1>1. \A p \in Pipes : ReadEnd(p) \in File /\ WriteEnd(p) \in File
  BY Files
<1> QED
  BY <1>1 DEF PipeInv, EndsAreReachable

LEMMA DupFdStep ==
    ASSUME PipeInv, NEW t \in Procs, NEW o \in Fds, NEW min \in Fds, DupFd(t, o, min)
    PROVE  PipeInv'
<1> DEFINE n == Min(Free(t, min))
<1>1. n \in Fds /\ fds[t][n] = NoFile
  BY LowestFree DEF DupFd, Free
<1>2. /\ fds \in [Procs -> [Fds -> File \cup {NoFile, Console}]] /\ pc \in [Procs -> PcStates]
      /\ fds' = [fds EXCEPT ![t][n] = Handle(t, o)]
      /\ ref' = [f \in File |-> ref[f] + (IF f = fds[t][o] THEN 1 ELSE 0)]
      /\ UNCHANGED <<live, readers, writers, pc, ring, call, killed>> /\ pc[t] = "user"
  BY DEF DupFd, PipeInv, TypeOK, AtUser, PcStates
<1> HIDE DEF n
<1>3. /\ Handle(t, o) \in File \cup {NoFile, Console}
      /\ \A f \in File : Handle(t, o) = f <=> fds[t][o] = f
  BY <1>2, Files DEF Handle
<1>4. ASSUME NEW f \in File PROVE ref'[f] = Cardinality(Holding(fds', Procs, Fds, f))
  <2>1. (fds'[t][n] = f <=> fds[t][o] = f) /\ fds[t][n] # f
    BY <1>1, <1>2, <1>3, Files
  <2>2. SameButSlot(fds, fds', Procs, Fds, t, n)
    BY <1>2 DEF SameButSlot
  <2>3. /\ ref[f] \in Nat
        /\ Cardinality(Holding(fds', Procs, Fds, f)) = ref[f]
             - (IF fds[t][n] = f THEN 1 ELSE 0) + (IF fds'[t][n] = f THEN 1 ELSE 0)
    BY <1>1, <2>2, OneSlot DEF PipeInv
  <2> QED
    BY <1>2, <2>1, <2>3
<1>5. ref' \in [File -> Nat]
  <2>1. ref' = [f \in File |-> ref'[f]]
    BY <1>2
  <2> QED
    BY <1>4, <2>1, CountsAreRefs
<1>6. ASSUME NEW f \in File PROVE ref'[f] > 0 <=> ref[f] > 0
  <2>1. fds[t][o] = f => ref[f] > 0
    BY NamedIsLive
  <2>2. ref'[f] = ref[f] + (IF f = fds[t][o] THEN 1 ELSE 0) /\ ref[f] \in Nat
    BY <1>2 DEF PipeInv, TypeOK
  <2> QED
    BY <2>1, <2>2
<1>7. EndsAreReachable'
  BY <1>2, <1>5, <1>6, SameEnds
<1>8. RefsAreDescriptors'
  BY <1>4, RefsCount
<1>9. NoLostWakeup' /\ SlotsEmpty'
  BY <1>2 DEF PipeInv, NoLostWakeup, SlotsEmpty, ring
<1>10. /\ fds' \in [Procs -> [Fds -> File \cup {NoFile, Console}]]
       /\ \A u \in Procs : pc'[u] \in {"ready", "blocked"} => fds'[u] = fds[u]
  BY <1>2, <1>3
<1>11. /\ killed' \in [Procs -> BOOLEAN] /\ live' \subseteq Pipes
       /\ readers' \in [Pipes -> 0..1] /\ writers' \in [Pipes -> 0..1]
       /\ answer' = [u \in Procs |-> answer'[u]]
  BY <1>2 DEF PipeInv, TypeOK, Tables, DupFd
<1> QED
  BY <1>2, <1>5, <1>7, <1>8, <1>9, <1>10, <1>11, DescriptorStep

LEMMA ForkStep ==
    ASSUME PipeInv, NEW t \in Procs, NEW c \in Procs, Fork(t, c)
    PROVE  PipeInv'
<1>1. /\ fds \in [Procs -> [Fds -> File \cup {NoFile, Console}]] /\ pc \in [Procs -> PcStates]
      /\ ref \in [File -> Nat] /\ pc[t] = "user" /\ pc[c] = "none" /\ t # c
      /\ fds' = [fds EXCEPT ![c] = fds[t]] /\ pc' = [pc EXCEPT ![c] = "user"]
      /\ ref' = [f \in File |-> ref[f] + Cardinality(Slots(t, f))]
      /\ UNCHANGED <<live, readers, writers, ring, call, killed>>
  BY DEF Fork, PipeInv, TypeOK, AtUser, PcStates
<1>2. ASSUME NEW f \in File
      PROVE  /\ ref'[f] = Cardinality(Holding(fds', Procs, Fds, f))
             /\ ref'[f] > 0 <=> ref[f] > 0
  <2>1. SameBut(fds, fds', Procs, Fds, c)
    BY <1>1 DEF SameBut
  <2>2. /\ Cardinality(Holding(fds, Procs, Fds, f)) \in Nat
        /\ Cardinality(InRow(fds[c], Fds, f)) \in Nat
        /\ Cardinality(InRow(fds'[c], Fds, f)) \in Nat
        /\ Cardinality(Holding(fds', Procs, Fds, f)) = Cardinality(Holding(fds, Procs, Fds, f))
             - Cardinality(InRow(fds[c], Fds, f)) + Cardinality(InRow(fds'[c], Fds, f))
    BY <2>1, Constants, RowChange
  <2>3. InRow(fds[c], Fds, f) = {}
    BY <1>1, Files DEF PipeInv, SlotsEmpty, InRow
  <2>4. Cardinality(InRow(fds[c], Fds, f)) = 0
    BY <2>3, FS_EmptySet
  <2>5. InRow(fds'[c], Fds, f) = Slots(t, f)
    BY <1>1 DEF InRow, Slots
  <2>6. ref'[f] = ref[f] + Cardinality(Slots(t, f)) /\ Cardinality(Slots(t, f)) \in Nat
    BY <1>1, <2>2, <2>5
  <2>7. Cardinality(Slots(t, f)) > 0 => ref[f] > 0
    <3>1. SUFFICES ASSUME Cardinality(Slots(t, f)) # 0 PROVE ref[f] > 0
      BY <2>6
    <3>2. PICK d \in Fds : fds[t][d] = f
      BY <3>1, FS_EmptySet DEF Slots
    <3> QED
      BY <3>2, NamedIsLive
  <2> QED
    BY <1>1, <2>2, <2>4, <2>5, <2>6, <2>7, RefsCount DEF PipeInv
<1>3. ref' \in [File -> Nat]
  <2>1. ref' = [f \in File |-> ref'[f]]
    BY <1>1
  <2> QED
    BY <1>2, <2>1, CountsAreRefs
<1>4. EndsAreReachable'
  BY <1>1, <1>2, <1>3, SameEnds
<1>5. RefsAreDescriptors'
  BY <1>2, RefsCount
<1>6. NoLostWakeup' /\ SlotsEmpty'
  BY <1>1 DEF PipeInv, NoLostWakeup, SlotsEmpty, ring
<1>7. /\ fds' \in [Procs -> [Fds -> File \cup {NoFile, Console}]]
      /\ pc' \in [Procs -> PcStates]
      /\ \A u \in Procs : pc'[u] \in {"ready", "blocked"} => fds'[u] = fds[u]
      /\ \A u \in Procs : pc'[u] \in {"none", "user"} <=> pc[u] \in {"none", "user"}
  BY <1>1 DEF PcStates
<1>8. /\ killed' \in [Procs -> BOOLEAN] /\ live' \subseteq Pipes
      /\ readers' \in [Pipes -> 0..1] /\ writers' \in [Pipes -> 0..1]
      /\ answer' = [u \in Procs |-> answer'[u]]
  BY <1>1 DEF PipeInv, TypeOK, Tables, Fork
<1> QED
  BY <1>1, <1>3, <1>4, <1>5, <1>6, <1>7, <1>8, DescriptorStep

LEMMA ExitStep ==
    ASSUME PipeInv, NEW t \in Procs, Exit(t)
    PROVE  PipeInv'
<1> DEFINE N == [f \in File |-> ref[f] - Cardinality(Slots(t, f))]
           at == [pc EXCEPT ![t] = "none"]
<1>1. /\ fds \in [Procs -> [Fds -> File \cup {NoFile, Console}]] /\ pc \in [Procs -> PcStates]
      /\ ref \in [File -> Nat] /\ pc[t] = "user"
      /\ fds' = [fds EXCEPT ![t] = [d \in Fds |-> NoFile]]
      /\ VfsClose(N, at) /\ UNCHANGED <<ring, call>>
  BY DEF Exit, PipeInv, TypeOK, PcStates
<1>2. ASSUME NEW f \in File
      PROVE  /\ N[f] = Cardinality(Holding(fds', Procs, Fds, f))
             /\ N[f] > 0 => ref[f] > 0
  <2>1. SameBut(fds, fds', Procs, Fds, t)
    BY <1>1 DEF SameBut
  <2>2. /\ Cardinality(Holding(fds, Procs, Fds, f)) \in Nat
        /\ Cardinality(InRow(fds[t], Fds, f)) \in Nat
        /\ Cardinality(InRow(fds'[t], Fds, f)) \in Nat
        /\ Cardinality(Holding(fds', Procs, Fds, f)) = Cardinality(Holding(fds, Procs, Fds, f))
             - Cardinality(InRow(fds[t], Fds, f)) + Cardinality(InRow(fds'[t], Fds, f))
    BY <2>1, Constants, RowChange
  <2>3. InRow(fds'[t], Fds, f) = {}
    BY <1>1, Files DEF InRow
  <2>4. Cardinality(InRow(fds'[t], Fds, f)) = 0
    BY <2>3, FS_EmptySet
  <2>5. InRow(fds[t], Fds, f) = Slots(t, f)
    BY DEF InRow, Slots
  <2>6. N[f] = ref[f] - Cardinality(Slots(t, f)) /\ ref[f] \in Nat
    BY <1>1
  <2> HIDE DEF N
  <2> QED
    BY <2>2, <2>4, <2>5, <2>6, RefsCount DEF PipeInv
<1>3. N \in [File -> Nat]
  <2> HIDE DEF N
  <2>1. N = [f \in File |-> N[f]]
    BY DEF N
  <2> QED
    BY <1>2, <2>1, CountsAreRefs
<1>4. /\ at \in [Procs -> PcStates]
      /\ \A u \in Procs : at[u] = "blocked" => pc[u] = "blocked"
      /\ \A u \in Procs : at[u] \in {"none", "user"} <=> pc[u] \in {"none", "user"}
      /\ \A u \in Procs : at[u] = "none" <=> u = t \/ pc[u] = "none"
  BY <1>1 DEF PcStates
<1> HIDE DEF N, at
<1>5. /\ ref' = N /\ live' \subseteq Pipes
      /\ readers' \in [Pipes -> 0..1] /\ writers' \in [Pipes -> 0..1]
      /\ EndsAreReachable' /\ NoLostWakeup' /\ pc' \in [Procs -> PcStates]
      /\ \A u \in Procs : /\ pc'[u] \in {"none", "user"} <=> at[u] \in {"none", "user"}
                          /\ pc'[u] = "none" <=> at[u] = "none"
  BY <1>1, <1>2, <1>3, <1>4, CloseGood
<1>6. RefsAreDescriptors'
  BY <1>2, <1>5, RefsCount
<1>7. SlotsEmpty'
  BY <1>1, <1>4, <1>5 DEF PipeInv, SlotsEmpty
<1>8. /\ fds' \in [Procs -> [Fds -> File \cup {NoFile, Console}]]
      /\ \A u \in Procs : pc'[u] \in {"ready", "blocked"} => fds'[u] = fds[u]
      /\ \A u \in Procs : pc'[u] \in {"none", "user"} <=> pc[u] \in {"none", "user"}
  BY <1>1, <1>4, <1>5
<1>9. killed' \in [Procs -> BOOLEAN] /\ answer' = [u \in Procs |-> answer'[u]]
  BY DEF PipeInv, TypeOK, Tables, Exit
<1> QED
  BY <1>1, <1>3, <1>5, <1>6, <1>7, <1>8, <1>9, DescriptorStep

\* pipe() fills two different free slots of its table.
LEMMA TwoFree ==
    ASSUME NEW t \in Procs, Cardinality(Free(t, 3)) >= 2
    PROVE  LET rfd == Min(Free(t, 3))
               wfd == Min(Free(t, 3) \ {rfd})
           IN /\ rfd \in Fds /\ wfd \in Fds /\ rfd # wfd
              /\ fds[t][rfd] = NoFile /\ fds[t][wfd] = NoFile
<1> DEFINE S == Free(t, 3)
           rfd == Min(S)
           wfd == Min(S \ {rfd})
<1>1. S \in SUBSET Fds /\ \A d \in S : fds[t][d] = NoFile
  BY DEF Free
<1>2. IsFiniteSet(S) /\ Cardinality(S) >= 2
  BY <1>1, Constants, FS_Subset
<1> HIDE DEF S
<1>3. S # {}
  BY <1>2, FS_EmptySet
<1>4. rfd \in S
  BY <1>1, <1>3, LowestFree
<1>5. Cardinality(S \ {rfd}) = Cardinality(S) - 1 /\ Cardinality(S) \in Nat
  BY <1>2, <1>4, FS_RemoveElement, FS_CardinalityType
<1>6. S \ {rfd} # {} /\ S \ {rfd} \in SUBSET Fds
  BY <1>1, <1>2, <1>5, FS_EmptySet
<1>7. wfd \in S \ {rfd}
  BY <1>6, LowestFree
<1> HIDE DEF rfd, wfd
<1>8. /\ rfd \in Fds /\ wfd \in Fds /\ rfd # wfd
      /\ fds[t][rfd] = NoFile /\ fds[t][wfd] = NoFile
  BY <1>1, <1>4, <1>7
<1> QED
  BY <1>8 DEF rfd, wfd, S

LEMMA PipeMakeStep ==
    ASSUME PipeInv, NEW t \in Procs, NEW p \in Pipes, PipeMake(t, p)
    PROVE  PipeInv'
<1> DEFINE rfd == Min(Free(t, 3))
           wfd == Min(Free(t, 3) \ {rfd})
<1>1. /\ rfd \in Fds /\ wfd \in Fds /\ rfd # wfd
      /\ fds[t][rfd] = NoFile /\ fds[t][wfd] = NoFile
      /\ fds' = [fds EXCEPT ![t][rfd] = ReadEnd(p), ![t][wfd] = WriteEnd(p)]
  BY TwoFree DEF PipeMake
<1> HIDE DEF rfd, wfd
<1>2. /\ fds \in [Procs -> [Fds -> File \cup {NoFile, Console}]] /\ pc \in [Procs -> PcStates]
      /\ ref \in [File -> Nat] /\ pc[t] = "user" /\ p \notin live
      /\ ref' = [ref EXCEPT ![ReadEnd(p)] = 1, ![WriteEnd(p)] = 1]
      /\ readers' = [readers EXCEPT ![p] = 1] /\ writers' = [writers EXCEPT ![p] = 1]
      /\ live' = live \cup {p}
      /\ r' = [r EXCEPT ![p] = 0] /\ w' = [w EXCEPT ![p] = 0] /\ count' = [count EXCEPT ![p] = 0]
      /\ UNCHANGED <<buf, pc, call, killed>>
  BY DEF PipeMake, PipeInv, TypeOK, AtUser, PcStates
<1>3. /\ ReadEnd(p) \in File /\ WriteEnd(p) \in File /\ ReadEnd(p) # WriteEnd(p)
      /\ NoFile \notin File
  BY Files
<1>4. /\ \A d \in Fds : fds[t][d] # ReadEnd(p) /\ fds[t][d] # WriteEnd(p)
      /\ ref[ReadEnd(p)] = 0 /\ ref[WriteEnd(p)] = 0
  <2>1. ReadEnd(p)[1] = p /\ WriteEnd(p)[1] = p
    BY Files
  <2>2. readers[p] = 0 /\ writers[p] = 0
    BY <1>2 DEF PipeInv, TypeOK, EndsAreReachable
  <2>3. ref[ReadEnd(p)] = 0 /\ ref[WriteEnd(p)] = 0
    BY <1>2, <1>3, <2>2 DEF PipeInv, EndsAreReachable
  <2> QED
    BY <1>2, <1>3, <2>1, <2>3, NamedIsLive
<1>5. /\ fds'[t] \in [Fds -> File \cup {NoFile, Console}]
      /\ fds'[t][rfd] = ReadEnd(p) /\ fds'[t][wfd] = WriteEnd(p)
      /\ \A d \in Fds \ {rfd, wfd} : fds'[t][d] = fds[t][d]
      /\ \A u \in Procs \ {t} : fds'[u] = fds[u]
      /\ fds' \in [Procs -> [Fds -> File \cup {NoFile, Console}]]
  BY <1>1, <1>2, <1>3
<1>6. ASSUME NEW f \in File PROVE ref'[f] = Cardinality(Holding(fds', Procs, Fds, f))
  <2>1. SameBut(fds, fds', Procs, Fds, t)
    BY <1>5 DEF SameBut
  <2>2. /\ Cardinality(Holding(fds, Procs, Fds, f)) \in Nat
        /\ Cardinality(InRow(fds[t], Fds, f)) \in Nat
        /\ Cardinality(InRow(fds'[t], Fds, f)) \in Nat
        /\ Cardinality(Holding(fds', Procs, Fds, f)) = Cardinality(Holding(fds, Procs, Fds, f))
             - Cardinality(InRow(fds[t], Fds, f)) + Cardinality(InRow(fds'[t], Fds, f))
    BY <2>1, Constants, RowChange
  <2>3. ref[f] = Cardinality(Holding(fds, Procs, Fds, f))
    BY RefsCount DEF PipeInv
  <2>4. CASE f \notin {ReadEnd(p), WriteEnd(p)}
    <3>1. InRow(fds'[t], Fds, f) = InRow(fds[t], Fds, f)
      BY <1>1, <1>3, <1>5, <2>4 DEF InRow
    <3>2. ref'[f] = ref[f]
      BY <1>2, <2>4
    <3> QED
      BY <2>2, <2>3, <3>1, <3>2
  <2>5. CASE f \in {ReadEnd(p), WriteEnd(p)}
    <3>1. InRow(fds[t], Fds, f) = {}
      BY <1>4, <2>5 DEF InRow
    <3>2. InRow(fds'[t], Fds, f) = {rfd} \/ InRow(fds'[t], Fds, f) = {wfd}
      BY <1>1, <1>3, <1>4, <1>5, <2>5 DEF InRow
    <3>3. Cardinality(InRow(fds[t], Fds, f)) = 0 /\ Cardinality(InRow(fds'[t], Fds, f)) = 1
      BY <3>1, <3>2, FS_EmptySet, FS_Singleton
    <3>4. ref'[f] = 1 /\ ref[f] = 0
      BY <1>2, <1>3, <1>4, <2>5
    <3> QED
      BY <2>2, <2>3, <3>3, <3>4
  <2> QED
    BY <2>4, <2>5
<1>7. ref' \in [File -> Nat] /\ readers' \in [Pipes -> 0..1] /\ writers' \in [Pipes -> 0..1]
  <2>1. readers \in [Pipes -> 0..1] /\ writers \in [Pipes -> 0..1] /\ 1 \in 0..1 /\ 1 \in Nat
    BY DEF PipeInv, TypeOK
  <2>2. ref' \in [File -> Nat]
    BY <1>2, <1>3, <2>1
  <2> QED
    BY <1>2, <2>1, <2>2
<1>8. /\ live' \subseteq Pipes
      /\ r' \in [Pipes -> 0..(PIPE_SIZE - 1)] /\ w' \in [Pipes -> 0..(PIPE_SIZE - 1)]
      /\ count' \in [Pipes -> 0..PIPE_SIZE]
  <2>1. 0 \in 0..(PIPE_SIZE - 1) /\ 0 \in 0..PIPE_SIZE
    BY Constants
  <2> QED
    BY <1>2, <2>1 DEF PipeInv, TypeOK
<1>9. EndsAreReachable'
  <2>1. ASSUME NEW q \in Pipes, q # p
        PROVE  ref'[ReadEnd(q)] = ref[ReadEnd(q)] /\ ref'[WriteEnd(q)] = ref[WriteEnd(q)]
    <3>1. /\ ReadEnd(q) \in File /\ WriteEnd(q) \in File
          /\ ReadEnd(q) \notin {ReadEnd(p), WriteEnd(p)}
          /\ WriteEnd(q) \notin {ReadEnd(p), WriteEnd(p)}
      BY <2>1 DEF File, ReadEnd, WriteEnd
    <3> QED
      BY <1>2, <3>1
  <2>2. ASSUME NEW q \in Pipes, q # p
        PROVE  /\ readers'[q] > 0 <=> ref'[ReadEnd(q)] > 0
               /\ writers'[q] > 0 <=> ref'[WriteEnd(q)] > 0
               /\ q \in live' <=> readers'[q] + writers'[q] > 0
    BY <1>2, <2>1, <2>2 DEF PipeInv, TypeOK, EndsAreReachable
  <2>3. /\ readers'[p] = 1 /\ writers'[p] = 1 /\ p \in live'
        /\ ref'[ReadEnd(p)] = 1 /\ ref'[WriteEnd(p)] = 1
    BY <1>2, <1>3 DEF PipeInv, TypeOK
  <2> QED
    BY <2>2, <2>3 DEF EndsAreReachable
<1>10. NoLostWakeup'
  <2>1. SUFFICES ASSUME NEW u \in Procs, pc[u] = "blocked"
                 PROVE  LET q == call[u].file[1]
                        IN \/ call[u].op = "read" /\ count'[q] = 0 /\ writers'[q] > 0
                           \/ call[u].op = "write" /\ count'[q] = PIPE_SIZE /\ readers'[q] > 0
    BY <1>2 DEF NoLostWakeup
  <2> DEFINE q == call[u].file[1]
  <2>2. q \in live
    BY <2>1, HoldsPipe DEF CallHoldsPipe
  <2>3. q \in Pipes /\ q # p
    BY <1>2, <2>2 DEF PipeInv, TypeOK
  <2>4. count'[q] = count[q] /\ readers'[q] = readers[q] /\ writers'[q] = writers[q]
    BY <1>2, <2>3 DEF PipeInv, TypeOK
  <2> QED
    BY <2>1, <2>4 DEF PipeInv, NoLostWakeup
<1>11. TypeOK'
  BY <1>2, <1>5, <1>7, <1>8 DEF PipeInv, TypeOK
<1>12. Tables' /\ CallsTyped'
  BY <1>2 DEF PipeInv, Tables, CallsTyped, CallTyped, PipeMake
<1>13. CallsNamed' /\ SlotsEmpty'
  <2>1. \A u \in Procs : pc[u] # "user" => fds'[u] = fds[u]
    BY <1>2, <1>5
  <2> QED
    BY <1>2, <2>1 DEF PipeInv, CallsNamed, SlotsEmpty
<1>14. RefsAreDescriptors'
  BY <1>6, RefsCount
<1>15. RingKept'
  <2>1. (0 + 0) % PIPE_SIZE = 0
    BY Wrap, Constants
  <2> QED
    BY <1>2, <2>1 DEF PipeInv, TypeOK, RingKept
<1> QED
  BY <1>9, <1>10, <1>11, <1>12, <1>13, <1>14, <1>15 DEF PipeInv

----------------------------------------------------------------------------
(* Transfers and signals.                                                  *)

\* The smaller of two numbers, as pipe_read and pipe_write compute it.
LEMMA MinPair ==
    ASSUME NEW a \in Nat, NEW b \in Nat
    PROVE  /\ Min({a, b}) \in {a, b}
           /\ Min({a, b}) <= a /\ Min({a, b}) <= b /\ Min({a, b}) \in Nat
<1>1. \E m \in {a, b} : \A n \in {a, b} : m <= n
  OBVIOUS
<1>2. Min({a, b}) \in {a, b} /\ \A n \in {a, b} : Min({a, b}) <= n
  BY <1>1 DEF Min
<1> QED
  BY <1>2

\* What is left to show of a step in which process t goes on with a call on
\* file f: it returns or sleeps, and others at most wake up.
LEMMA TransferStep ==
    ASSUME PipeInv, NEW t \in Procs, NEW f \in File, UNCHANGED <<fds, ends, killed>>,
           \E d \in Fds : fds[t][d] = f,
           buf' \in [Pipes -> [0..(PIPE_SIZE - 1) -> Bytes]],
           r' \in [Pipes -> 0..(PIPE_SIZE - 1)], w' \in [Pipes -> 0..(PIPE_SIZE - 1)],
           count' \in [Pipes -> 0..PIPE_SIZE],
           call' = [call EXCEPT ![t] = call'[t]], answer' = [answer EXCEPT ![t] = answer'[t]],
           pc' \in [Procs -> PcStates],
           \A u \in Procs \ {t} : /\ pc'[u] \in {"none", "user"} <=> pc[u] \in {"none", "user"}
                                  /\ pc'[u] = "none" <=> pc[u] = "none",
           \/ pc'[t] = "user" /\ call'[t] = NoCall
           \/ pc'[t] = "blocked" /\ CallTyped(call'[t]) /\ call'[t].file = f,
           NoLostWakeup', RingKept'
    PROVE  PipeInv'
<1>1. /\ call = [u \in Procs |-> call[u]] /\ answer = [u \in Procs |-> answer[u]]
      /\ \A u \in Procs \ {t} : call'[u] = call[u]
      /\ call' = [u \in Procs |-> call'[u]] /\ answer' = [u \in Procs |-> answer'[u]]
  BY DEF PipeInv, Tables
<1>2. ASSUME NEW u \in Procs PROVE call'[u] = NoCall <=> pc'[u] \in {"none", "user"}
  <2>1. CASE u # t
    BY <1>1, <2>1 DEF PipeInv, TypeOK
  <2>2. CallTyped(call'[t]) => call'[t] # NoCall
    BY DEF CallTyped, NoCall
  <2> QED
    BY <2>1, <2>2
<1>3. TypeOK'
  BY <1>2 DEF PipeInv, TypeOK, ends, PcStates
<1>4. ASSUME NEW u \in Procs \ {t}, pc'[u] \in {"ready", "blocked"}
      PROVE  pc[u] \in {"ready", "blocked"}
  BY <1>4 DEF PipeInv, TypeOK
<1>5. CallsTyped'
  <2>1. ASSUME NEW u \in Procs \ {t}, pc'[u] \in {"ready", "blocked"} PROVE CallTyped(call'[u])
    BY <1>1, <1>4, <2>1 DEF PipeInv, CallsTyped, CallTyped
  <2> QED
    BY <2>1 DEF CallsTyped
<1>6. CallsNamed' /\ SlotsEmpty' /\ Tables'
  <2>1. ASSUME NEW u \in Procs, pc'[u] \in {"ready", "blocked"}
        PROVE  \E d \in Fds : fds[u][d] = call'[u].file
    <3>1. CASE u = t
      BY <2>1, <3>1
    <3>2. CASE u # t
      BY <1>1, <1>4, <2>1, <3>2 DEF PipeInv, CallsNamed
    <3> QED
      BY <3>1, <3>2
  <2>2. ASSUME NEW u \in Procs, pc'[u] = "none" PROVE u # t /\ pc[u] = "none"
    BY <2>2
  <2> QED
    BY <1>1, <2>1, <2>2 DEF PipeInv, CallsNamed, SlotsEmpty, Tables
<1>7. RefsAreDescriptors' /\ EndsAreReachable'
  BY DEF PipeInv, RefsAreDescriptors, EndsAreReachable, ends
<1> QED
  BY <1>3, <1>5, <1>6, <1>7 DEF PipeInv

\* Who a step on pipe p leaves asleep still has a reason to sleep, when it
\* changes no other ring and wakes everyone on p if it changes p's.
LEMMA StillAsleep ==
    ASSUME PipeInv, NEW t \in Procs, NEW p \in Pipes, UNCHANGED <<readers, writers>>,
           \A q \in Pipes \ {p} : count'[q] = count[q],
           \A u \in Procs \ {t} :
              /\ call'[u] = call[u]
              /\ pc'[u] = "blocked" => /\ pc[u] = "blocked"
                                       /\ count'[p] = count[p] \/ call[u].file[1] # p,
           pc'[t] = "blocked" =>
              /\ call'[t].file[1] = p
              /\ \/ call'[t].op = "read" /\ count'[p] = 0 /\ writers[p] > 0
                 \/ call'[t].op = "write" /\ count'[p] = PIPE_SIZE /\ readers[p] > 0
    PROVE  NoLostWakeup'
<1>1. ASSUME NEW u \in Procs \ {t}, pc'[u] = "blocked"
      PROVE  LET q == call'[u].file[1]
             IN \/ call'[u].op = "read" /\ count'[q] = 0 /\ writers'[q] > 0
                \/ call'[u].op = "write" /\ count'[q] = PIPE_SIZE /\ readers'[q] > 0
  <2> DEFINE q == call[u].file[1]
  <2>1. pc[u] = "blocked" /\ call'[u] = call[u] /\ (count'[p] = count[p] \/ q # p)
    BY <1>1
  <2>2. q \in Pipes
    BY <2>1, Files DEF PipeInv, CallsTyped, CallTyped
  <2>3. count'[q] = count[q]
    BY <2>1, <2>2
  <2>4. \/ call[u].op = "read" /\ count[q] = 0 /\ writers[q] > 0
        \/ call[u].op = "write" /\ count[q] = PIPE_SIZE /\ readers[q] > 0
    BY <2>1 DEF PipeInv, NoLostWakeup
  <2> QED
    BY <2>1, <2>3, <2>4
<1> QED
  BY <1>1 DEF NoLostWakeup

\* pipe_read by a process that is outside a call or has just been woken.
LEMMA PipeReadGood ==
    ASSUME PipeInv, NEW t \in Procs, pc[t] \in {"user", "ready"},
           NEW f \in File, \E d \in Fds : fds[t][d] = f,
           NEW len \in Nat \ {0}, PipeRead(t, f, len), UNCHANGED <<fds, ends, killed>>
    PROVE  PipeInv'
<1> DEFINE p == f[1]
           n == Min({len, count[p]})
<1>1. p \in Pipes
  BY Files
<1>2. /\ pc \in [Procs -> PcStates] /\ count \in [Pipes -> 0..PIPE_SIZE]
      /\ r \in [Pipes -> 0..(PIPE_SIZE - 1)] /\ w \in [Pipes -> 0..(PIPE_SIZE - 1)]
      /\ buf \in [Pipes -> [0..(PIPE_SIZE - 1) -> Bytes]]
      /\ readers[p] \in 0..1 /\ writers[p] \in 0..1
      /\ call = [u \in Procs |-> call[u]] /\ answer = [u \in Procs |-> answer[u]]
  BY <1>1 DEF PipeInv, TypeOK, Tables, PcStates
<1>3. CASE /\ ReadWaits(p)
           /\ Sleep(t, [op |-> "read", file |-> f, len |-> len, data |-> <<>>, done |-> 0])
           /\ pc' = [pc EXCEPT ![t] = "blocked"]
           /\ UNCHANGED ring
  <2>1. /\ call' = [call EXCEPT ![t] = [op |-> "read", file |-> f, len |-> len,
                                        data |-> <<>>, done |-> 0]]
        /\ answer' = [answer EXCEPT ![t] = None]
        /\ pc' = [pc EXCEPT ![t] = "blocked"] /\ UNCHANGED ring
        /\ count[p] = 0 /\ writers[p] > 0
    BY <1>3 DEF Sleep, ReadWaits
  <2>2. /\ call'[t].op = "read" /\ call'[t].file = f /\ call'[t].len = len
        /\ call' = [call EXCEPT ![t] = call'[t]] /\ answer' = [answer EXCEPT ![t] = answer'[t]]
        /\ \A u \in Procs \ {t} : call'[u] = call[u] /\ pc'[u] = pc[u]
        /\ pc'[t] = "blocked" /\ pc' \in [Procs -> PcStates]
    BY <1>2, <2>1 DEF PcStates
  <2>3. CallTyped(call'[t])
    BY <2>2 DEF CallTyped
  <2>4. NoLostWakeup'
    BY <1>1, <2>1, <2>2, StillAsleep DEF ring, ends
  <2>5. /\ buf' \in [Pipes -> [0..(PIPE_SIZE - 1) -> Bytes]]
        /\ r' \in [Pipes -> 0..(PIPE_SIZE - 1)] /\ w' \in [Pipes -> 0..(PIPE_SIZE - 1)]
        /\ count' \in [Pipes -> 0..PIPE_SIZE] /\ RingKept'
    BY <1>2, <2>1 DEF ring, PipeInv, RingKept
  <2>6. \A u \in Procs \ {t} : /\ pc'[u] \in {"none", "user"} <=> pc[u] \in {"none", "user"}
                               /\ pc'[u] = "none" <=> pc[u] = "none"
    BY <2>2
  <2>7. \/ pc'[t] = "user" /\ call'[t] = NoCall
        \/ pc'[t] = "blocked" /\ CallTyped(call'[t]) /\ call'[t].file = f
    BY <2>2, <2>3
  <2> HIDE DEF p, n
  <2> QED
    BY <2>2, <2>4, <2>5, <2>6, <2>7, TransferStep
<1>4. CASE /\ ~ReadWaits(p) /\ count[p] = 0
           /\ Done(t, p, "read", 0, <<>>)
           /\ pc' = [pc EXCEPT ![t] = "user"]
           /\ UNCHANGED ring
  <2>1. /\ call'[t] = NoCall
        /\ call' = [call EXCEPT ![t] = call'[t]] /\ answer' = [answer EXCEPT ![t] = answer'[t]]
        /\ \A u \in Procs \ {t} : call'[u] = call[u] /\ pc'[u] = pc[u]
        /\ pc'[t] = "user" /\ pc' \in [Procs -> PcStates]
    BY <1>2, <1>4 DEF PcStates, Done
  <2>2. NoLostWakeup'
    BY <1>1, <1>4, <2>1, StillAsleep DEF ring, ends
  <2>3. /\ buf' \in [Pipes -> [0..(PIPE_SIZE - 1) -> Bytes]]
        /\ r' \in [Pipes -> 0..(PIPE_SIZE - 1)] /\ w' \in [Pipes -> 0..(PIPE_SIZE - 1)]
        /\ count' \in [Pipes -> 0..PIPE_SIZE] /\ RingKept'
    BY <1>2, <1>4 DEF ring, PipeInv, RingKept
  <2>4. \A u \in Procs \ {t} : /\ pc'[u] \in {"none", "user"} <=> pc[u] \in {"none", "user"}
                               /\ pc'[u] = "none" <=> pc[u] = "none"
    BY <2>1
  <2> HIDE DEF p, n
  <2> QED
    BY <2>1, <2>2, <2>3, <2>4, TransferStep
<1>5. CASE /\ count[p] > 0
           /\ Done(t, p, "read", n, [i \in 1..n |-> At(p, i)])
           /\ r' = [r EXCEPT ![p] = (@ + n) % PIPE_SIZE]
           /\ count' = [count EXCEPT ![p] = @ - n]
           /\ pc' = Woken([pc EXCEPT ![t] = "user"], {p})
           /\ UNCHANGED <<buf, w>>
  <2>1. count[p] \in Nat /\ count[p] <= PIPE_SIZE
    BY <1>1, <1>2, Constants
  <2>2. n \in Nat /\ n <= count[p]
    BY <2>1, MinPair
  <2> HIDE DEF n
  <2>3. /\ call'[t] = NoCall
        /\ call' = [call EXCEPT ![t] = call'[t]] /\ answer' = [answer EXCEPT ![t] = answer'[t]]
        /\ \A u \in Procs \ {t} : call'[u] = call[u]
    BY <1>2, <1>5 DEF Done
  <2>4. /\ pc' \in [Procs -> PcStates] /\ pc'[t] = "user"
        /\ \A u \in Procs \ {t} :
              /\ pc'[u] \in {"none", "user"} <=> pc[u] \in {"none", "user"}
              /\ pc'[u] = "none" <=> pc[u] = "none"
              /\ pc'[u] = "blocked" => pc[u] = "blocked" /\ call[u].file[1] # p
    BY <1>2, <1>5 DEF Woken, PcStates
  <2>5. \A q \in Pipes \ {p} : count'[q] = count[q]
    BY <1>2, <1>5
  <2>6. NoLostWakeup'
    BY <1>1, <2>3, <2>4, <2>5, StillAsleep DEF ends
  <2>7. /\ r' \in [Pipes -> 0..(PIPE_SIZE - 1)] /\ w' \in [Pipes -> 0..(PIPE_SIZE - 1)]
        /\ count' \in [Pipes -> 0..PIPE_SIZE]
        /\ buf' \in [Pipes -> [0..(PIPE_SIZE - 1) -> Bytes]]
    <3>1. (r[p] + n) % PIPE_SIZE \in 0..(PIPE_SIZE - 1)
      <4>1. r[p] \in 0..(PIPE_SIZE - 1)
        BY <1>1, <1>2
      <4>2. r[p] + n \in Int
        BY <2>2, <4>1
      <4> HIDE DEF p
      <4> QED
        BY ONLY <4>2, InRing
    <3>2. count[p] - n \in 0..PIPE_SIZE
      BY <2>1, <2>2, Constants
    <3>3. r' = [r EXCEPT ![p] = (r[p] + n) % PIPE_SIZE] /\ count' = [count EXCEPT ![p] = count[p] - n]
      BY <1>5
    <3>4. r' \in [Pipes -> 0..(PIPE_SIZE - 1)]
      BY ONLY <1>2, <3>1, <3>3
    <3>5. count' \in [Pipes -> 0..PIPE_SIZE]
      BY ONLY <1>2, <3>2, <3>3
    <3> QED
      BY <1>2, <1>5, <3>4, <3>5
  <2>8. RingKept'
    <3>1. /\ r[p] \in 0..(PIPE_SIZE - 1) /\ w[p] = (r[p] + count[p]) % PIPE_SIZE
          /\ w' = w /\ r'[p] = (r[p] + n) % PIPE_SIZE /\ count'[p] = count[p] - n
          /\ \A q \in Pipes \ {p} : r'[q] = r[q] /\ count'[q] = count[q]
      BY <1>1, <1>2, <1>5 DEF PipeInv, RingKept
    <3> HIDE DEF p
    <3>2. w[p] = (((r[p] + n) % PIPE_SIZE) + (count[p] - n)) % PIPE_SIZE
      <4>1. count[p] - n \in Nat /\ n + (count[p] - n) = count[p]
        BY <2>1, <2>2
      <4> QED
        BY <2>1, <2>2, <3>1, <4>1, TwoSteps
    <3> QED
      BY <3>1, <3>2 DEF PipeInv, RingKept
  <2> QED
    BY <2>3, <2>4, <2>6, <2>7, <2>8, TransferStep
<1> QED
  BY <1>3, <1>4, <1>5 DEF PipeRead

\* pipe_write by a process that is outside a call or has just been woken: a
\* chunk that is not the last one fills the ring.
LEMMA PipeWriteGood ==
    ASSUME PipeInv, NEW t \in Procs, pc[t] \in {"user", "ready"},
           NEW f \in File, \E d \in Fds : fds[t][d] = f,
           NEW data \in Data, NEW done \in Nat, done < Len(data),
           PipeWrite(t, f, data, done), UNCHANGED <<fds, ends, killed>>
    PROVE  PipeInv'
<1> DEFINE p == f[1]
           n == Min({Len(data) - done, PIPE_SIZE - count[p]})
           c(k) == [op |-> "write", file |-> f, len |-> Len(data), data |-> data, done |-> k]
<1>1. p \in Pipes /\ data \in Seq(Bytes)
  BY Files, ConstAssumption
<1>2. /\ pc \in [Procs -> PcStates] /\ count \in [Pipes -> 0..PIPE_SIZE]
      /\ r \in [Pipes -> 0..(PIPE_SIZE - 1)] /\ w \in [Pipes -> 0..(PIPE_SIZE - 1)]
      /\ buf \in [Pipes -> [0..(PIPE_SIZE - 1) -> Bytes]]
      /\ readers[p] \in 0..1 /\ writers[p] \in 0..1
      /\ call = [u \in Procs |-> call[u]] /\ answer = [u \in Procs |-> answer[u]]
  BY <1>1 DEF PipeInv, TypeOK, Tables, PcStates
<1>3. ASSUME NEW k \in Nat, k < Len(data)
      PROVE  CallTyped(c(k)) /\ c(k).op = "write" /\ c(k).file = f
  BY <1>3 DEF CallTyped
<1>4. CASE /\ WriteWaits(p)
           /\ Sleep(t, c(done))
           /\ pc' = [pc EXCEPT ![t] = "blocked"]
           /\ UNCHANGED ring
  <2>1. /\ call'[t] = c(done)
        /\ call' = [call EXCEPT ![t] = call'[t]] /\ answer' = [answer EXCEPT ![t] = answer'[t]]
        /\ \A u \in Procs \ {t} : call'[u] = call[u]
    BY <1>2, <1>4 DEF Sleep
  <2>2. /\ \A u \in Procs \ {t} : pc'[u] = pc[u]
        /\ pc'[t] = "blocked" /\ pc' \in [Procs -> PcStates]
    BY <1>2, <1>4 DEF PcStates
  <2>3. CallTyped(call'[t]) /\ call'[t].op = "write" /\ call'[t].file = f
    BY <1>3, <2>1
  <2>4. count[p] = PIPE_SIZE /\ readers[p] > 0 /\ count' = count
    BY <1>4 DEF WriteWaits, ring
  <2>5. NoLostWakeup'
    BY <1>1, <2>1, <2>2, <2>3, <2>4, StillAsleep DEF ends
  <2>6. /\ buf' \in [Pipes -> [0..(PIPE_SIZE - 1) -> Bytes]]
        /\ r' \in [Pipes -> 0..(PIPE_SIZE - 1)] /\ w' \in [Pipes -> 0..(PIPE_SIZE - 1)]
        /\ count' \in [Pipes -> 0..PIPE_SIZE] /\ RingKept'
    BY <1>2, <1>4 DEF ring, PipeInv, RingKept
  <2>7. /\ \A u \in Procs \ {t} : /\ pc'[u] \in {"none", "user"} <=> pc[u] \in {"none", "user"}
                                  /\ pc'[u] = "none" <=> pc[u] = "none"
        /\ \/ pc'[t] = "user" /\ call'[t] = NoCall
           \/ pc'[t] = "blocked" /\ CallTyped(call'[t]) /\ call'[t].file = f
    BY <2>2, <2>3
  <2> HIDE DEF p, n, c
  <2> QED
    BY <2>1, <2>2, <2>5, <2>6, <2>7, TransferStep
<1>5. CASE /\ ~WriteWaits(p) /\ readers[p] = 0
           /\ Done(t, p, "write", IF done > 0 THEN done ELSE -1, <<>>)
           /\ pc' = [pc EXCEPT ![t] = "user"]
           /\ UNCHANGED ring
  <2>1. /\ call'[t] = NoCall
        /\ call' = [call EXCEPT ![t] = call'[t]] /\ answer' = [answer EXCEPT ![t] = answer'[t]]
        /\ \A u \in Procs \ {t} : call'[u] = call[u] /\ pc'[u] = pc[u]
        /\ pc'[t] = "user" /\ pc' \in [Procs -> PcStates]
    BY <1>2, <1>5 DEF PcStates, Done
  <2>2. NoLostWakeup'
    BY <1>1, <1>5, <2>1, StillAsleep DEF ring, ends
  <2>3. /\ buf' \in [Pipes -> [0..(PIPE_SIZE - 1) -> Bytes]]
        /\ r' \in [Pipes -> 0..(PIPE_SIZE - 1)] /\ w' \in [Pipes -> 0..(PIPE_SIZE - 1)]
        /\ count' \in [Pipes -> 0..PIPE_SIZE] /\ RingKept'
    BY <1>2, <1>5 DEF ring, PipeInv, RingKept
  <2>4. \A u \in Procs \ {t} : /\ pc'[u] \in {"none", "user"} <=> pc[u] \in {"none", "user"}
                               /\ pc'[u] = "none" <=> pc[u] = "none"
    BY <2>1
  <2> HIDE DEF p, n, c
  <2> QED
    BY <2>1, <2>2, <2>3, <2>4, TransferStep
<1>6. CASE /\ readers[p] > 0 /\ count[p] < PIPE_SIZE
           /\ buf' = [buf EXCEPT ![p] = [j \in 0..(PIPE_SIZE - 1) |->
                         LET i == (j - w[p]) % PIPE_SIZE IN IF i < n THEN data[done + i + 1] ELSE @[j]]]
           /\ w' = [w EXCEPT ![p] = (@ + n) % PIPE_SIZE]
           /\ count' = [count EXCEPT ![p] = @ + n]
           /\ UNCHANGED r
           /\ IF done + n = Len(data)
              THEN /\ Done(t, p, "write", Len(data), <<>>)
                   /\ pc' = Woken([pc EXCEPT ![t] = "user"], {p})
              ELSE /\ Sleep(t, c(done + n))
                   /\ pc' = [Woken(pc, {p}) EXCEPT ![t] = "blocked"]
  <2>1. /\ count[p] \in Nat /\ count[p] <= PIPE_SIZE
        /\ Len(data) - done \in Nat /\ PIPE_SIZE - count[p] \in Nat
    BY <1>1, <1>2, Constants
  <2>2. /\ n \in Nat /\ n <= Len(data) - done /\ n <= PIPE_SIZE - count[p]
        /\ n = Len(data) - done \/ n = PIPE_SIZE - count[p]
    BY <2>1, MinPair
  <2> HIDE DEF n
  <2>3. /\ w' \in [Pipes -> 0..(PIPE_SIZE - 1)] /\ count' \in [Pipes -> 0..PIPE_SIZE]
        /\ r' \in [Pipes -> 0..(PIPE_SIZE - 1)] /\ count'[p] = count[p] + n
        /\ \A q \in Pipes \ {p} : count'[q] = count[q]
    <3>1. (w[p] + n) % PIPE_SIZE \in 0..(PIPE_SIZE - 1)
      <4>1. w[p] \in 0..(PIPE_SIZE - 1)
        BY <1>1, <1>2
      <4>2. w[p] + n \in Int
        BY <2>2, <4>1
      <4> HIDE DEF p
      <4> QED
        BY ONLY <4>2, InRing
    <3>2. count[p] + n \in 0..PIPE_SIZE
      BY <2>1, <2>2, Constants
    <3>3. /\ w' = [w EXCEPT ![p] = (w[p] + n) % PIPE_SIZE]
          /\ count' = [count EXCEPT ![p] = count[p] + n] /\ r' = r
      BY <1>6
    <3>4. w' \in [Pipes -> 0..(PIPE_SIZE - 1)]
      BY ONLY <1>2, <3>1, <3>3
    <3>5. /\ count' \in [Pipes -> 0..PIPE_SIZE] /\ count'[p] = count[p] + n
          /\ \A q \in Pipes \ {p} : count'[q] = count[q]
      BY ONLY <1>1, <1>2, <3>2, <3>3
    <3> QED
      BY <1>2, <3>3, <3>4, <3>5
  <2>4. buf' \in [Pipes -> [0..(PIPE_SIZE - 1) -> Bytes]]
    <3> DEFINE new == [j \in 0..(PIPE_SIZE - 1) |->
                         LET i == (j - w[p]) % PIPE_SIZE
                         IN IF i < n THEN data[done + i + 1] ELSE buf[p][j]]
    <3>1. ASSUME NEW j \in 0..(PIPE_SIZE - 1) PROVE new[j] \in Bytes
      <4> DEFINE i == (j - w[p]) % PIPE_SIZE
      <4>1. i \in Nat
        <5>1. j - w[p] \in Int
          BY <1>1, <1>2, Constants
        <5>2. i \in 0..(PIPE_SIZE - 1)
          BY <5>1, InRing
        <5> QED
          BY <5>2, Constants
      <4> HIDE DEF i
      <4>2. i < n => done + i + 1 \in 1..Len(data)
        BY <2>2, <4>1
      <4>3. i < n => data[done + i + 1] \in Bytes
        BY <1>1, <4>2
      <4>4. buf[p][j] \in Bytes
        <5>1. buf[p] \in [0..(PIPE_SIZE - 1) -> Bytes]
          BY <1>1, <1>2
        <5> QED
          BY ONLY <5>1, j \in 0..(PIPE_SIZE - 1)
      <4>5. new[j] = IF i < n THEN data[done + i + 1] ELSE buf[p][j]
        BY DEF i
      <4> HIDE DEF new
      <4> QED
        BY <4>3, <4>4, <4>5
    <3>2. new = [j \in 0..(PIPE_SIZE - 1) |-> new[j]]
      OBVIOUS
    <3>3. buf' = [buf EXCEPT ![p] = new]
      BY <1>6
    <3> HIDE DEF new
    <3>4. new \in [0..(PIPE_SIZE - 1) -> Bytes]
      BY <3>1, <3>2
    <3> QED
      BY ONLY <1>2, <3>3, <3>4
  <2>7. RingKept'
    <3>1. /\ r[p] \in 0..(PIPE_SIZE - 1) /\ w[p] = (r[p] + count[p]) % PIPE_SIZE
          /\ r' = r /\ w'[p] = (w[p] + n) % PIPE_SIZE /\ count'[p] = count[p] + n
          /\ \A q \in Pipes \ {p} : w'[q] = w[q] /\ count'[q] = count[q]
      BY <1>1, <1>2, <1>6 DEF PipeInv, RingKept
    <3> HIDE DEF p
    <3>2. (w[p] + n) % PIPE_SIZE = (r[p] + (count[p] + n)) % PIPE_SIZE
      <4>1. count[p] + n <= PIPE_SIZE
        BY <2>1, <2>2, Constants
      <4> QED
        BY <2>1, <2>2, <3>1, <4>1, TwoSteps
    <3> QED
      BY <3>1, <3>2 DEF PipeInv, RingKept
  <2>5. CASE done + n = Len(data)
    <3>1. /\ call'[t] = NoCall
          /\ call' = [call EXCEPT ![t] = call'[t]] /\ answer' = [answer EXCEPT ![t] = answer'[t]]
          /\ \A u \in Procs \ {t} : call'[u] = call[u]
          /\ pc' = Woken([pc EXCEPT ![t] = "user"], {p})
      BY <1>2, <1>6, <2>5 DEF Done
    <3>2. /\ pc' \in [Procs -> PcStates] /\ pc'[t] = "user"
          /\ \A u \in Procs \ {t} :
                /\ pc'[u] \in {"none", "user"} <=> pc[u] \in {"none", "user"}
                /\ pc'[u] = "none" <=> pc[u] = "none"
                /\ pc'[u] = "blocked" => pc[u] = "blocked" /\ call[u].file[1] # p
      BY <1>2, <3>1 DEF Woken, PcStates
    <3>3. NoLostWakeup'
      <4>1. UNCHANGED <<readers, writers>>
        BY DEF ends
      <4>2. \A u \in Procs \ {t} :
               /\ call'[u] = call[u]
               /\ pc'[u] = "blocked" => /\ pc[u] = "blocked"
                                        /\ count'[p] = count[p] \/ call[u].file[1] # p
        BY <3>1, <3>2
      <4>3. pc'[t] # "blocked"
        BY <3>2
      <4> HIDE DEF p, c
      <4> QED
        BY <1>1, <2>3, <4>1, <4>2, <4>3, StillAsleep
    <3> HIDE DEF p, c
    <3> QED
      BY <2>3, <2>4, <2>7, <3>1, <3>2, <3>3, TransferStep
  <2>6. CASE done + n # Len(data)
    <3>1. /\ call'[t] = c(done + n)
          /\ call' = [call EXCEPT ![t] = call'[t]] /\ answer' = [answer EXCEPT ![t] = answer'[t]]
          /\ \A u \in Procs \ {t} : call'[u] = call[u]
          /\ pc' = [Woken(pc, {p}) EXCEPT ![t] = "blocked"]
      BY <1>2, <1>6, <2>6 DEF Sleep
    <3>2. /\ pc' \in [Procs -> PcStates] /\ pc'[t] = "blocked"
          /\ \A u \in Procs \ {t} :
                /\ pc'[u] \in {"none", "user"} <=> pc[u] \in {"none", "user"}
                /\ pc'[u] = "none" <=> pc[u] = "none"
                /\ pc'[u] = "blocked" => pc[u] = "blocked" /\ call[u].file[1] # p
      BY <1>2, <3>1 DEF Woken, PcStates
    <3>3. done + n \in Nat /\ done + n < Len(data) /\ count'[p] = PIPE_SIZE
      BY <2>1, <2>2, <2>3, <2>6, Constants
    <3>4. CallTyped(call'[t]) /\ call'[t].op = "write" /\ call'[t].file = f
      BY <1>3, <3>1, <3>3
    <3>5. NoLostWakeup'
      <4>1. UNCHANGED <<readers, writers>>
        BY DEF ends
      <4>2. \A u \in Procs \ {t} :
               /\ call'[u] = call[u]
               /\ pc'[u] = "blocked" => /\ pc[u] = "blocked"
                                        /\ count'[p] = count[p] \/ call[u].file[1] # p
        BY <3>1, <3>2
      <4>3. /\ call'[t].file[1] = p
            /\ call'[t].op = "write" /\ count'[p] = PIPE_SIZE /\ readers[p] > 0
        BY <1>6, <3>3, <3>4
      <4> HIDE DEF p, c
      <4> QED
        BY <1>1, <2>3, <4>1, <4>2, <4>3, StillAsleep
    <3>6. \/ pc'[t] = "user" /\ call'[t] = NoCall
          \/ pc'[t] = "blocked" /\ CallTyped(call'[t]) /\ call'[t].file = f
      BY <3>2, <3>4
    <3> HIDE DEF p, c
    <3> QED
      BY <2>3, <2>4, <2>7, <3>1, <3>2, <3>5, <3>6, TransferStep
  <2> QED
    BY <2>5, <2>6
<1> QED
  BY <1>4, <1>5, <1>6 DEF PipeWrite

LEMMA ReadStep ==
    ASSUME PipeInv, NEW t \in Procs, NEW d \in Fds, NEW len \in ReadLens, Read(t, d, len)
    PROVE  PipeInv'
<1>1. /\ pc[t] = "user" /\ fds[t][d] \in File
      /\ PipeRead(t, fds[t][d], len) /\ UNCHANGED <<fds, ends, killed>>
  BY DEF Read, AtUser
<1>2. len \in Nat \ {0}
  BY ConstAssumption
<1> QED
  BY <1>1, <1>2, PipeReadGood

LEMMA WriteStep ==
    ASSUME PipeInv, NEW t \in Procs, NEW d \in Fds, NEW data \in Data, Write(t, d, data)
    PROVE  PipeInv'
<1>1. /\ pc[t] = "user" /\ fds[t][d] \in File
      /\ PipeWrite(t, fds[t][d], data, 0) /\ UNCHANGED <<fds, ends, killed>>
  BY DEF Write, AtUser
<1>2. 0 \in Nat /\ 0 < Len(data)
  <2>1. data \in Seq(Bytes) /\ data # <<>>
    BY ConstAssumption
  <2>2. Len(data) \in Nat /\ Len(data) # 0
    BY <2>1
  <2> QED
    BY <2>1, <2>2
<1> QED
  BY <1>1, <1>2, PipeWriteGood

LEMMA ResumeStep ==
    ASSUME PipeInv, NEW t \in Procs, Resume(t)
    PROVE  PipeInv'
<1> DEFINE f == call[t].file
<1>1. pc[t] = "ready" /\ UNCHANGED <<fds, ends, killed>>
  BY DEF Resume
<1>2. CallTyped(call[t]) /\ \E d \in Fds : fds[t][d] = f
  BY <1>1 DEF PipeInv, CallsTyped, CallsNamed
<1>3. f \in File
  BY <1>2 DEF CallTyped
<1> HIDE DEF f
<1>4. CASE call[t].op = "read" /\ PipeRead(t, f, call[t].len)
  <2>1. call[t].len \in Nat \ {0}
    BY <1>2, <1>4 DEF CallTyped
  <2> QED
    BY <1>1, <1>2, <1>3, <1>4, <2>1, PipeReadGood
<1>5. CASE call[t].op = "write" /\ PipeWrite(t, f, call[t].data, call[t].done)
  <2>1. call[t].data \in Data /\ call[t].done \in Nat /\ call[t].done < Len(call[t].data)
    BY <1>2, <1>5 DEF CallTyped
  <2> QED
    BY <1>1, <1>2, <1>3, <1>5, <2>1, PipeWriteGood
<1> QED
  BY <1>4, <1>5 DEF Resume, f

LEMMA SignalStep ==
    ASSUME PipeInv, NEW t \in Procs, NEW fatal \in BOOLEAN, Signal(t, fatal)
    PROVE  PipeInv'
<1>1. /\ pc \in [Procs -> PcStates] /\ killed \in [Procs -> BOOLEAN]
      /\ killed' = [killed EXCEPT ![t] = @ \/ fatal]
      /\ pc' = [pc EXCEPT ![t] = IF @ = "blocked" THEN "ready" ELSE @]
      /\ UNCHANGED <<fds, ends, ring, call, answer>>
  BY DEF Signal, PipeInv, TypeOK, PcStates
<1>2. /\ pc' \in [Procs -> PcStates]
      /\ \A u \in Procs : /\ pc'[u] \in {"none", "user"} <=> pc[u] \in {"none", "user"}
                          /\ pc'[u] = "none" <=> pc[u] = "none"
                          /\ pc'[u] = "blocked" => pc[u] = "blocked"
  BY <1>1 DEF PcStates
<1>3. killed' \in [Procs -> BOOLEAN]
  <2>1. (killed[t] \/ fatal) \in BOOLEAN
    BY Zenon
  <2> QED
    BY ONLY <1>1, <2>1
<1>4. NoLostWakeup'
  BY <1>1, <1>2 DEF PipeInv, NoLostWakeup, ring, ends
<1>5. SlotsEmpty' /\ RefsAreDescriptors' /\ EndsAreReachable'
  BY <1>1, <1>2 DEF PipeInv, SlotsEmpty, RefsAreDescriptors, EndsAreReachable, ends
<1>6. /\ fds' \in [Procs -> [Fds -> File \cup {NoFile, Console}]]
      /\ ref' \in [File -> Nat] /\ live' \subseteq Pipes
      /\ readers' \in [Pipes -> 0..1] /\ writers' \in [Pipes -> 0..1]
      /\ answer' = [u \in Procs |-> answer'[u]]
  BY <1>1 DEF PipeInv, TypeOK, Tables, ends
<1> QED
  BY <1>1, <1>2, <1>3, <1>4, <1>5, <1>6, DescriptorStep

LEMMA PipeMakeUndoneStep ==
    ASSUME PipeInv, NEW t \in Procs, PipeMakeUndone(t)
    PROVE  PipeInv'
<1>1. /\ UNCHANGED <<fds, ends, pc, ring, call, killed>> /\ answer' = [u \in Procs |-> answer'[u]]
  BY DEF PipeMakeUndone, PipeInv, Tables
<1>2. TypeOK' /\ CallsTyped' /\ CallsNamed' /\ SlotsEmpty' /\ RingKept'
  BY <1>1 DEF ring, ends, PipeInv, TypeOK, CallsTyped, CallsNamed, SlotsEmpty, RingKept
<1>3. RefsAreDescriptors' /\ EndsAreReachable' /\ NoLostWakeup'
  BY <1>1 DEF ring, ends, PipeInv, RefsAreDescriptors, EndsAreReachable, NoLostWakeup
<1> QED
  BY <1>1, <1>2, <1>3 DEF PipeInv, Tables

LEMMA NextInv == PipeInv /\ [Next]_vars => PipeInv'
<1> SUFFICES ASSUME PipeInv, [Next]_vars PROVE PipeInv'
  OBVIOUS
<1>1. ASSUME NEW t \in Procs, NEW p \in Pipes, PipeMake(t, p) PROVE PipeInv'
  BY <1>1, PipeMakeStep
<1>2. ASSUME NEW t \in Procs, PipeMakeUndone(t) PROVE PipeInv'
  BY <1>2, PipeMakeUndoneStep
<1>3. ASSUME NEW t \in Procs, NEW d \in Fds, Close(t, d) PROVE PipeInv'
  BY <1>3, CloseStep
<1>4. ASSUME NEW t \in Procs, NEW o \in Fds, NEW n \in Fds, Dup2(t, o, n) PROVE PipeInv'
  BY <1>4, Dup2Step
<1>5. ASSUME NEW t \in Procs, NEW o \in Fds, NEW n \in Fds, DupFd(t, o, n) PROVE PipeInv'
  BY <1>5, DupFdStep
<1>6. ASSUME NEW t \in Procs, NEW c \in Procs, Fork(t, c) PROVE PipeInv'
  BY <1>6, ForkStep
<1>7. ASSUME NEW t \in Procs, NEW d \in Fds, NEW len \in ReadLens, Read(t, d, len) PROVE PipeInv'
  BY <1>7, ReadStep
<1>8. ASSUME NEW t \in Procs, NEW d \in Fds, NEW data \in Data, Write(t, d, data) PROVE PipeInv'
  BY <1>8, WriteStep
<1>9. ASSUME NEW t \in Procs, Resume(t) PROVE PipeInv'
  BY <1>9, ResumeStep
<1>10. ASSUME NEW t \in Procs, Exit(t) PROVE PipeInv'
  BY <1>10, ExitStep
<1>11. ASSUME NEW t \in Procs, NEW fatal \in BOOLEAN, Signal(t, fatal) PROVE PipeInv'
  BY <1>11, SignalStep
<1>12. CASE UNCHANGED vars
  <2>1. /\ TypeOK' /\ Tables' /\ CallsTyped' /\ CallsNamed' /\ SlotsEmpty' /\ RingKept'
    BY <1>12 DEF vars, ring, ends, PipeInv, TypeOK, Tables, CallsTyped, CallsNamed, SlotsEmpty,
                 RingKept
  <2>2. RefsAreDescriptors' /\ EndsAreReachable' /\ NoLostWakeup'
    BY <1>12 DEF vars, ring, ends, PipeInv, RefsAreDescriptors, EndsAreReachable, NoLostWakeup
  <2> QED
    BY <2>1, <2>2 DEF PipeInv
<1> QED
  BY <1>1, <1>2, <1>3, <1>4, <1>5, <1>6, <1>7, <1>8, <1>9, <1>10, <1>11, <1>12 DEF Next

----------------------------------------------------------------------------
(* The theorems.                                                           *)

\* Whatever processes do with pipes and descriptors, the counts of ends are the
\* numbers of descriptors that name them, and the tables stay well formed
\* (pipe.c, and the descriptor calls of syscall.c).
THEOREM Invariance == Spec => []PipeInv
  BY InitInv, NextInv, PTL DEF Spec

\* Every variable keeps its type, whatever the processes call.
THEOREM TypeCorrect == Spec => []TypeOK
<1>1. PipeInv => TypeOK
  BY DEF PipeInv
<1> QED
  BY <1>1, Invariance, PTL

\* A struct file counts the descriptors that name it: pipe, close, dup2,
\* F_DUPFD, fork and exit never leak a reference nor drop one twice.
THEOREM RefsAreDescriptorsAlways == Spec => []RefsAreDescriptors
<1>1. PipeInv => RefsAreDescriptors
  BY DEF PipeInv
<1> QED
  BY <1>1, Invariance, PTL

\* A pipe is freed with its last descriptor, and its reader and writer counts
\* tell which ends are still open.
THEOREM EndsAreReachableAlways == Spec => []EndsAreReachable
<1>1. PipeInv => EndsAreReachable
  BY DEF PipeInv
<1> QED
  BY <1>1, Invariance, PTL

\* pipe_read and pipe_write come back from sched_block to a pipe that is
\* still allocated.
THEOREM CallHoldsPipeAlways == Spec => []CallHoldsPipe
  BY Invariance, HoldsPipe, PTL

\* A process asleep in pipe_read or pipe_write has nothing to do there.
THEOREM NoLostWakeupAlways == Spec => []NoLostWakeup
<1>1. PipeInv => NoLostWakeup
  BY DEF PipeInv
<1> QED
  BY <1>1, Invariance, PTL

----------------------------------------------------------------------------
(* A pipe is a bounded FIFO: the ring.                                     *)

\* The c bytes of ring b from index i on.
Unread(b, i, c) == [k \in 1..c |-> b[(i + k - 1) % PIPE_SIZE]]

Rings == [0..(PIPE_SIZE - 1) -> Bytes]

LEMMA UnreadSeq ==
    ASSUME NEW b \in Rings, NEW i \in 0..(PIPE_SIZE - 1), NEW c \in Nat
    PROVE  /\ Unread(b, i, c) \in Seq(Bytes) /\ Len(Unread(b, i, c)) = c
           /\ \A k \in 1..c : Unread(b, i, c)[k] = b[(i + k - 1) % PIPE_SIZE]
<1>1. ASSUME NEW k \in 1..c PROVE b[(i + k - 1) % PIPE_SIZE] \in Bytes
  <2>1. i + k - 1 \in Int
    BY Constants
  <2>2. (i + k - 1) % PIPE_SIZE \in 0..(PIPE_SIZE - 1)
    BY ONLY <2>1, InRing
  <2> QED
    BY <2>2 DEF Rings
<1>2. Unread(b, i, c) \in [1..c -> Bytes]
  BY <1>1 DEF Unread
<1>3. Unread(b, i, c) \in Seq(Bytes) /\ Len(Unread(b, i, c)) = c
  BY <1>2
<1> QED
  BY <1>3 DEF Unread

\* Moving the read index over n bytes takes them from the front.
LEMMA DropFront ==
    ASSUME NEW b \in Rings, NEW i \in 0..(PIPE_SIZE - 1), NEW c \in 0..PIPE_SIZE, NEW n \in 0..c
    PROVE  Unread(b, (i + n) % PIPE_SIZE, c - n) = SubSeq(Unread(b, i, c), n + 1, c)
<1> DEFINE s == Unread(b, i, c)
           j == (i + n) % PIPE_SIZE
           u == Unread(b, j, c - n)
           v == SubSeq(s, n + 1, c)
<1>1. /\ s \in Seq(Bytes) /\ Len(s) = c
      /\ \A k \in 1..c : s[k] = b[(i + k - 1) % PIPE_SIZE] /\ s[k] \in Bytes
  BY UnreadSeq, ElementOfSeq, Constants
<1>2. i + n \in Int /\ j \in 0..(PIPE_SIZE - 1)
  <2>1. i + n \in Int
    BY Constants
  <2> QED
    BY <2>1, InRing
<1> HIDE DEF j, s
<1>3. /\ u \in Seq(Bytes) /\ Len(u) = c - n
      /\ \A k \in 1..(c - n) : u[k] = b[(j + k - 1) % PIPE_SIZE]
  BY <1>2, UnreadSeq, Constants
<1>4. /\ v \in Seq(Bytes) /\ Len(v) = c - n
      /\ \A k \in 1..(c - n) : v[k] = s[n + k]
  <2>1. n + 1 \in Int /\ c \in Int /\ \A k \in (n + 1)..c : s[k] \in Bytes
    BY <1>1, Constants
  <2>2. /\ v \in Seq(Bytes) /\ Len(v) = (IF n + 1 <= c THEN c - (n + 1) + 1 ELSE 0)
        /\ \A k \in 1..(c - (n + 1) + 1) : v[k] = s[(n + 1) + k - 1]
    BY ONLY <2>1, SubSeqProperties
  <2>3. c - (n + 1) + 1 = c - n /\ \A k \in 1..(c - n) : (n + 1) + k - 1 = n + k
    BY Constants
  <2> HIDE DEF v
  <2> QED
    BY <2>2, <2>3, Constants
<1>5. ASSUME NEW k \in 1..(c - n) PROVE u[k] = v[k]
  <2>1. (j + (k - 1)) % PIPE_SIZE = (i + (n + (k - 1))) % PIPE_SIZE
    <3>1. k - 1 \in Nat /\ n \in Nat /\ n + (k - 1) <= PIPE_SIZE
      BY Constants
    <3> QED
      BY <3>1, TwoSteps DEF j
  <2>2. j + k - 1 = j + (k - 1) /\ i + (n + k) - 1 = i + (n + (k - 1)) /\ n + k \in 1..c
    BY <1>2, Constants
  <2> HIDE DEF u, v
  <2>3. u[k] = b[(j + k - 1) % PIPE_SIZE] /\ v[k] = s[n + k]
    BY ONLY <1>3, <1>4, k \in 1..(c - n)
  <2>4. s[n + k] = b[(i + (n + k) - 1) % PIPE_SIZE]
    BY ONLY <1>1, <2>2
  <2> QED
    BY ONLY <2>1, <2>2, <2>3, <2>4
<1> HIDE DEF u, v
<1>6. u = v
  BY <1>3, <1>4, <1>5, SeqEqual
<1> QED
  BY <1>6 DEF u, v, j, s

\* What pipe_read copies out is the front.
LEMMA TakeFront ==
    ASSUME NEW b \in Rings, NEW i \in 0..(PIPE_SIZE - 1), NEW c \in Nat, NEW n \in 0..c
    PROVE  SubSeq(Unread(b, i, c), 1, n) = Unread(b, i, n)
<1> DEFINE s == Unread(b, i, c)
           u == Unread(b, i, n)
           v == SubSeq(s, 1, n)
<1>1. /\ s \in Seq(Bytes) /\ Len(s) = c
      /\ \A k \in 1..c : s[k] = b[(i + k - 1) % PIPE_SIZE] /\ s[k] \in Bytes
  BY UnreadSeq, ElementOfSeq
<1>2. /\ u \in Seq(Bytes) /\ Len(u) = n
      /\ \A k \in 1..n : u[k] = b[(i + k - 1) % PIPE_SIZE]
  BY UnreadSeq
<1> HIDE DEF s
<1>3. /\ v \in Seq(Bytes) /\ Len(v) = n /\ \A k \in 1..n : v[k] = s[k]
  <2>1. 1 \in Int /\ n \in Int /\ \A k \in 1..n : s[k] \in Bytes
    BY <1>1
  <2>2. /\ v \in Seq(Bytes) /\ Len(v) = (IF 1 <= n THEN n - 1 + 1 ELSE 0)
        /\ \A k \in 1..(n - 1 + 1) : v[k] = s[1 + k - 1]
    BY ONLY <2>1, SubSeqProperties
  <2>3. n - 1 + 1 = n /\ \A k \in 1..n : 1 + k - 1 = k
    OBVIOUS
  <2> HIDE DEF v
  <2> QED
    BY <2>2, <2>3
<1> HIDE DEF u, v
<1>4. \A k \in 1..n : u[k] = v[k]
  BY <1>1, <1>2, <1>3
<1>5. u = v
  BY <1>2, <1>3, <1>4, SeqEqual
<1> QED
  BY <1>5 DEF u, v, s

\* Ring b2 is b with the bytes bs written from index j on.
Written(b, b2, j, bs) ==
    \A x \in 0..(PIPE_SIZE - 1) :
       b2[x] = IF (x - j) % PIPE_SIZE < Len(bs) THEN bs[((x - j) % PIPE_SIZE) + 1] ELSE b[x]

\* Bytes written behind the unread ones come after them.
LEMMA PutBack ==
    ASSUME NEW b \in Rings, NEW b2 \in Rings, NEW i \in 0..(PIPE_SIZE - 1),
           NEW c \in 0..PIPE_SIZE, NEW bs \in Seq(Bytes), Len(bs) \in 0..(PIPE_SIZE - c),
           Written(b, b2, (i + c) % PIPE_SIZE, bs)
    PROVE  Unread(b2, i, c + Len(bs)) = Unread(b, i, c) \o bs
<1> DEFINE n == Len(bs)
           j == (i + c) % PIPE_SIZE
<1> n \in 0..(PIPE_SIZE - c) /\ n = Len(bs)
  OBVIOUS
<1> j \in 0..(PIPE_SIZE - 1) /\ j = (i + c) % PIPE_SIZE
  <2>1. i + c \in Int
    BY Constants
  <2>2. (i + c) % PIPE_SIZE \in 0..(PIPE_SIZE - 1)
    BY ONLY <2>1, InRing
  <2> QED
    BY <2>2
<1> Written(b, b2, j, bs)
  OBVIOUS
<1> HIDE DEF n, j
<1> DEFINE s == Unread(b, i, c)
           u == Unread(b2, i, c + n)
           v == s \o bs
<1>1. /\ s \in Seq(Bytes) /\ Len(s) = c
      /\ \A k \in 1..c : s[k] = b[(i + k - 1) % PIPE_SIZE]
  <2>1. c \in Nat
    BY Constants
  <2>2. i \in 0..(PIPE_SIZE - 1) /\ b \in Rings
    OBVIOUS
  <2> QED
    BY ONLY <2>1, <2>2, UnreadSeq
<1>2. /\ u \in Seq(Bytes) /\ Len(u) = c + n
      /\ \A k \in 1..(c + n) : u[k] = b2[(i + k - 1) % PIPE_SIZE]
  <2>1. c + n \in Nat
    BY Constants
  <2> QED
    BY <2>1, UnreadSeq
<1> HIDE DEF s, u
<1>3. /\ v \in Seq(Bytes) /\ Len(v) = c + n
      /\ \A k \in 1..(c + n) : v[k] = IF k <= c THEN s[k] ELSE bs[k - c]
  BY <1>1, ConcatProperties
<1> HIDE DEF v
<1>4. ASSUME NEW k \in 1..(c + n) PROVE u[k] = v[k]
  <2> DEFINE x == (i + k - 1) % PIPE_SIZE
             d == (x - j) % PIPE_SIZE
  <2>1. k - 1 \in 0..PIPE_SIZE /\ k \in Int /\ n \in Int /\ c \in Int /\ i \in Int
    BY Constants
  <2>2. x = IF i + (k - 1) < PIPE_SIZE THEN i + (k - 1) ELSE i + (k - 1) - PIPE_SIZE
    <3>1. x = (i + (k - 1)) % PIPE_SIZE
      <4>1. i + k - 1 = i + (k - 1)
        BY <2>1
      <4> QED
        BY <4>1
    <3>2. (i + (k - 1)) % PIPE_SIZE
             = IF i + (k - 1) < PIPE_SIZE THEN i + (k - 1) ELSE i + (k - 1) - PIPE_SIZE
      BY <2>1, WrapSum
    <3> QED
      BY ONLY <3>1, <3>2
  <2>3. j = IF i + c < PIPE_SIZE THEN i + c ELSE i + c - PIPE_SIZE
    BY WrapSum
  <2> HIDE DEF x
  <2>4. x \in 0..(PIPE_SIZE - 1)
    BY <2>1, <2>2, Constants
  <2>5. d = IF x >= j THEN x - j ELSE x - j + PIPE_SIZE
    BY <2>4, Distance
  <2>8. b2[x] = IF d < n THEN bs[d + 1] ELSE b[x]
    BY <2>4 DEF Written
  <2> HIDE DEF d
  <2>6. CASE k <= c
    <3>1. d >= n
      BY <2>1, <2>2, <2>3, <2>5, <2>6, Constants
    <3>2. b2[x] = b[x]
      <4>1. d \in Int /\ n \in Int
        BY <2>4, <2>5, Constants
      <4>2. ~(d < n)
        BY ONLY <3>1, <4>1
      <4> QED
        BY ONLY <2>8, <4>2
    <3>3. k \in 1..c
      BY <2>6
    <3> QED
      BY <1>1, <1>2, <1>3, <2>6, <3>2, <3>3 DEF x
  <2>7. CASE ~(k <= c)
    <3>1. d = k - c - 1 /\ d < n
      BY <2>1, <2>2, <2>3, <2>5, <2>7, Constants
    <3>2. b2[x] = bs[d + 1]
      BY ONLY <2>8, <3>1
    <3>3. d + 1 = k - c
      BY <3>1, Constants
    <3> QED
      BY <1>2, <1>3, <2>7, <3>2, <3>3 DEF x
  <2> QED
    BY <2>6, <2>7
<1>5. u = v
  BY <1>2, <1>3, <1>4, SeqEqual
<1> QED
  BY <1>5 DEF u, v, s, n

----------------------------------------------------------------------------
(* A pipe is a bounded FIFO: the steps.                                    *)

NoAnswer == [op |-> "none", n |-> 0, bytes |-> <<>>]

\* An answer is seen on the pipe it came from and as none on the others.
LEMMA AnswerHere ==
    ASSUME PipeInv, NEW t \in Procs, NEW a, answer' = [answer EXCEPT ![t] = a]
    PROVE  AnswerOf(a.pipe)' = [AnswerOf(a.pipe) EXCEPT
                                  ![t] = [op |-> a.op, n |-> a.n, bytes |-> a.bytes]]
<1>1. answer = [u \in Procs |-> answer[u]]
  BY DEF PipeInv, Tables
<1>2. answer'[t] = a /\ \A u \in Procs \ {t} : answer'[u] = answer[u]
  BY <1>1
<1> QED
  BY <1>1, <1>2 DEF AnswerOf

LEMMA AnswerElsewhere ==
    ASSUME PipeInv, NEW t \in Procs, NEW a, answer' = [answer EXCEPT ![t] = a],
           NEW q, a = None \/ a.pipe # q
    PROVE  AnswerOf(q)' = [AnswerOf(q) EXCEPT ![t] = NoAnswer]
<1>1. answer = [u \in Procs |-> answer[u]] /\ None.pipe = NoFile
      /\ [op |-> None.op, n |-> None.n, bytes |-> None.bytes] = NoAnswer
  BY DEF PipeInv, Tables, None, Answer, NoAnswer
<1>2. answer'[t] = a /\ \A u \in Procs \ {t} : answer'[u] = answer[u]
  BY <1>1
<1> QED
  BY <1>1, <1>2 DEF AnswerOf

\* A call that leaves pipe q alone is, for q, at most the start of a call.
LEMMA AsForget ==
    ASSUME PipeInv, NEW t \in Procs, NEW a, answer' = [answer EXCEPT ![t] = a],
           NEW q \in Pipes, a = None \/ a.pipe # q,
           q \in live' <=> q \in live, readers'[q] = readers[q], writers'[q] = writers[q],
           buf'[q] = buf[q], r'[q] = r[q], count'[q] = count[q]
    PROVE  Stream(q)!Next
<1>1. Content(q)' = Content(q)
  BY DEF Content, At
<1>2. AnswerOf(q)' = [AnswerOf(q) EXCEPT ![t] = NoAnswer]
  <2>1. PipeInv /\ t \in Procs /\ q \in Pipes
        /\ answer' = [answer EXCEPT ![t] = a] /\ (a = None \/ a.pipe # q)
    OBVIOUS
  <2> QED
    BY ONLY <2>1, AnswerElsewhere
<1>3. Stream(q)!Forget(t)
  BY <1>1, <1>2 DEF Stream!Forget, Stream!None, NoAnswer
<1> QED
  BY <1>3 DEF Stream!Next

\* Closing descriptors closes ends, and the last one loses the bytes.
LEMMA AsCloseEnds ==
    ASSUME PipeInv, NEW t \in Procs, answer' = [answer EXCEPT ![t] = None],
           NEW q \in Pipes, UNCHANGED ring, live' \subseteq live,
           readers'[q] \in 0..1, writers'[q] \in 0..1,
           readers'[q] > 0 => readers[q] > 0, writers'[q] > 0 => writers[q] > 0,
           q \in live' <=> readers'[q] + writers'[q] > 0
    PROVE  Stream(q)!Next
<1>1. q \in live' <=> \/ q \in live' /\ readers'[q] > 0
                      \/ q \in live' /\ writers'[q] > 0
  OBVIOUS
<1>2. Content(q)' = IF (q \in live' /\ readers'[q] > 0) \/ (q \in live' /\ writers'[q] > 0)
                    THEN Content(q) ELSE <<>>
  BY <1>1 DEF Content, At, ring
<1>3. AnswerOf(q)' = [AnswerOf(q) EXCEPT ![t] = NoAnswer]
  BY AnswerElsewhere
<1>4. Stream(q)!CloseEnds
  <2>1. /\ (q \in live' /\ readers'[q] > 0) \in BOOLEAN
        /\ (q \in live' /\ writers'[q] > 0) \in BOOLEAN
        /\ q \in live' /\ readers'[q] > 0 => q \in live /\ readers[q] > 0
        /\ q \in live' /\ writers'[q] > 0 => q \in live /\ writers[q] > 0
    OBVIOUS
  <2> QED
    BY <1>2, <1>3, <2>1 DEF Stream!CloseEnds, Stream!None, NoAnswer
<1> QED
  BY <1>4 DEF Stream!Next

\* Of the ends of a pipe, vfs_close only takes some away.
LEMMA CloseShrinks ==
    ASSUME PipeInv, NEW newRef, NEW at, VfsClose(newRef, at), NEW q \in Pipes
    PROVE  /\ live' \subseteq live
           /\ readers'[q] > 0 => readers[q] > 0
           /\ writers'[q] > 0 => writers[q] > 0
<1>1. readers[q] \in 0..1 /\ writers[q] \in 0..1
  BY DEF PipeInv, TypeOK
<1>2. /\ readers'[q] = readers[q] \/ readers'[q] = readers[q] - 1
      /\ writers'[q] = writers[q] \/ writers'[q] = writers[q] - 1
  BY DEF VfsClose
<1>3. live' \subseteq live
  BY DEF VfsClose
<1> QED
  BY <1>1, <1>2, <1>3

\* What the stretch of a call on live pipe p does to the pipes.
LEMMA ReadChannel ==
    ASSUME PipeInv, NEW t \in Procs, NEW f \in File, f[1] \in live,
           NEW len \in Nat \ {0}, PipeRead(t, f, len), UNCHANGED <<fds, ends, killed>>,
           NEW q \in Pipes
    PROVE  Stream(q)!Next
<1> DEFINE p == f[1]
           n == Min({len, count[p]})
<1>1. /\ p \in Pipes /\ p \in live /\ UNCHANGED <<live, readers, writers>>
      /\ buf \in [Pipes -> Rings] /\ r \in [Pipes -> 0..(PIPE_SIZE - 1)]
      /\ count \in [Pipes -> 0..PIPE_SIZE] /\ writers[p] \in 0..1
  BY Files DEF ends, PipeInv, TypeOK, Rings
<1>2. CASE /\ ReadWaits(p)
           /\ Sleep(t, [op |-> "read", file |-> f, len |-> len, data |-> <<>>, done |-> 0])
           /\ UNCHANGED ring
  <2>1. /\ answer' = [answer EXCEPT ![t] = None]
        /\ buf'[q] = buf[q] /\ r'[q] = r[q] /\ count'[q] = count[q]
    BY <1>2 DEF Sleep, ring
  <2> QED
    BY <1>1, <2>1, AsForget
<1>3. CASE /\ ~ReadWaits(p) /\ count[p] = 0
           /\ Done(t, p, "read", 0, <<>>)
           /\ UNCHANGED ring
  <2> DEFINE a == Answer(p, "read", 0, <<>>)
  <2>1. /\ answer' = [answer EXCEPT ![t] = a] /\ a.pipe = p
        /\ a.op = "read" /\ a.n = 0 /\ a.bytes = <<>>
        /\ buf'[q] = buf[q] /\ r'[q] = r[q] /\ count'[q] = count[q]
    BY <1>3 DEF Done, ring, Answer
  <2> HIDE DEF a
  <2>2. CASE q # p
    BY <1>1, <2>1, <2>2, AsForget
  <2>3. CASE q = p
    <3>1. AnswerOf(q)' = [AnswerOf(q) EXCEPT ![t] = [op |-> "read", n |-> 0, bytes |-> <<>>]]
      <4> HIDE DEF p, n
      <4>1. q = a.pipe /\ answer' = [answer EXCEPT ![t] = a]
        BY <2>1, <2>3
      <4>2. AnswerOf(a.pipe)' = [AnswerOf(a.pipe) EXCEPT
                                   ![t] = [op |-> a.op, n |-> a.n, bytes |-> a.bytes]]
        BY <4>1, AnswerHere
      <4> QED
        BY <2>1, <4>1, <4>2
    <3>2. Content(q)' = Content(q)
      BY <1>1, <2>1 DEF Content, At
    <3>3. Content(q) = <<>> /\ ~(writers[q] > 0)
      BY <1>1, <1>3, <2>3 DEF Content, ReadWaits
    <3>4. Stream(q)!EndOfStream(t)
      BY <1>1, <3>1, <3>2, <3>3 DEF Stream!EndOfStream
    <3> QED
      BY <3>4 DEF Stream!Next
  <2> QED
    BY <2>2, <2>3
<1>4. CASE /\ count[p] > 0
           /\ Done(t, p, "read", n, [i \in 1..n |-> At(p, i)])
           /\ r' = [r EXCEPT ![p] = (@ + n) % PIPE_SIZE]
           /\ count' = [count EXCEPT ![p] = @ - n]
           /\ UNCHANGED <<buf, w>>
  <2> DEFINE bs == [i \in 1..n |-> At(p, i)]
             a == Answer(p, "read", n, bs)
  <2>1. count[p] \in 0..PIPE_SIZE /\ count[p] \in Nat /\ count[p] # 0
    BY <1>1, <1>4, Constants
  <2>2. n \in Nat /\ n <= count[p] /\ n # 0
    BY <2>1, MinPair
  <2>3. n \in 0..count[p] /\ n \in 1..PIPE_SIZE
    BY <2>1, <2>2, Constants
  <2>4. bs = Unread(buf[p], r[p], n)
    BY DEF At, Unread
  <2> HIDE DEF n, bs
  <2>5. /\ answer' = [answer EXCEPT ![t] = a] /\ a.pipe = p
        /\ a.op = "read" /\ a.n = n /\ a.bytes = bs
        /\ buf' = buf /\ r' = [r EXCEPT ![p] = (r[p] + n) % PIPE_SIZE]
        /\ count' = [count EXCEPT ![p] = count[p] - n]
    BY <1>4 DEF Done, Answer, n, bs
  <2> HIDE DEF a
  <2>6. CASE q # p
    <3>1. buf'[q] = buf[q] /\ r'[q] = r[q] /\ count'[q] = count[q]
      BY <1>1, <2>5, <2>6
    <3> QED
      BY <1>1, <2>5, <2>6, <3>1, AsForget
  <2>7. CASE q = p
    <3>1. /\ Content(q) = Unread(buf[p], r[p], count[p])
          /\ Content(q)' = Unread(buf[p], (r[p] + n) % PIPE_SIZE, count[p] - n)
      BY <1>1, <2>5, <2>7 DEF Content, At, Unread
    <3>2. /\ buf[p] \in Rings /\ r[p] \in 0..(PIPE_SIZE - 1) /\ Len(Content(q)) = count[p]
          /\ SubSeq(Content(q), 1, n) = bs
          /\ Content(q)' = SubSeq(Content(q), n + 1, Len(Content(q)))
      <4>1. buf[p] \in Rings /\ r[p] \in 0..(PIPE_SIZE - 1)
        BY <1>1
      <4> HIDE DEF p
      <4>2. Len(Content(q)) = count[p]
        BY <2>1, <3>1, <4>1, UnreadSeq
      <4>3. SubSeq(Content(q), 1, n) = bs
        <5>1. SubSeq(Unread(buf[p], r[p], count[p]), 1, n) = Unread(buf[p], r[p], n)
          BY ONLY <2>1, <2>3, <4>1, TakeFront
        <5> QED
          BY ONLY <2>4, <3>1, <5>1
      <4>4. Content(q)' = SubSeq(Content(q), n + 1, count[p])
        BY <2>1, <2>3, <3>1, <4>1, DropFront
      <4> QED
        BY ONLY <4>1, <4>2, <4>3, <4>4
    <3>3. AnswerOf(q)' = [AnswerOf(q) EXCEPT ![t] = [op |-> "read", n |-> n, bytes |-> bs]]
      <4>1. AnswerOf(q)' = [AnswerOf(q) EXCEPT ![t] = [op |-> a.op, n |-> a.n, bytes |-> a.bytes]]
        BY <2>5, <2>7, AnswerHere
      <4> QED
        BY <2>5, <4>1
    <3>4. Stream(q)!Get(t, n)
      BY <1>1, <2>2, <3>2, <3>3 DEF Stream!Get
    <3> QED
      BY <2>3, <3>4 DEF Stream!Next
  <2> QED
    BY <2>6, <2>7
<1> QED
  BY <1>2, <1>3, <1>4 DEF PipeRead

\* The longest write, as Pipe's instance of Channel names it.
Longest == Max({Len(d) : d \in Data})

LEMMA LongestWrite ==
    ASSUME NEW data \in Data
    PROVE  Len(data) \in 1..Longest /\ Longest \in Nat
<1> DEFINE L == {Len(d) : d \in Data}
<1>1. \E m \in L : \A n \in L : m >= n
  <2>1. PICK longest \in Data : \A d \in Data : Len(d) <= Len(longest)
    BY ConstAssumption
  <2>2. \A d \in Data : Len(d) \in Nat
    BY ConstAssumption
  <2> QED
    BY <2>1, <2>2
<1>2. Longest \in L /\ \A n \in L : Longest >= n
  BY <1>1 DEF Max, Longest
<1>3. \A n \in L : n \in Nat
  BY ConstAssumption
<1>4. Len(data) \in L /\ Len(data) # 0
  BY ConstAssumption
<1> QED
  BY <1>2, <1>3, <1>4

LEMMA WriteChannel ==
    ASSUME PipeInv, NEW t \in Procs, NEW f \in File, f[1] \in live,
           NEW data \in Data, NEW done \in Nat, done < Len(data),
           PipeWrite(t, f, data, done), UNCHANGED <<fds, ends, killed>>,
           NEW q \in Pipes
    PROVE  Stream(q)!Next
<1> DEFINE p == f[1]
           n == Min({Len(data) - done, PIPE_SIZE - count[p]})
           c(k) == [op |-> "write", file |-> f, len |-> Len(data), data |-> data, done |-> k]
<1>1. /\ p \in Pipes /\ p \in live /\ UNCHANGED <<live, readers, writers>>
      /\ buf \in [Pipes -> Rings] /\ r \in [Pipes -> 0..(PIPE_SIZE - 1)]
      /\ w \in [Pipes -> 0..(PIPE_SIZE - 1)] /\ w[p] = (r[p] + count[p]) % PIPE_SIZE
      /\ count \in [Pipes -> 0..PIPE_SIZE] /\ readers[p] \in 0..1
  BY Files DEF ends, PipeInv, TypeOK, Rings, RingKept
<1>2. Len(data) \in 1..Longest /\ Longest \in Nat /\ data \in Seq(Bytes) /\ Len(data) \in Nat
  BY LongestWrite, ConstAssumption
<1>3. CASE /\ WriteWaits(p)
           /\ Sleep(t, c(done))
           /\ UNCHANGED ring
  <2>1. /\ answer' = [answer EXCEPT ![t] = None]
        /\ buf'[q] = buf[q] /\ r'[q] = r[q] /\ count'[q] = count[q]
    BY <1>3 DEF Sleep, ring
  <2> QED
    BY <1>1, <2>1, AsForget
<1>4. CASE /\ ~WriteWaits(p) /\ readers[p] = 0
           /\ Done(t, p, "write", IF done > 0 THEN done ELSE -1, <<>>)
           /\ UNCHANGED ring
  <2> DEFINE m == IF done > 0 THEN done ELSE -1
             a == Answer(p, "write", m, <<>>)
  <2>1. m \in {-1} \cup 1..Longest
    BY <1>2
  <2> HIDE DEF m
  <2>2. /\ answer' = [answer EXCEPT ![t] = a] /\ a.pipe = p
        /\ a.op = "write" /\ a.n = m /\ a.bytes = <<>>
        /\ buf'[q] = buf[q] /\ r'[q] = r[q] /\ count'[q] = count[q]
    BY <1>4 DEF Done, ring, Answer, m
  <2> HIDE DEF a
  <2>3. CASE q # p
    BY <1>1, <2>2, <2>3, AsForget
  <2>4. CASE q = p
    <3>1. AnswerOf(q)' = [AnswerOf(q) EXCEPT ![t] = [op |-> "write", n |-> m, bytes |-> <<>>]]
      <4> HIDE DEF p, n
      <4>1. q = a.pipe /\ answer' = [answer EXCEPT ![t] = a]
        BY <2>2, <2>4
      <4>2. AnswerOf(a.pipe)' = [AnswerOf(a.pipe) EXCEPT
                                   ![t] = [op |-> a.op, n |-> a.n, bytes |-> a.bytes]]
        BY <4>1, AnswerHere
      <4> QED
        BY <2>2, <4>1, <4>2
    <3>2. Content(q)' = Content(q)
      BY <1>1, <2>2 DEF Content, At
    <3>3. ~(readers[q] > 0)
      BY <1>4, <2>4
    <3>4. Stream(q)!Broken(t, m)
      BY <1>1, <3>1, <3>2, <3>3 DEF Stream!Broken
    <3> QED
      BY <2>1, <3>4 DEF Stream!Next, Longest
  <2> QED
    BY <2>3, <2>4
<1>5. CASE /\ readers[p] > 0 /\ count[p] < PIPE_SIZE
           /\ buf' = [buf EXCEPT ![p] = [j \in 0..(PIPE_SIZE - 1) |->
                         LET i == (j - w[p]) % PIPE_SIZE IN IF i < n THEN data[done + i + 1] ELSE @[j]]]
           /\ count' = [count EXCEPT ![p] = @ + n]
           /\ UNCHANGED r
           /\ IF done + n = Len(data)
              THEN Done(t, p, "write", Len(data), <<>>)
              ELSE Sleep(t, c(done + n))
  <2> DEFINE bs == [k \in 1..n |-> data[done + k]]
             b2 == [j \in 0..(PIPE_SIZE - 1) |->
                      LET i == (j - w[p]) % PIPE_SIZE
                      IN IF i < n THEN data[done + i + 1] ELSE buf[p][j]]
  <2>1. /\ count[p] \in 0..PIPE_SIZE /\ count[p] \in Nat /\ count[p] < PIPE_SIZE
        /\ Len(data) - done \in Nat \ {0} /\ PIPE_SIZE - count[p] \in Nat \ {0}
    <3>1. count[p] \in 0..PIPE_SIZE /\ count[p] < PIPE_SIZE
      BY <1>1, <1>5
    <3>2. Len(data) - done \in Nat \ {0}
      BY <1>2
    <3> HIDE DEF p
    <3> QED
      BY <3>1, <3>2, Constants
  <2>2. /\ n \in Nat \ {0} /\ n <= Len(data) - done /\ n <= PIPE_SIZE - count[p]
    BY <2>1, MinPair
  <2>3. /\ buf' = [buf EXCEPT ![p] = b2] /\ count' = [count EXCEPT ![p] = count[p] + n]
        /\ r' = r
    BY <1>5
  <2> HIDE DEF n
  <2>4. bs \in [1..n -> Bytes] /\ bs \in Seq(Bytes) /\ Len(bs) = n
    <3>1. ASSUME NEW k \in 1..n PROVE data[done + k] \in Bytes
      <4>1. done + k \in 1..Len(data)
        BY <1>2, <2>1, <2>2
      <4> QED
        BY <1>2, <4>1
    <3>2. bs \in [1..n -> Bytes]
      BY <3>1
    <3>3. n \in Nat
      BY <2>2
    <3> HIDE DEF bs
    <3> QED
      BY <3>2, <3>3
  <2>5. \A x \in 0..(PIPE_SIZE - 1) :
           b2[x] = IF (x - w[p]) % PIPE_SIZE < n THEN bs[((x - w[p]) % PIPE_SIZE) + 1] ELSE buf[p][x]
    <3>1. ASSUME NEW x \in 0..(PIPE_SIZE - 1)
          PROVE  b2[x] = IF (x - w[p]) % PIPE_SIZE < n
                         THEN bs[((x - w[p]) % PIPE_SIZE) + 1] ELSE buf[p][x]
      <4> DEFINE i == (x - w[p]) % PIPE_SIZE
      <4>1. i \in Nat
        <5>1. x - w[p] \in Int
          BY <1>1, Constants
        <5>2. i \in 0..(PIPE_SIZE - 1)
          BY <5>1, InRing
        <5> QED
          BY <5>2, Constants
      <4>2. b2[x] = IF i < n THEN data[done + i + 1] ELSE buf[p][x]
        OBVIOUS
      <4> HIDE DEF i, b2
      <4>3. i < n => bs[i + 1] = data[done + i + 1]
        <5>1. i < n => i + 1 \in 1..n /\ done + (i + 1) = done + i + 1
          BY <2>2, <4>1
        <5> QED
          BY <5>1
      <4>4. b2[x] = IF i < n THEN bs[i + 1] ELSE buf[p][x]
        BY <4>2, <4>3
      <4> QED
        BY <4>4 DEF i
    <3> QED
      BY <3>1
  <2> HIDE DEF bs
  <2>6. b2 \in Rings
    <3>1. ASSUME NEW x \in 0..(PIPE_SIZE - 1) PROVE b2[x] \in Bytes
      <4> DEFINE i == (x - w[p]) % PIPE_SIZE
      <4>1. i \in Nat
        <5>1. x - w[p] \in Int
          BY <1>1, Constants
        <5>2. i \in 0..(PIPE_SIZE - 1)
          BY <5>1, InRing
        <5> QED
          BY <5>2, Constants
      <4>2. b2[x] = IF i < n THEN bs[i + 1] ELSE buf[p][x]
        BY <2>5
      <4> HIDE DEF i, b2
      <4>3. i < n => bs[i + 1] \in Bytes
        <5>1. i < n => i + 1 \in 1..n
          BY <2>2, <4>1
        <5> QED
          BY <2>4, <5>1
      <4>4. buf[p][x] \in Bytes
        BY <1>1 DEF Rings
      <4> QED
        BY <4>2, <4>3, <4>4
    <3>2. b2 = [x \in 0..(PIPE_SIZE - 1) |-> b2[x]]
      OBVIOUS
    <3> HIDE DEF b2
    <3> QED
      BY <3>1, <3>2 DEF Rings
  <2> HIDE DEF b2
  <2>7. CASE q # p
    <3>1. buf'[q] = buf[q] /\ r'[q] = r[q] /\ count'[q] = count[q]
      BY <1>1, <2>3, <2>7
    <3>2. CASE done + n = Len(data)
      <4>1. /\ answer' = [answer EXCEPT ![t] = Answer(p, "write", Len(data), <<>>)]
            /\ Answer(p, "write", Len(data), <<>>).pipe # q
        BY <1>5, <2>7, <3>2 DEF Done, Answer
      <4> QED
        BY <1>1, <3>1, <4>1, AsForget
    <3>3. CASE done + n # Len(data)
      <4>1. answer' = [answer EXCEPT ![t] = None]
        BY <1>5, <3>3 DEF Sleep
      <4> QED
        BY <1>1, <3>1, <4>1, AsForget
    <3> QED
      BY <3>2, <3>3
  <2>8. CASE q = p
    <3>1. /\ Content(q) = Unread(buf[p], r[p], count[p])
          /\ Content(q)' = Unread(b2, r[p], count[p] + n)
      BY <1>1, <2>3, <2>8 DEF Content, At, Unread
    <3>2. Content(q)' = Content(q) \o bs /\ Len(Content(q)) + Len(bs) <= PIPE_SIZE
      <4>1. buf[p] \in Rings /\ r[p] \in 0..(PIPE_SIZE - 1) /\ w[p] \in 0..(PIPE_SIZE - 1)
        BY <1>1
      <4>2. n \in 0..(PIPE_SIZE - count[p])
        BY <2>1, <2>2, Constants
      <4>3. w[p] = (r[p] + count[p]) % PIPE_SIZE
        BY <1>1
      <4> HIDE DEF p
      <4>4. Unread(b2, r[p], count[p] + n) = Unread(buf[p], r[p], count[p]) \o bs
        <5>1. Written(buf[p], b2, (r[p] + count[p]) % PIPE_SIZE, bs)
          BY <2>4, <2>5, <4>3 DEF Written
        <5>2. Len(bs) = n /\ Len(bs) \in 0..(PIPE_SIZE - count[p]) /\ bs \in Seq(Bytes)
          BY <2>4, <4>2
        <5> DEFINE b == buf[p]
                   i == r[p]
                   k == count[p]
        <5>a. /\ b \in Rings /\ b2 \in Rings /\ i \in 0..(PIPE_SIZE - 1) /\ k \in 0..PIPE_SIZE
              /\ bs \in Seq(Bytes) /\ Len(bs) \in 0..(PIPE_SIZE - k)
              /\ Written(b, b2, (i + k) % PIPE_SIZE, bs)
          BY ONLY <2>1, <2>6, <4>1, <5>1, <5>2
        <5> HIDE DEF b, i, k
        <5>b. Unread(b2, i, k + Len(bs)) = Unread(b, i, k) \o bs
          BY ONLY <5>a, PutBack
        <5>3. Unread(b2, r[p], count[p] + Len(bs)) = Unread(buf[p], r[p], count[p]) \o bs
          BY ONLY <5>b DEF b, i, k
        <5> QED
          BY <5>2, <5>3
      <4>5. Len(Content(q)) = count[p]
        <5>1. Len(Unread(buf[p], r[p], count[p])) = count[p]
          BY ONLY <2>1, <4>1, UnreadSeq
        <5> QED
          BY ONLY <3>1, <5>1
      <4> HIDE DEF p, bs
      <4>6. Len(bs) = n /\ n \in 0..(PIPE_SIZE - count[p]) /\ count[p] \in 0..PIPE_SIZE
        BY <2>1, <2>2, <2>4, <4>2
      <4>7. Len(Content(q)) + Len(bs) <= PIPE_SIZE
        BY ONLY <4>5, <4>6, Constants
      <4> QED
        BY ONLY <3>1, <4>4, <4>7
    <3>3. n \in 1..PIPE_SIZE
      BY <2>1, <2>2, Constants
    <3>4. Stream(q)!Accept(bs)
      BY <1>1, <1>5, <2>8, <3>2 DEF Stream!Accept
    <3>5. CASE done + n = Len(data)
      <4> DEFINE a == Answer(p, "write", Len(data), <<>>)
      <4>1. /\ answer' = [answer EXCEPT ![t] = a] /\ a.pipe = q
            /\ a.op = "write" /\ a.n = Len(data) /\ a.bytes = <<>>
        BY <1>5, <2>8, <3>5 DEF Done, Answer
      <4> HIDE DEF a, p, c
      <4>2. AnswerOf(q)' = [AnswerOf(q) EXCEPT ![t] = [op |-> "write", n |-> Len(data), bytes |-> <<>>]]
        <5>1. AnswerOf(a.pipe)' = [AnswerOf(a.pipe) EXCEPT
                                     ![t] = [op |-> a.op, n |-> a.n, bytes |-> a.bytes]]
          BY <4>1, AnswerHere
        <5> QED
          BY <4>1, <5>1
      <4>3. Len(bs) > 0 /\ Len(bs) <= Len(data)
        BY <1>2, <2>2, <2>4
      <4>4. Stream(q)!PutLast(t, bs, Len(data))
        BY <3>4, <4>2, <4>3 DEF Stream!PutLast
      <4> QED
        BY <1>2, <2>4, <3>3, <4>4 DEF Stream!Next, Longest
    <3>6. CASE done + n # Len(data)
      <4>1. answer' = [answer EXCEPT ![t] = None]
        BY <1>5, <3>6 DEF Sleep
      <4>2. AnswerOf(q)' = [AnswerOf(q) EXCEPT ![t] = NoAnswer]
        BY <4>1, AnswerElsewhere
      <4>3. Stream(q)!Put(t, bs)
        BY <3>4, <4>2 DEF Stream!Put, Stream!None, NoAnswer
      <4> QED
        BY <2>4, <3>3, <4>3 DEF Stream!Next
    <3> QED
      BY <3>5, <3>6
  <2> QED
    BY <2>7, <2>8
<1> QED
  BY <1>3, <1>4, <1>5 DEF PipeWrite

\* A step that leaves the ring and the ends of every pipe as they are.
LEMMA CallChannel ==
    ASSUME PipeInv, NEW t \in Procs, answer' = [answer EXCEPT ![t] = None],
           UNCHANGED <<ring, live, readers, writers>>, NEW q \in Pipes
    PROVE  Stream(q)!Next
<1>1. /\ q \in live' <=> q \in live
      /\ readers'[q] = readers[q] /\ writers'[q] = writers[q]
      /\ buf'[q] = buf[q] /\ r'[q] = r[q] /\ count'[q] = count[q]
  BY DEF ring
<1> QED
  BY <1>1, AsForget

\* close, dup2 and exit.
LEMMA CloseChannel ==
    ASSUME PipeInv, PipeInv', NEW t \in Procs, answer' = [answer EXCEPT ![t] = None],
           NEW newRef, NEW at, VfsClose(newRef, at), UNCHANGED ring, NEW q \in Pipes
    PROVE  Stream(q)!Next
<1>1. /\ live' \subseteq live /\ (readers'[q] > 0 => readers[q] > 0)
      /\ writers'[q] > 0 => writers[q] > 0
  BY CloseShrinks
<1>2. /\ readers'[q] \in 0..1 /\ writers'[q] \in 0..1
      /\ q \in live' <=> readers'[q] + writers'[q] > 0
  BY DEF PipeInv, TypeOK, EndsAreReachable
<1> QED
  BY <1>1, <1>2, AsCloseEnds

\* pipe() opens both ends of an empty pipe.
LEMMA PipeMakeChannel ==
    ASSUME PipeInv, NEW t \in Procs, NEW p \in Pipes, PipeMake(t, p), NEW q \in Pipes
    PROVE  Stream(q)!Next
<1>1. /\ p \notin live /\ live' = live \cup {p} /\ answer' = [answer EXCEPT ![t] = None]
      /\ readers' = [readers EXCEPT ![p] = 1] /\ writers' = [writers EXCEPT ![p] = 1]
      /\ r' = [r EXCEPT ![p] = 0] /\ count' = [count EXCEPT ![p] = 0] /\ UNCHANGED buf
  BY DEF PipeMake
<1>2. /\ readers \in [Pipes -> 0..1] /\ writers \in [Pipes -> 0..1]
      /\ r \in [Pipes -> 0..(PIPE_SIZE - 1)] /\ count \in [Pipes -> 0..PIPE_SIZE]
  BY DEF PipeInv, TypeOK
<1>3. CASE q # p
  <2>1. /\ q \in live' <=> q \in live
        /\ readers'[q] = readers[q] /\ writers'[q] = writers[q]
        /\ buf'[q] = buf[q] /\ r'[q] = r[q] /\ count'[q] = count[q]
    BY <1>1, <1>2, <1>3
  <2> QED
    BY <1>1, <2>1, AsForget
<1>4. CASE q = p
  <2>1. /\ q \notin live /\ q \in live' /\ count'[q] = 0 /\ readers'[q] = 1 /\ writers'[q] = 1
    BY <1>1, <1>2, <1>4
  <2>2. AnswerOf(q)' = [AnswerOf(q) EXCEPT ![t] = NoAnswer]
    BY <1>1, AnswerElsewhere
  <2>3. Content(q)' = <<>>
    BY <2>1 DEF Content
  <2>4. Stream(q)!Create(t)
    BY <2>1, <2>2, <2>3 DEF Stream!Create, Stream!None, NoAnswer
  <2> QED
    BY <2>4 DEF Stream!Next
<1> QED
  BY <1>3, <1>4

\* A signal changes no pipe.
LEMMA SignalChannel ==
    ASSUME UNCHANGED <<ring, live, readers, writers, answer>>, NEW q \in Pipes
    PROVE  UNCHANGED Stream(q)!vars
<1>1. Content(q)' = Content(q) /\ AnswerOf(q)' = AnswerOf(q)
  BY DEF Content, At, AnswerOf, ring
<1> QED
  BY <1>1 DEF Stream!vars

LEMMA NextChannel ==
    ASSUME PipeInv, PipeInv', Next, NEW q \in Pipes
    PROVE  Stream(q)!Next \/ UNCHANGED Stream(q)!vars
<1>1. ASSUME NEW t \in Procs, NEW p \in Pipes, PipeMake(t, p) PROVE Stream(q)!Next
  BY <1>1, PipeMakeChannel
<1>2. ASSUME NEW t \in Procs, PipeMakeUndone(t) PROVE Stream(q)!Next
  <2>1. answer' = [answer EXCEPT ![t] = None] /\ UNCHANGED <<ring, live, readers, writers>>
    BY <1>2 DEF PipeMakeUndone, ends
  <2> QED
    BY <2>1, CallChannel
<1>3. ASSUME NEW t \in Procs, NEW d \in Fds, Close(t, d) PROVE Stream(q)!Next
  BY <1>3, CloseChannel DEF Close
<1>4. ASSUME NEW t \in Procs, NEW o \in Fds, NEW n \in Fds, Dup2(t, o, n) PROVE Stream(q)!Next
  BY <1>4, CloseChannel DEF Dup2
<1>5. ASSUME NEW t \in Procs, NEW o \in Fds, NEW n \in Fds, DupFd(t, o, n) PROVE Stream(q)!Next
  BY <1>5, CallChannel DEF DupFd
<1>6. ASSUME NEW t \in Procs, NEW c \in Procs, Fork(t, c) PROVE Stream(q)!Next
  BY <1>6, CallChannel DEF Fork
<1>7. ASSUME NEW t \in Procs, NEW d \in Fds, NEW len \in ReadLens, Read(t, d, len)
      PROVE  Stream(q)!Next
  <2>1. fds[t][d] \in File /\ PipeRead(t, fds[t][d], len) /\ UNCHANGED <<fds, ends, killed>>
    BY <1>7 DEF Read
  <2>2. fds[t][d][1] \in live /\ len \in Nat \ {0}
    BY <2>1, NamedIsLive, ConstAssumption
  <2> QED
    BY <2>1, <2>2, ReadChannel
<1>8. ASSUME NEW t \in Procs, NEW d \in Fds, NEW data \in Data, Write(t, d, data)
      PROVE  Stream(q)!Next
  <2>1. fds[t][d] \in File /\ PipeWrite(t, fds[t][d], data, 0) /\ UNCHANGED <<fds, ends, killed>>
    BY <1>8 DEF Write
  <2>2. fds[t][d][1] \in live
    BY <2>1, NamedIsLive
  <2>3. 0 \in Nat /\ 0 < Len(data)
    BY LongestWrite
  <2> QED
    BY <2>1, <2>2, <2>3, WriteChannel
<1>9. ASSUME NEW t \in Procs, Resume(t) PROVE Stream(q)!Next
  <2>1. pc[t] = "ready" /\ UNCHANGED <<fds, ends, killed>>
    BY <1>9 DEF Resume
  <2>2. CallTyped(call[t]) /\ call[t].file[1] \in live
    BY <2>1, HoldsPipe DEF PipeInv, CallsTyped, CallHoldsPipe
  <2>3. call[t].file \in File
    BY <2>2 DEF CallTyped
  <2>4. CASE call[t].op = "read" /\ PipeRead(t, call[t].file, call[t].len)
    <3>1. call[t].len \in Nat \ {0}
      BY <2>2, <2>4 DEF CallTyped
    <3> QED
      BY <2>1, <2>2, <2>3, <2>4, <3>1, ReadChannel
  <2>5. CASE call[t].op = "write" /\ PipeWrite(t, call[t].file, call[t].data, call[t].done)
    <3>1. call[t].data \in Data /\ call[t].done \in Nat /\ call[t].done < Len(call[t].data)
      BY <2>2, <2>5 DEF CallTyped
    <3> QED
      BY <2>1, <2>2, <2>3, <2>5, <3>1, WriteChannel
  <2> QED
    BY <1>9, <2>4, <2>5 DEF Resume
<1>10. ASSUME NEW t \in Procs, Exit(t) PROVE Stream(q)!Next
  BY <1>10, CloseChannel DEF Exit
<1>11. ASSUME NEW t \in Procs, NEW fatal \in BOOLEAN, Signal(t, fatal)
       PROVE  UNCHANGED Stream(q)!vars
  BY <1>11, SignalChannel DEF Signal, ends
<1> QED
  BY <1>1, <1>2, <1>3, <1>4, <1>5, <1>6, <1>7, <1>8, <1>9, <1>10, <1>11 DEF Next

\* Each pipe is a bounded FIFO of bytes with an end of file and a broken
\* pipe, for any ring size, writes, reads and order of the processes' calls.
THEOREM PipeImplementsChannel == Spec => IsChannel
<1>1. Init => ChannelsStart
  <2>1. ASSUME Init, NEW q \in Pipes PROVE Stream(q)!Init
    <3>1. Content(q) = <<>> /\ q \notin live
      BY <2>1 DEF Init, Content
    <3>2. AnswerOf(q) = [t \in Procs |-> NoAnswer]
      BY <2>1 DEF Init, AnswerOf, None, Answer, NoAnswer
    <3> QED
      BY <3>1, <3>2 DEF Stream!Init, Stream!None, NoAnswer
  <2> QED
    BY <2>1 DEF ChannelsStart
<1>2. PipeInv /\ PipeInv' /\ [Next]_vars => [ChannelsStep]_vars
  BY NextChannel DEF ChannelsStep
<1> QED
  BY <1>1, <1>2, Invariance, PTL DEF Spec, IsChannel
=============================================================================
