-------------------------------- MODULE Pipe --------------------------------
(***************************************************************************)
(* Pipes and the descriptors that name them: src/pipe.c, the reference     *)
(* counts of struct file (vfs.c) and the system calls that create, share   *)
(* and drop descriptors (syscall.c, sched_fork and thread_exit).           *)
(*                                                                         *)
(* A system call runs to its end or to the next sched_block without being  *)
(* interrupted, so each action is one such stretch.  Which runnable        *)
(* process goes on is left open here; module Sched models that choice.     *)
(***************************************************************************)
EXTENDS Integers, Sequences, FiniteSets, FiniteSetsExt

CONSTANTS
    Procs,       \* process slots
    First,       \* the process that runs at the start
    Pipes,       \* addresses at which kmalloc may place a struct pipe
    Fds,         \* the descriptors of a process, some of 0..15
    NoFile,      \* an empty slot of the descriptor table
    Console,     \* a console-backed struct file
    Bytes,       \* byte values
    ReadLens,    \* lengths passed to read
    Data,        \* the byte sequences passed to write
    PIPE_SIZE

ASSUME ConstAssumption ==
    /\ First \in Procs /\ IsFiniteSet(Procs)
    /\ Fds \subseteq 0..15
    /\ ReadLens \subseteq Nat \ {0}
    /\ Bytes # {} /\ Data \subseteq Seq(Bytes) \ {<<>>}
    /\ \E longest \in Data : \A data \in Data : Len(data) <= Len(longest)
    /\ PIPE_SIZE \in Nat \ {0}

\* pipe_make creates one struct file for each end and no other: a file is
\* named by its pipe and its "writable" flag.
File == Pipes \X BOOLEAN
ReadEnd(p) == <<p, FALSE>>
WriteEnd(p) == <<p, TRUE>>
ASSUME FileAssumption == NoFile \notin File /\ Console \notin File /\ NoFile # Console

VARIABLES
    fds,              \* the descriptor table of each process
    ref,              \* struct file: references
    live,             \* pipes allocated and not freed
    buf, r, w, count, readers, writers,   \* fields of struct pipe
    pc,               \* "none", "user", "blocked" or "ready" inside a call
    call,             \* the arguments and progress of the current call
    killed,           \* a signal that ends the process is pending
    answer            \* what the last call returned

ring == <<buf, r, w, count>>
ends == <<live, readers, writers, ref>>
vars == <<fds, ring, ends, pc, call, killed, answer>>

Answer(p, op, n, bytes) == [pipe |-> p, op |-> op, n |-> n, bytes |-> bytes]
None == Answer(NoFile, "none", 0, <<>>)
NoCall == [op |-> "none", file |-> NoFile, len |-> 0, data |-> <<>>, done |-> 0]

AtUser(t) == pc[t] = "user" /\ ~killed[t]
Free(t, from) == {d \in Fds : d >= from /\ fds[t][d] = NoFile}

Init ==
    /\ fds = [t \in Procs |-> [d \in Fds |-> NoFile]]
    /\ ref = [f \in File |-> 0]
    /\ live = {}
    /\ buf = [p \in Pipes |-> [i \in 0..(PIPE_SIZE - 1) |-> CHOOSE b \in Bytes : TRUE]]
    /\ r = [p \in Pipes |-> 0] /\ w = [p \in Pipes |-> 0]
    /\ count = [p \in Pipes |-> 0]
    /\ readers = [p \in Pipes |-> 0] /\ writers = [p \in Pipes |-> 0]
    /\ pc = [t \in Procs |-> IF t = First THEN "user" ELSE "none"]
    /\ call = [t \in Procs |-> NoCall]
    /\ killed = [t \in Procs |-> FALSE]
    /\ answer = [t \in Procs |-> None]

----------------------------------------------------------------------------
(* sched_wake, and closing.                                                *)

\* sched_wake for the pipes of ps: every process asleep on one is runnable.
Woken(at, ps) ==
    [t \in Procs |-> IF at[t] = "blocked" /\ call[t].file[1] \in ps THEN "ready" ELSE at[t]]

Slots(t, f) == {d \in Fds : fds[t][d] = f}

\* Mutant: pipe_close does not wake the other end.
VfsCloseNoWake(newRef, at) ==
    LET gone == {f \in File : ref[f] > 0 /\ newRef[f] <= 0}
        rd == [p \in Pipes |-> IF ReadEnd(p) \in gone THEN readers[p] - 1 ELSE readers[p]]
        wr == [p \in Pipes |-> IF WriteEnd(p) \in gone THEN writers[p] - 1 ELSE writers[p]]
    IN /\ ref' = newRef
       /\ readers' = rd /\ writers' = wr
       /\ live' = live \ {f[1] : f \in {g \in gone : rd[g[1]] = 0 /\ wr[g[1]] = 0}}
       /\ pc' = at

\* vfs_close of all references that newRef takes away: a file without
\* references gives up its end of the pipe, whose peer is woken, and the
\* pipe is freed with its second end.  "at" is where the processes are.
VfsClose(newRef, at) ==
    LET gone == {f \in File : ref[f] > 0 /\ newRef[f] <= 0}
        rd == [p \in Pipes |-> IF ReadEnd(p) \in gone THEN readers[p] - 1 ELSE readers[p]]
        wr == [p \in Pipes |-> IF WriteEnd(p) \in gone THEN writers[p] - 1 ELSE writers[p]]
    IN /\ ref' = newRef
       /\ readers' = rd /\ writers' = wr
       /\ live' = live \ {f[1] : f \in {g \in gone : rd[g[1]] = 0 /\ wr[g[1]] = 0}}
       /\ pc' = Woken(at, {f[1] : f \in gone})

----------------------------------------------------------------------------
(* Descriptors.                                                            *)

\* pipe(): the two lowest free descriptors from 3 up.
PipeMake(t, p) ==
    /\ AtUser(t)
    /\ p \notin live
    /\ Cardinality(Free(t, 3)) >= 2
    /\ LET rfd == Min(Free(t, 3))
           wfd == Min(Free(t, 3) \ {rfd})
       IN fds' = [fds EXCEPT ![t][rfd] = ReadEnd(p), ![t][wfd] = WriteEnd(p)]
    /\ ref' = [ref EXCEPT ![ReadEnd(p)] = 1, ![WriteEnd(p)] = 1]
    /\ readers' = [readers EXCEPT ![p] = 1] /\ writers' = [writers EXCEPT ![p] = 1]
    /\ live' = live \cup {p}
    /\ r' = [r EXCEPT ![p] = 0] /\ w' = [w EXCEPT ![p] = 0]
    /\ count' = [count EXCEPT ![p] = 0]
    /\ answer' = [answer EXCEPT ![t] = None]
    /\ UNCHANGED <<buf, pc, call, killed>>

\* Mutant: the undo path forgets the slot it had filled.
PipeMakeForget(t) ==
    /\ AtUser(t)
    /\ Cardinality(Free(t, 3)) = 1
    /\ \E p \in Pipes : fds' = [fds EXCEPT ![t][Min(Free(t, 3))] = ReadEnd(p)]
    /\ answer' = [answer EXCEPT ![t] = None]
    /\ UNCHANGED <<ends, pc, ring, call, killed>>

\* pipe() with fewer than two free descriptors: the struct, the two files and
\* the slot that was filled are all given back.
PipeMakeUndone(t) ==
    /\ AtUser(t)
    /\ Cardinality(Free(t, 3)) < 2
    /\ answer' = [answer EXCEPT ![t] = None]
    /\ UNCHANGED <<fds, ends, pc, ring, call, killed>>

Close(t, d) ==
    /\ AtUser(t)
    /\ fds[t][d] # NoFile
    /\ fds' = [fds EXCEPT ![t][d] = NoFile]
    /\ VfsClose([f \in File |-> IF f = fds[t][d] THEN ref[f] - 1 ELSE ref[f]], pc)
    /\ answer' = [answer EXCEPT ![t] = None]
    /\ UNCHANGED <<ring, call, killed>>

\* dup_fd_handle: an empty descriptor 0, 1 or 2 stands for the console.
Dupable(t, d) == fds[t][d] # NoFile \/ d <= 2
Handle(t, d) == IF fds[t][d] = NoFile THEN Console ELSE fds[t][d]

\* dup2 and dup3: the new reference is taken before the old file is closed.
Dup2(t, o, n) ==
    /\ AtUser(t)
    /\ o # n /\ Dupable(t, o)
    /\ fds' = [fds EXCEPT ![t][n] = Handle(t, o)]
    /\ VfsClose([f \in File |-> ref[f] + (IF f = fds[t][o] THEN 1 ELSE 0)
                                       - (IF f = fds[t][n] THEN 1 ELSE 0)], pc)
    /\ answer' = [answer EXCEPT ![t] = None]
    /\ UNCHANGED <<ring, call, killed>>

\* fcntl(F_DUPFD, min): the lowest free descriptor from min up.
DupFd(t, o, min) ==
    /\ AtUser(t)
    /\ Dupable(t, o)
    /\ Free(t, min) # {}
    /\ fds' = [fds EXCEPT ![t][Min(Free(t, min))] = Handle(t, o)]
    /\ ref' = [f \in File |-> ref[f] + (IF f = fds[t][o] THEN 1 ELSE 0)]
    /\ answer' = [answer EXCEPT ![t] = None]
    /\ UNCHANGED <<live, readers, writers, pc, ring, call, killed>>

\* Mutant: fork copies the table without taking references.
ForkNoDup(t, c) ==
    /\ AtUser(t)
    /\ pc[c] = "none"
    /\ fds' = [fds EXCEPT ![c] = fds[t]]
    /\ pc' = [pc EXCEPT ![c] = "user"]
    /\ answer' = [answer EXCEPT ![t] = None]
    /\ UNCHANGED <<ends, ring, call, killed>>

\* sched_fork: the child shares every open file, a reference each.
Fork(t, c) ==
    /\ AtUser(t)
    /\ pc[c] = "none"
    /\ fds' = [fds EXCEPT ![c] = fds[t]]
    /\ ref' = [f \in File |-> ref[f] + Cardinality(Slots(t, f))]
    /\ pc' = [pc EXCEPT ![c] = "user"]
    /\ answer' = [answer EXCEPT ![t] = None]
    /\ UNCHANGED <<live, readers, writers, ring, call, killed>>

\* thread_exit, called by the process or by signals_deliver.
Exit(t) ==
    /\ pc[t] = "user"
    /\ fds' = [fds EXCEPT ![t] = [d \in Fds |-> NoFile]]
    /\ VfsClose([f \in File |-> ref[f] - Cardinality(Slots(t, f))], [pc EXCEPT ![t] = "none"])
    /\ answer' = [answer EXCEPT ![t] = None]
    /\ killed' = [killed EXCEPT ![t] = FALSE]
    /\ UNCHANGED <<ring, call>>

----------------------------------------------------------------------------
(* Transfers.                                                              *)

Sleep(t, c) ==
    /\ call' = [call EXCEPT ![t] = c]
    /\ answer' = [answer EXCEPT ![t] = None]

Done(t, p, op, n, bytes) ==
    /\ call' = [call EXCEPT ![t] = NoCall]
    /\ answer' = [answer EXCEPT ![t] = Answer(p, op, n, bytes)]

\* The i-th unread byte.
At(p, i) == buf[p][(r[p] + i - 1) % PIPE_SIZE]

\* Mutant: a reader waits for bytes even when no writer is left.
ReadWaitsNoEof(p) == count[p] = 0

\* Mutant: the test for other writers is off by one, an empty pipe is at EOF.
ReadWaitsEofEarly(p) == count[p] = 0 /\ writers[p] > 1

ReadWaits(p) == count[p] = 0 /\ writers[p] > 0

\* Mutant: a writer waits for room even when no reader is left.
WriteWaitsNoBroken(p) == count[p] = PIPE_SIZE

WriteWaits(p) == count[p] = PIPE_SIZE /\ readers[p] > 0

\* pipe_read, from its entry or from the return of its sched_block.
PipeRead(t, f, len) ==
    LET p == f[1]
        n == Min({len, count[p]})
    IN \/ /\ ReadWaits(p)
          /\ Sleep(t, [op |-> "read", file |-> f, len |-> len, data |-> <<>>, done |-> 0])
          /\ pc' = [pc EXCEPT ![t] = "blocked"]
          /\ UNCHANGED ring
       \/ /\ ~ReadWaits(p) /\ count[p] = 0
          /\ Done(t, p, "read", 0, <<>>)
          /\ pc' = [pc EXCEPT ![t] = "user"]
          /\ UNCHANGED ring
       \/ /\ count[p] > 0
          /\ Done(t, p, "read", n, [i \in 1..n |-> At(p, i)])
          /\ r' = [r EXCEPT ![p] = (@ + n) % PIPE_SIZE]
          /\ count' = [count EXCEPT ![p] = @ - n]
          /\ pc' = Woken([pc EXCEPT ![t] = "user"], {p})
          /\ UNCHANGED <<buf, w>>

\* pipe_write with "done" bytes already in the pipe, up to its return or its
\* next sched_block: a chunk that does not finish leaves the ring full.
PipeWrite(t, f, data, done) ==
    LET p == f[1]
        n == Min({Len(data) - done, PIPE_SIZE - count[p]})
        Waiting(k) == Sleep(t, [op |-> "write", file |-> f, len |-> Len(data),
                                data |-> data, done |-> k])
    IN \/ /\ WriteWaits(p)
          /\ Waiting(done)
          /\ pc' = [pc EXCEPT ![t] = "blocked"]
          /\ UNCHANGED ring
       \/ /\ ~WriteWaits(p) /\ readers[p] = 0
          /\ Done(t, p, "write", IF done > 0 THEN done ELSE -1, <<>>)
          /\ pc' = [pc EXCEPT ![t] = "user"]
          /\ UNCHANGED ring
       \/ /\ readers[p] > 0 /\ count[p] < PIPE_SIZE
          /\ buf' = [buf EXCEPT ![p] = [j \in 0..(PIPE_SIZE - 1) |->
                        LET i == (j - w[p]) % PIPE_SIZE IN IF i < n THEN data[done + i + 1] ELSE @[j]]]
          /\ w' = [w EXCEPT ![p] = (@ + n) % PIPE_SIZE]
          /\ count' = [count EXCEPT ![p] = @ + n]
          /\ UNCHANGED r
          /\ IF done + n = Len(data)
             THEN /\ Done(t, p, "write", Len(data), <<>>)
                  /\ pc' = Woken([pc EXCEPT ![t] = "user"], {p})
             ELSE /\ Waiting(done + n)
                  /\ pc' = [Woken(pc, {p}) EXCEPT ![t] = "blocked"]

\* read and write on either end: neither call looks at "writable".
Read(t, d, len) ==
    /\ AtUser(t)
    /\ fds[t][d] \in File
    /\ PipeRead(t, fds[t][d], len)
    /\ UNCHANGED <<fds, ends, killed>>

Write(t, d, data) ==
    /\ AtUser(t)
    /\ fds[t][d] \in File
    /\ PipeWrite(t, fds[t][d], data, 0)
    /\ UNCHANGED <<fds, ends, killed>>

\* The process runs again after sched_block and tests its condition anew.
Resume(t) ==
    /\ pc[t] = "ready"
    /\ \/ call[t].op = "read" /\ PipeRead(t, call[t].file, call[t].len)
       \/ call[t].op = "write" /\ PipeWrite(t, call[t].file, call[t].data, call[t].done)
    /\ UNCHANGED <<fds, ends, killed>>

\* signal_send: a blocked process is unblocked whatever its condition.
Signal(t, fatal) ==
    /\ pc[t] # "none"
    /\ killed' = [killed EXCEPT ![t] = @ \/ fatal]
    /\ pc' = [pc EXCEPT ![t] = IF @ = "blocked" THEN "ready" ELSE @]
    /\ UNCHANGED <<fds, ends, ring, call, answer>>

----------------------------------------------------------------------------
Next ==
    \E t \in Procs :
        \/ \E p \in Pipes : PipeMake(t, p)
        \/ PipeMakeUndone(t)
        \/ \E d \in Fds : Close(t, d)
        \/ \E o, n \in Fds : Dup2(t, o, n) \/ DupFd(t, o, n)
        \/ \E c \in Procs : Fork(t, c)
        \/ \E d \in Fds, len \in ReadLens : Read(t, d, len)
        \/ \E d \in Fds, data \in Data : Write(t, d, data)
        \/ Resume(t) \/ Exit(t)
        \/ \E fatal \in BOOLEAN : Signal(t, fatal)

Spec == Init /\ [][Next]_vars

\* A runnable process gets the CPU (Sched's NoStarvation), and one with a
\* fatal signal does nothing else than exit when its call is over.
FairSpec ==
    /\ Spec
    /\ \A t \in Procs : WF_vars(Resume(t)) /\ WF_vars(killed[t] /\ Exit(t))

----------------------------------------------------------------------------
(* Properties.                                                             *)

\* Every variable keeps its type; a struct file never has a negative count.
TypeOK ==
    /\ fds \in [Procs -> [Fds -> File \cup {NoFile, Console}]]
    /\ ref \in [File -> Nat]
    /\ live \subseteq Pipes
    /\ buf \in [Pipes -> [0..(PIPE_SIZE - 1) -> Bytes]]
    /\ r \in [Pipes -> 0..(PIPE_SIZE - 1)] /\ w \in [Pipes -> 0..(PIPE_SIZE - 1)]
    /\ count \in [Pipes -> 0..PIPE_SIZE]
    /\ readers \in [Pipes -> 0..1] /\ writers \in [Pipes -> 0..1]
    /\ pc \in [Procs -> {"none", "user", "ready", "blocked"}]
    /\ \A t \in Procs : call[t] = NoCall <=> pc[t] \in {"none", "user"}
    /\ killed \in [Procs -> BOOLEAN]

\* A struct file counts exactly the descriptors that name it, over all
\* processes: fork, dup2 over an open descriptor, the undo of pipe() and exit
\* neither leak a reference nor take one twice (vfs.c:318, 328).
RefsAreDescriptors ==
    \A f \in File :
        ref[f] = Cardinality({x \in Procs \X Fds : fds[x[1]][x[2]] = f})

\* A pipe is freed with its last descriptor and not earlier, and its end
\* counts say which ends can still be reached (pipe.c:101-104).
EndsAreReachable ==
    \A p \in Pipes :
        /\ readers[p] > 0 <=> ref[ReadEnd(p)] > 0
        /\ writers[p] > 0 <=> ref[WriteEnd(p)] > 0
        /\ p \in live <=> readers[p] + writers[p] > 0

\* While a call sleeps in pipe_read or pipe_write its pipe stays allocated:
\* no close, exit or dup2 of anyone frees the memory it comes back to.
CallHoldsPipe == \A t \in Procs : pc[t] \in {"ready", "blocked"} => call[t].file[1] \in live

\* No lost wakeup: whatever closes, kills, reads and writes interleave, a
\* process asleep on a pipe could not go on if it looked (pipe.c:31, 54).
NoLostWakeup ==
    \A t \in Procs :
        pc[t] = "blocked" =>
            LET p == call[t].file[1]
            IN \/ call[t].op = "read" /\ count[p] = 0 /\ writers[p] > 0
               \/ call[t].op = "write" /\ count[p] = PIPE_SIZE /\ readers[p] > 0

\* Each pipe implements the bounded FIFO of module Channel.
Content(p) == IF p \in live THEN [i \in 1..count[p] |-> At(p, i)] ELSE <<>>
AnswerOf(p) ==
    [t \in Procs |->
        LET a == IF answer[t].pipe = p THEN answer[t] ELSE None
        IN [op |-> a.op, n |-> a.n, bytes |-> a.bytes]]
Stream(p) ==
    INSTANCE Channel WITH
        Capacity <- PIPE_SIZE, MaxLen <- Max({Len(d) : d \in Data}),
        content <- Content(p),
        readOpen <- p \in live /\ readers[p] > 0,
        writeOpen <- p \in live /\ writers[p] > 0,
        answer <- AnswerOf(p)
ChannelsStart == \A p \in Pipes : Stream(p)!Init
ChannelsStep == \A p \in Pipes : Stream(p)!Next \/ UNCHANGED Stream(p)!vars
IsChannel == ChannelsStart /\ [][ChannelsStep]_vars

InCall(t, op) == pc[t] \in {"ready", "blocked"} /\ call[t].op = op

\* End of file reaches a reader: once the last write end is closed, by a
\* close, an exit or a kill, no read of the pipe sleeps on.
EofReachesReaders ==
    \A t \in Procs :
        (InCall(t, "read") /\ writers[call[t].file[1]] = 0) ~> ~InCall(t, "read")

\* A broken pipe reaches a writer, also in the middle of a long write.
BrokenReachesWriters ==
    \A t \in Procs :
        (InCall(t, "write") /\ readers[call[t].file[1]] = 0) ~> ~InCall(t, "write")

(* What a comment says and the code does not do.                           *)

\* pipe.h:12 "a vterm helper's whole screen-update batch ... fits in the pipe
\* and is written in one atomic shot, so the frame never reads a half-written
\* batch": a write that fits in the pipe is never split.
BatchAtomic ==
    \A t \in Procs : InCall(t, "write") /\ call[t].len <= PIPE_SIZE => call[t].done = 0
=============================================================================
