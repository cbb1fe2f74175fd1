------------------------------ MODULE Channel ------------------------------
(***************************************************************************)
(* What a pipe promises to the processes that hold its two ends: a bounded *)
(* FIFO of bytes.  A read takes bytes from the front, or reports the end   *)
(* of the stream once the stream is empty and no write end is left; a      *)
(* write appends at the back, or reports a broken pipe once no read end is *)
(* left.  Nothing is said about blocking, rings or reference counts.       *)
(***************************************************************************)
EXTENDS Integers, Sequences

CONSTANTS Procs, Bytes, Capacity,
    MaxLen     \* the longest write

VARIABLES
    content,   \* bytes written and not yet read, oldest first
    readOpen, writeOpen,  \* whether an end of that kind is open
    answer     \* what the last call of each process on this pipe returned

vars == <<content, readOpen, writeOpen, answer>>

None == [op |-> "none", n |-> 0, bytes |-> <<>>]

Init ==
    /\ content = <<>>
    /\ readOpen = FALSE /\ writeOpen = FALSE
    /\ answer = [t \in Procs |-> None]

Create(t) ==
    /\ ~readOpen /\ ~writeOpen
    /\ content' = <<>>
    /\ readOpen' = TRUE /\ writeOpen' = TRUE
    /\ answer' = [answer EXCEPT ![t] = None]

\* Bytes that reach the channel although their write call goes on.
Accept(bs) ==
    /\ readOpen
    /\ Len(content) + Len(bs) <= Capacity
    /\ content' = content \o bs
    /\ UNCHANGED <<readOpen, writeOpen>>

Put(t, bs) ==
    /\ Accept(bs)
    /\ answer' = [answer EXCEPT ![t] = None]

\* A write that returns n has appended its last bytes.
PutLast(t, bs, n) ==
    /\ Len(bs) > 0 /\ Len(bs) <= n
    /\ Accept(bs)
    /\ answer' = [answer EXCEPT ![t] = [op |-> "write", n |-> n, bytes |-> <<>>]]

Broken(t, n) ==
    /\ ~readOpen
    /\ answer' = [answer EXCEPT ![t] = [op |-> "write", n |-> n, bytes |-> <<>>]]
    /\ UNCHANGED <<content, readOpen, writeOpen>>

Get(t, n) ==
    /\ n <= Len(content)
    /\ answer' = [answer EXCEPT ![t] =
                    [op |-> "read", n |-> n, bytes |-> SubSeq(content, 1, n)]]
    /\ content' = SubSeq(content, n + 1, Len(content))
    /\ UNCHANGED <<readOpen, writeOpen>>

EndOfStream(t) ==
    /\ content = <<>> /\ ~writeOpen
    /\ answer' = [answer EXCEPT ![t] = [op |-> "read", n |-> 0, bytes |-> <<>>]]
    /\ UNCHANGED <<content, readOpen, writeOpen>>

\* The process starts its next call, or is gone.
Forget(t) ==
    /\ answer' = [answer EXCEPT ![t] = None]
    /\ UNCHANGED <<content, readOpen, writeOpen>>

\* Ends are closed, by a process that may also be gone; the bytes of a pipe
\* with no end left are lost.
CloseEnds ==
    /\ readOpen' \in BOOLEAN /\ (readOpen' => readOpen)
    /\ writeOpen' \in BOOLEAN /\ (writeOpen' => writeOpen)
    /\ content' = IF readOpen' \/ writeOpen' THEN content ELSE <<>>
    /\ \/ UNCHANGED answer
       \/ \E t \in Procs : answer' = [answer EXCEPT ![t] = None]

Next ==
    \/ CloseEnds
    \/ \E t \in Procs :
         \/ \E n \in 1..Capacity : Get(t, n)
         \/ \E k \in 1..Capacity : \E bs \in [1..k -> Bytes] :
               Put(t, bs) \/ \E n \in 1..MaxLen : PutLast(t, bs, n)
         \/ \E n \in {-1} \cup 1..MaxLen : Broken(t, n)
         \/ Create(t) \/ EndOfStream(t) \/ Forget(t)

Spec == Init /\ [][Next]_vars
=============================================================================
