------------------------------ MODULE PartsMC ------------------------------
(* Small instances of the parts that share no state and need no instance   *)
(* of their own: a behaviour is one of a single part, the others at rest.  *)
EXTENDS Heap, Pty, Seat, Text, Windows, LispGc,
    Redisplay, TLC

VARIABLE part    \* the part that runs

\* The collector tells no address from another.
AddressSymmetry == Permutations(Addresses)

PartsInit ==
    /\ part \in {"heap", "pty", "seat", "text", "windows", "lisp", "redisplay"}
    /\ HeapInit /\ PtyInit /\ SeatInit /\ TextInit /\ WinInit /\ GcInit /\ RdInit
    /\ wins[root].buf = CHOOSE b \in Buffers : TRUE    \* they are all alike

PartsNext ==
    /\ UNCHANGED part
    /\ \/ /\ part = "heap" /\ HeapNext
          /\ UNCHANGED <<ptyVars, seatVars, textVars, winVars, gcVars, rdVars>>
       \/ /\ part = "pty" /\ PtyNext
          /\ UNCHANGED <<heapVars, seatVars, textVars, winVars, gcVars, rdVars>>
       \/ /\ part = "seat" /\ SeatNext
          /\ UNCHANGED <<heapVars, ptyVars, textVars, winVars, gcVars, rdVars>>
       \/ /\ part = "text" /\ TextNext
          /\ UNCHANGED <<heapVars, ptyVars, seatVars, winVars, gcVars, rdVars>>
       \/ /\ part = "windows" /\ WinNext
          /\ UNCHANGED <<heapVars, ptyVars, seatVars, textVars, gcVars, rdVars>>
       \/ /\ part = "lisp" /\ GcNext
          /\ UNCHANGED <<heapVars, ptyVars, seatVars, textVars, winVars, rdVars>>
       \/ /\ part = "redisplay" /\ RdNext
          /\ UNCHANGED <<heapVars, ptyVars, seatVars, textVars, winVars, gcVars>>
=============================================================================
