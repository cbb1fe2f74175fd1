------------------------------- MODULE PipeMC -------------------------------
(* Small instances of Pipe.                                                *)
EXTENDS Pipe, TLC

CONSTANTS x, y

\* What the programs write.  Two different bytes tell every order apart; a
\* batch of one byte shows a write that fits.
TwoBytes == {<<x, y>>}
Same == {<<x, x>>}
OneOrTwo == {<<x>>, <<x, x>>}

\* No guard or property of the runs that use this view reads "answer".
WithoutAnswer == <<fds, ring, ends, pc, call, killed>>

\* First is named by Init only, so the steps and the invariants are symmetric
\* in all the processes.
PipeSymmetry == Permutations(Pipes) \cup Permutations(Procs)
=============================================================================
