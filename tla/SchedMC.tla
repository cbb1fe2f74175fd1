------------------------------ MODULE SchedMC ------------------------------
(* Small instances of Sched for TLC.                                       *)
EXTENDS Sched, TLC

SlotSymmetry == Permutations(Slots)
=============================================================================
