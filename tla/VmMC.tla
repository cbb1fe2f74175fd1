-------------------------------- MODULE VmMC --------------------------------
(* Small instances of Vm.                                                  *)
EXTENDS Vm, TLC

Right(w, x) == [w |-> w, x |-> x]
\* A data page at 1.
OneData == 1 :> Right(TRUE, FALSE)
\* A page of a merged, writable and executable segment at 1.
OneRwx == 1 :> Right(TRUE, TRUE)
\* A stack page at 4, above the pages of mmap.
StackAbove == 4 :> Right(TRUE, FALSE)

VmSymmetry == Permutations(Frames) \cup Permutations(Spaces)
=============================================================================
