--------------------------- MODULE MCSnapshotDiff ---------------------------
(* Model values for SnapshotDiff and the symmetry of pointers and stacks.  *)
EXTENDS SnapshotDiff, TLC

MCSymmetry == Permutations(Ptrs) \cup Permutations(CS)
=============================================================================
