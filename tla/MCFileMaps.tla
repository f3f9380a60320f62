----------------------------- MODULE MCFileMaps -----------------------------
EXTENDS FileMaps, TLC

\* The callers are interchangeable threads (model values only).
CallerSymmetry == Permutations(Callers)
=============================================================================
