----------------------------- MODULE MCSpineMeta -----------------------------
(* Instances of SpineMeta: two commands at a time and two held-out files.    *)
EXTENDS SpineMeta, TLC

CONSTANTS p1, p2, f1, f2

TwoProcs == {p1, p2}
TwoFiles == {f1, f2}
Symmetric == Permutations(TwoProcs) \cup Permutations(TwoFiles)
=============================================================================
