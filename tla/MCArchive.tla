------------------------------ MODULE MCArchive ------------------------------
(* Instances of Archive: two tasks, one of which may depend on the other,    *)
(* and two archives; three tasks and one archive.                           *)
EXTENDS Archive, TLC

CONSTANTS t1, t2, t3, a1, a2

TwoTasks == {t1, t2}
ThreeTasks == {t1, t2, t3}
TwoArchives == {a1, a2}
OneArchive == {a1}
Symmetric == Permutations(TwoTasks) \cup Permutations(TwoArchives)
=============================================================================
