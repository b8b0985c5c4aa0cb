------------------------------ MODULE MCRelease ------------------------------
(* An instance of Release: two tasks and every way to release.               *)
EXTENDS Release, TLC

CONSTANTS t1, t2

AllTasks == {t1, t2}
\* With and without a package.json, a tag, a promotion.
Ways == {[flow |-> "promote", tag |-> TRUE, node |-> TRUE],
         [flow |-> "commit", tag |-> TRUE, node |-> FALSE],
         [flow |-> "commit", tag |-> FALSE, node |-> TRUE],
         [flow |-> "plain", tag |-> TRUE, node |-> TRUE]}
Symmetric == Permutations(AllTasks)
=============================================================================
