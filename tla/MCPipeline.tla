----------------------------- MODULE MCPipeline ------------------------------
(* Instances of Pipeline: one or two tasks.                                   *)
EXTENDS Pipeline, TLC

CONSTANTS t1, t2

TwoTasks == {t1, t2}
Symmetric == Permutations(TwoTasks)
=============================================================================
