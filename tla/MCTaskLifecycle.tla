--------------------------- MODULE MCTaskLifecycle ---------------------------
(* Instances of TaskLifecycle: which commands are in use and which of them   *)
(* may be issued while a long handler is under way on the same task.         *)
EXTENDS TaskLifecycle, TLC

\* Every command.
Everything == AllCommands

\* An executor raises a fork while it runs, and the test file changes under it and
\* under the reviewer; nothing else overlaps.
ByAgents == {<<"raise", "executor">>} \cup ({"edit-test"} \X {"executor", "review"})

\* A director answers a fork while the executor that raised it still runs.
Answers == {<<"raise", "executor">>, <<"answer", "executor">>}

RaiseCommands == {"spec", "start", "work", "raise", "answer"}
=============================================================================
