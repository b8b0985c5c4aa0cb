------------------------------ MODULE MCDriver -------------------------------
(* Instances of Driver: a queue of one or two tasks, the second after the    *)
(* first, and the commands humans use meanwhile.                             *)
EXTENDS Driver, TLC

CONSTANTS t1, t2

TwoInOrder == <<t1, t2>>
One == <<t1>>
Chain == (t1 :> {}) @@ (t2 :> {t1})
Alone == (t1 :> {})

\* Nobody watches: tasks are specified, executors raise forks and edit files.
UnattendedCommands == {"spec", "align", "raise", "edit-test"}
UnattendedOverlaps == {"raise", "edit-test"} \X {"executor"}

\* A director answers, reviews and redirects tasks that are under way, parks and
\* resumes them, and re-opens none that are done.
DirectedCommands == {"spec", "raise", "answer", "review", "redirect", "block", "unblock"}
DirectedOverlaps ==
    ({"redirect"} \X {"executor", "checks"}) \cup ({"raise", "answer", "block"} \X {"executor"})
        \cup ({"answer", "unblock"} \X {"handoff"})
=============================================================================
