------------------------------ MODULE TestGates -------------------------------
(***************************************************************************)
(* What chalk work asks of a change once its executor is done: verify (the *)
(* toolchain, the locked tests, the browser specs), the test a feature must*)
(* ship, the break-it probe and the mutation probe.  Each runs commands    *)
(* that end as they like; the operators say what comes of it.              *)
(***************************************************************************)

\* How a command ends: with 0, with another status, or it could not run.
Ends == {"ok", "fails", "error"}

-----------------------------------------------------------------------------
(* verify                                                                  *)

\* A gate of protocol.verify; without a command it is skipped.
Gate == [command : BOOLEAN, when : {"task", "phase"}, ends : Ends]

\* runToolchain, in the mode of chalk work: the gates of a phase wait for its audit.
Runs(g) == g.command /\ g.when = "task"
Fails(g) == Runs(g) /\ g.ends # "ok"

\* A browser spec: what its runner wrote to run.json counts more than how it ended.
BrowserSpec == [ends : Ends, wrote : {"nothing", "passed", "failed"}]
Passes(s) == s.wrote = "passed" \/ (s.wrote = "nothing" /\ s.ends = "ok")

\* The locked tests of every task in progress are as they were locked: intact.
Verification == [gate : Gate, intact : BOOLEAN, e2e : BOOLEAN, spec : BrowserSpec]
Green(v) == ~Fails(v.gate) /\ v.intact /\ (v.e2e => Passes(v.spec))

-----------------------------------------------------------------------------
(* The tests.                                                              *)

\* The changed paths: code, code that is deleted, tests by name and extension, and
\* the spine, which is never the code under test.
Changes == SUBSET {"code", "deleted", "test", "spine"}
Reverted(change) == change \cap {"code", "deleted"}
Mutated(change) == change \cap {"code"}

\* What exempts a task from shipping a test.
Exemption == {"not required", "no criteria", "branch type", "label"}

\* missingRequiredTest: a test that is locked exists, and an empty change is not
\* this gate's business.
MissingRequiredTest(w) ==
    /\ w.exempt = {} /\ w.locked = {}
    /\ w.change # {} /\ "test" \notin w.change

\* A run of break-it: how each locked code test ends without the change.
\* evaluateBreakit: one that still passes asserts nothing; one that could not run
\* is reported and does not count.
Vacuous(runs) == {test \in DOMAIN runs : runs[test] = "ok"}

\* evaluateMutation: the files where the tool ran and left mutants alive.
Survived(runs) == {file \in DOMAIN runs : runs[file] = "fails"}

\* runBreakit probes when it is configured, there is a locked code test, and there
\* is something to revert.
Probes(w, breakTest) == breakTest /\ w.locked # {} /\ Reverted(w.change) # {}

-----------------------------------------------------------------------------
(* What chalk work comes to.                                               *)

\* The task and its change as the gates find them; the change is empty or not.
Worked(dirty) ==
    [exempt : {{}} \cup {{e} : e \in Exemption}, locked : SUBSET {"test"},
     change : {c \in Changes : (c # {}) = dirty}]

\* The mutation probe comes last, when it is configured.
Mutations(w) == UNION {[files -> Ends] : files \in {{}, Mutated(w.change)}}
AfterProbe(w) == {IF Survived(runs) = {} THEN "green" ELSE "red" : runs \in Mutations(w)}

Gated(w, v, breakTest) ==
    IF ~Green(v) \/ MissingRequiredTest(w) THEN {"red"}
    ELSE IF Probes(w, breakTest) THEN {"probe"} ELSE AfterProbe(w)

Probed(w, ends) ==
    IF Vacuous([test \in w.locked |-> ends]) # {} THEN {"red"} ELSE AfterProbe(w)

WorkOutcomes(dirty, breakTest) ==
    UNION {UNION {Gated(w, v, breakTest) : v \in Verification} : w \in Worked(dirty)}

ProbeOutcomes ==
    UNION {UNION {Probed(w, ends) : ends \in Ends} : w \in {x \in Worked(TRUE) : Probes(x, TRUE)}}
=============================================================================
