------------------------------ MODULE SpineMeta ------------------------------
(***************************************************************************)
(* chalk.json: the held-out regression set and its gate (chalk guard,      *)
(* chalk audit, chalk phase, lib/regression.mjs), and the tamper evidence  *)
(* of the spine (Store.recordSpineHashes, spineTamper, warnSpineTamper).   *)
(*                                                                         *)
(* chalk.json is read, changed and saved without the spine lock, and guard *)
(* gen waits for an agent in between.  A recording of the hashes reads one *)
(* file after the other and then writes the baseline, and the check before *)
(* a command reads the baseline and then the files: each is a step.        *)
(* A hash is modelled by the content.                                      *)
(***************************************************************************)
EXTENDS Naturals, FiniteSets

CONSTANTS
    Procs,       \* processes that run chalk commands
    HeldOut,     \* held-out test files
    MaxEdition,  \* bound: contents of a held-out file
    MaxSize,     \* bound: the size of the code, in units of locPerTest
    MaxCommands, \* bound: commands run
    MaxMoves,    \* bound: edits by hand, changes of the code, kills
    MaxEvents    \* bound: commands and moves together

ASSUME MetaAssumption ==
    /\ IsFiniteSet(HeldOut)
    /\ {MaxEdition, MaxSize, MaxCommands, MaxMoves, MaxEvents} \subseteq Nat

VARIABLES
    meta,     \* chalk.json
    tasks,    \* tasks.json, as a number of its content
    base,     \* .chalk/local spine hashes: the contents recorded
    files,    \* the held-out files: their content, 0: there is none
    code,     \* the code: its size, and whether the held-out command passes
    proc,     \* per process: its command, how far it is, what it has read
    commands, moves,
    last,     \* history: the result of the last audit saved
    kept,     \* history: the locks, the phase saved
    hand,     \* history: files edited by hand since they were recorded
    quiet,    \* history: those edited while no command ran, different since, not warned about
    warned,   \* history: the files the last step warned about
    overlap,  \* history: the processes whose check ran while another recorded
    lapse     \* history: "overwritten", "unrecorded", "stale"

spine == <<meta, tasks, base>>
world == <<files, code>>
history == <<last, kept, hand, quiet, overlap, lapse>>
vars == <<spine, world, proc, commands, moves, history, warned>>

Guarded == {"meta", "tasks"}                         \* spineGuarded
Commands == {"task", "add", "gen", "audit", "phase"}
NoAudit == [green |-> FALSE, size |-> 0, count |-> 0]
Audits == [green : BOOLEAN, size : 0..MaxSize, count : 0..Cardinality(HeldOut)]
Locks == [HeldOut -> 0..MaxEdition]                  \* regression.tests, 0: not in it
Meta == [locks : Locks, audit : Audits, phase : Nat, hand : Nat]

Baseline == [meta : Meta, tasks : Nat]
Contents == [meta |-> meta, tasks |-> tasks]

\* How far a command is: the check before it, its own steps, the recording.
Checking == {"check", "compare"}
Recording == {"record", "hash", "write"}

\* A command under way: the chalk.json it has read, the audit it has run, the
\* hashes it compares with or will record, and the files it has found changed.
Command == [cmd : Commands \cup {"off"},
            at : {"off", "begin", "ran", "loaded"} \cup Checking \cup Recording,
            copy : Meta \cup {<<>>}, run : Audits,
            note : Baseline \cup {<<>>}, drift : SUBSET Guarded]
Off == [cmd |-> "off", at |-> "off", copy |-> <<>>, run |-> NoAudit,
        note |-> <<>>, drift |-> {}]

Init ==
    /\ meta = [locks |-> [f \in HeldOut |-> 0], audit |-> NoAudit, phase |-> 0, hand |-> 0]
    /\ tasks = 0
    /\ base = Contents
    /\ files = [f \in HeldOut |-> 0] /\ code = [size |-> 0, good |-> TRUE]
    /\ proc = [p \in Procs |-> Off] /\ commands = 0 /\ moves = 0
    /\ last = NoAudit /\ kept = [locks |-> meta.locks, phase |-> 0]
    /\ hand = {} /\ quiet = {} /\ warned = {} /\ overlap = {} /\ lapse = {}

Count(locks) == Cardinality({f \in HeldOut : locks[f] # 0})

\* Between two steps of a command.
Go(p, at) == proc' = [proc EXCEPT ![p].at = at]
At(p, cmds, at) == proc[p].cmd \in cmds /\ proc[p].at = at

-----------------------------------------------------------------------------
(* Tamper evidence.                                                        *)

\* The files that differ from a baseline.
Differ(b) == {f \in Guarded : b[f] # Contents[f]}

Busy == {p \in Procs : proc[p].at \in Recording}
Checks == {p \in Procs : proc[p].at \in Checking}

\* A process that will record the content `f` has: it reads `f` yet, or has read it.
WillRecord(q, f) ==
    \/ proc[q].at = "record"
    \/ proc[q].at = "hash" /\ (f = "meta" => proc[q].note.meta = meta)
    \/ proc[q].at = "write" /\ proc[q].note[f] = Contents[f]

\* warnSpineTamper comes before every command: spineTamper reads the baseline.
Enter(p, cmd) ==
    /\ proc[p] = Off /\ commands < MaxCommands /\ commands + moves < MaxEvents
    /\ commands' = commands + 1
    /\ proc' = [proc EXCEPT ![p] = [Off EXCEPT !.cmd = cmd, !.at = "check", !.note = base]]
    /\ warned' = {}
    /\ overlap' = IF Busy # {} THEN overlap \cup {p} ELSE overlap
    /\ UNCHANGED <<spine, world, moves, last, kept, hand, quiet, lapse>>

\* It reads chalk.json.
CompareMeta(p) ==
    /\ proc[p].at = "check"
    /\ proc' = [proc EXCEPT ![p].at = "compare", ![p].drift = Differ(proc[p].note) \cap {"meta"}]
    /\ warned' = {}
    /\ UNCHANGED <<spine, world, commands, moves, history>>

\* Mutant: the new state is accepted and nothing is said.
AcceptSilently(p) ==
    LET drift == proc[p].drift \cup (Differ(proc[p].note) \cap {"tasks"})
    IN  /\ proc[p].at = "compare"
        /\ proc' = [proc EXCEPT ![p].at = IF drift = {} THEN "begin" ELSE "record",
                                ![p].drift = drift, ![p].note = <<>>]
        /\ warned' = {}
        /\ overlap' = (IF drift = {} THEN overlap ELSE overlap \cup Checks) \ {p}
        /\ UNCHANGED <<spine, world, commands, moves, last, kept, hand, quiet, lapse>>

\* It reads tasks.json, warns of what it has found, and accepts that.
CompareTasks(p) ==
    LET drift == proc[p].drift \cup (Differ(proc[p].note) \cap {"tasks"})
    IN  /\ proc[p].at = "compare"
        /\ proc' = [proc EXCEPT ![p].at = IF drift = {} THEN "begin" ELSE "record",
                                ![p].drift = drift, ![p].note = <<>>]
        /\ warned' = drift /\ quiet' = quiet \ drift
        /\ overlap' = (IF drift = {} THEN overlap ELSE overlap \cup Checks) \ {p}
        /\ UNCHANGED <<spine, world, commands, moves, last, kept, hand, lapse>>

\* recordSpineHashes reads chalk.json, then tasks.json.
HashMeta(p) ==
    /\ proc[p].at = "record"
    /\ proc' = [proc EXCEPT ![p].at = "hash", ![p].note = [meta |-> meta, tasks |-> 0]]
    /\ warned' = {}
    /\ UNCHANGED <<spine, world, commands, moves, history>>

HashTasks(p) ==
    /\ proc[p].at = "hash"
    /\ proc' = [proc EXCEPT ![p].at = "write", ![p].note.tasks = tasks]
    /\ warned' = {}
    /\ UNCHANGED <<spine, world, commands, moves, history>>

\* After the check the command goes on, after a save it ends.
Recorded(c) == IF c.drift # {} THEN [c EXCEPT !.at = "begin", !.note = <<>>, !.drift = {}] ELSE Off

\* Mutant: saving records nothing.
WriteNothing(p) ==
    /\ proc[p].at = "write"
    /\ proc' = [proc EXCEPT ![p] = Recorded(proc[p])] /\ warned' = {}
    /\ UNCHANGED <<spine, world, commands, moves, history>>

\* It writes the baseline.  What has been saved meanwhile by a command that has
\* recorded already, is recorded as it was before.
WriteBaseline(p) ==
    /\ proc[p].at = "write"
    /\ base' = proc[p].note
    /\ proc' = [proc EXCEPT ![p] = Recorded(proc[p])] /\ warned' = {}
    /\ hand' = hand \cap Differ(base')
    /\ lapse' = IF \A f \in Differ(base') \ hand : \E q \in Procs \ {p} : WillRecord(q, f)
                THEN lapse ELSE lapse \cup {"stale"}
    /\ UNCHANGED <<meta, tasks, world, commands, moves, last, kept, quiet, overlap>>

\* A command that writes tasks.json, under the spine lock.  Its holder may lose that
\* (SpineLock), so two that save and record may overlap.
SaveTasks(p) ==
    /\ At(p, {"task"}, "begin")
    /\ tasks' = tasks + 1
    /\ Go(p, "record") /\ warned' = {}
    /\ overlap' = overlap \cup Checks
    /\ UNCHANGED <<meta, base, world, commands, moves, last, kept, hand, quiet, lapse>>

-----------------------------------------------------------------------------
(* guard, audit, phase.                                                    *)

\* runAudit: the locks, the size, the toolchain and the held-out command.
RunAudit(p) ==
    /\ At(p, {"audit"}, "begin")
    /\ LET broken == {f \in HeldOut : meta.locks[f] # 0 /\ files[f] # meta.locks[f]}
       IN  proc' = [proc EXCEPT ![p] = [@ EXCEPT
                       !.at = "ran",
                       !.run = [green |-> broken = {} /\ code.good,
                                size |-> code.size, count |-> 0]]]
    /\ warned' = {}
    /\ UNCHANGED <<spine, world, commands, moves, history>>

\* heldOutFloor
HeldOutFloor(size) == size

\* Mutant: the gate does not ask whether the code has grown.
GateUnsized(audit, locks) ==
    audit.green /\ Count(locks) >= HeldOutFloor(code.size)

\* The gate of phase: a green audit of code of this size, and a held-out set
\* that has grown with it.
GateP7(audit, locks) ==
    audit.green /\ audit.size = code.size /\ Count(locks) >= HeldOutFloor(code.size)

PhaseAllowed(p) ==
    /\ At(p, {"phase"}, "begin") /\ GateP7(meta.audit, meta.locks)
    /\ Go(p, "ran") /\ warned' = {}
    /\ UNCHANGED <<spine, world, commands, moves, history>>

\* Refused, or overridden with a reason.
PhaseRefused(p) ==
    /\ At(p, {"phase"}, "begin") /\ ~GateP7(meta.audit, meta.locks)
    /\ \/ proc' = [proc EXCEPT ![p] = Off]
       \/ Go(p, "ran")
    /\ warned' = {}
    /\ UNCHANGED <<spine, world, commands, moves, history>>

\* s.meta(): guard reads it first, audit and setPhase right before they save.
Load(p) ==
    /\ At(p, {"add", "gen"}, "begin") \/ At(p, {"audit", "phase"}, "ran")
    /\ proc' = [proc EXCEPT ![p] = [@ EXCEPT !.at = "loaded", !.copy = meta]]
    /\ warned' = {}
    /\ UNCHANGED <<spine, world, commands, moves, history>>

\* The author of guard gen writes a held-out file.
Author(p, f) ==
    /\ At(p, {"gen"}, "loaded") /\ files[f] < MaxEdition
    /\ files' = [files EXCEPT ![f] = @ + 1]
    /\ warned' = {}
    /\ UNCHANGED <<spine, code, proc, commands, moves, history>>

\* Mutant: locking a file replaces the set.
LockedAlone(copy, set) ==
    [copy EXCEPT !.locks = [f \in HeldOut |-> IF f \in set THEN files[f] ELSE 0]]

\* lockInto: added or renewed.
Locked(copy, set) ==
    [copy EXCEPT !.locks = [f \in HeldOut |-> IF f \in set THEN files[f] ELSE @[f]]]

Save(p, m) ==
    /\ meta' = m
    /\ lapse' = IF meta # proc[p].copy THEN lapse \cup {"overwritten"} ELSE lapse
    /\ Go(p, "record") /\ warned' = {}
    /\ overlap' = overlap \cup Checks
    /\ UNCHANGED <<tasks, base, world, commands, moves, hand, quiet>>

Present == {f \in HeldOut : files[f] # 0}

SaveGuard(p) ==
    /\ At(p, {"add", "gen"}, "loaded")
    /\ \E set \in SUBSET Present :
          /\ IF proc[p].cmd = "gen" THEN set = Present ELSE Cardinality(set) = 1
          /\ Save(p, Locked(proc[p].copy, set))
          /\ kept' = [kept EXCEPT !.locks = [f \in HeldOut |->
                                               IF f \in set THEN files[f] ELSE @[f]]]
    /\ UNCHANGED last

\* The count is that of the locks there are now.
SaveAudit(p) ==
    /\ At(p, {"audit"}, "loaded")
    /\ LET audit == [proc[p].run EXCEPT !.count = Count(proc[p].copy.locks)]
       IN  Save(p, [proc[p].copy EXCEPT !.audit = audit]) /\ last' = audit
    /\ UNCHANGED kept

SavePhase(p) ==
    /\ At(p, {"phase"}, "loaded")
    /\ Save(p, [proc[p].copy EXCEPT !.phase = @ + 1])
    /\ kept' = [kept EXCEPT !.phase = @ + 1]
    /\ UNCHANGED last

-----------------------------------------------------------------------------
(* The world.                                                              *)

Move ==
    /\ moves < MaxMoves /\ commands + moves < MaxEvents
    /\ moves' = moves + 1 /\ warned' = {}

\* Somebody edits a guarded file without chalk, and may put a content back that
\* it has had, the recorded one too: then there is nothing to warn about.
EditByHand(f) ==
    /\ Move
    /\ IF f = "meta"
       THEN /\ \E n \in (0..MaxMoves) \ {meta.hand} : meta' = [meta EXCEPT !.hand = n]
            /\ UNCHANGED tasks
       ELSE tasks' \in (0..(tasks + 1)) \ {tasks} /\ UNCHANGED meta
    /\ UNCHANGED <<base, world, proc, commands, last, kept, overlap, lapse>>
    /\ hand' = hand \cup {f}
    /\ quiet' = IF f \notin Differ(base)' THEN quiet \ {f}
                ELSE IF \A p \in Procs : proc[p] = Off THEN quiet \cup {f} ELSE quiet

\* The code changes, or a held-out file does.
Develop ==
    /\ Move
    /\ \/ /\ code' \in [size : 0..MaxSize, good : BOOLEAN] /\ UNCHANGED files
       \/ /\ \E f \in HeldOut : files[f] < MaxEdition /\ files' = [files EXCEPT ![f] = @ + 1]
          /\ UNCHANGED code
    /\ UNCHANGED <<spine, proc, commands, history>>

Kill(p) ==
    /\ proc[p] # Off /\ Move
    /\ proc' = [proc EXCEPT ![p] = Off]
    /\ lapse' = IF proc[p].at \in Recording THEN lapse \cup {"unrecorded"} ELSE lapse
    /\ overlap' = overlap \ {p}
    /\ UNCHANGED <<spine, world, commands, last, kept, hand, quiet>>

Next ==
    \/ \E p \in Procs :
          \/ \E cmd \in Commands : Enter(p, cmd)
          \/ CompareMeta(p) \/ CompareTasks(p)
          \/ HashMeta(p) \/ HashTasks(p) \/ WriteBaseline(p)
          \/ SaveTasks(p)
          \/ RunAudit(p) \/ PhaseAllowed(p) \/ PhaseRefused(p)
          \/ Load(p) \/ (\E f \in HeldOut : Author(p, f))
          \/ SaveGuard(p) \/ SaveAudit(p) \/ SavePhase(p)
          \/ Kill(p)
    \/ \E f \in Guarded : EditByHand(f)
    \/ Develop

Spec == Init /\ [][Next]_vars

-----------------------------------------------------------------------------
(* Properties.                                                             *)

TypeOK ==
    /\ meta \in Meta /\ tasks \in Nat /\ base \in Baseline
    /\ files \in Locks /\ code \in [size : 0..MaxSize, good : BOOLEAN]
    /\ proc \in [Procs -> Command]
    /\ \A p \in Procs :
          /\ proc[p].at = "loaded" => proc[p].copy \in Meta
          /\ proc[p].at \in Checking \cup {"hash", "write"} => proc[p].note \in Baseline
    /\ commands \in 0..MaxCommands /\ moves \in 0..MaxMoves
    /\ last \in Audits /\ kept \in [locks : Locks, phase : Nat]
    /\ quiet \subseteq Guarded /\ hand \subseteq Guarded /\ warned \subseteq Guarded
    /\ overlap \subseteq Procs /\ lapse \subseteq {"overwritten", "unrecorded", "stale"}

\* The phase gate lets pass only what the last audit found green, at the size
\* the code has, unless a command that had read chalk.json before (guard gen
\* waits for its author meanwhile) has written an older audit back.
GateIsFresh ==
    [][\A p \in Procs :
          PhaseAllowed(p) =>
              \/ last.green /\ last.size = code.size
              \/ "overwritten" \in lapse]_vars

\* Locks, phase and audit are what the commands made them: no save of chalk.json
\* undoes another's, unless it had read the file before that one was made.
NothingUndone ==
    \/ "overwritten" \in lapse
    \/ meta.locks = kept.locks /\ meta.phase = kept.phase /\ meta.audit = last

\* An edit by hand that was made while no command ran is warned about before the
\* baseline is written anew, by whichever command comes first and whatever others
\* check and save meanwhile, unless the recorded content has been put back.
EditsAreSeen == [][base' # base => quiet = {}]_vars

\* A warning is about a file that was edited by hand, unless a command recorded
\* while this one checked, or a recording was cut off by a kill, or one that had
\* read a file before another command's save was written after that one's.
NoFalseAlarm ==
    [][\A p \in Procs :
          CompareTasks(p) => \/ warned' \subseteq hand
                             \/ p \in overlap
                             \/ lapse \cap {"unrecorded", "stale"} # {}]_vars

=============================================================================
