--------------------------- MODULE SpineMetaProofs ----------------------------
(***************************************************************************)
(* Proofs about SpineMeta, for any processes, held-out files and bounds.   *)
(***************************************************************************)
EXTENDS SpineMeta, FiniteSetTheorems, TLAPS

\* A held-out set has at most as many locks as there are files.
LEMMA CountBound == \A locks \in Locks : Count(locks) \in 0..Cardinality(HeldOut)
<1> TAKE locks \in Locks
<1>1. {f \in HeldOut : locks[f] # 0} \subseteq HeldOut
  OBVIOUS
<1>2. QED
  BY <1>1, MetaAssumption, FS_Subset, FS_CardinalityType DEF Count

-----------------------------------------------------------------------------
(* Types.                                                                  *)

LEMMA OffTypes == Off \in Command
<1>1. NoAudit \in Audits
  BY MetaAssumption, FS_CardinalityType DEF NoAudit, Audits
<1>2. QED
  BY <1>1 DEF Off, Command, Checking, Recording

LEMMA InitTypes == Init => TypeOK
<1> SUFFICES ASSUME Init PROVE TypeOK
  OBVIOUS
<1>1. NoAudit \in Audits
  BY MetaAssumption, FS_CardinalityType DEF NoAudit, Audits
<1>2. meta \in Meta /\ kept \in [locks : Locks, phase : Nat] /\ files \in Locks
  BY <1>1, MetaAssumption DEF Init, Meta, Locks
<1>3. QED
  BY <1>1, <1>2, OffTypes, MetaAssumption DEF Init, TypeOK, Guarded, Off, Baseline, Contents, Checking

\* What a command has read, by how far it is.
Fits(c) ==
    /\ c \in Command
    /\ c.at = "loaded" => c.copy \in Meta
    /\ c.at \in Checking \cup {"hash", "write"} => c.note \in Baseline

LEMMA ContentTypes == TypeOK => Contents \in Baseline
BY DEF TypeOK, Contents, Baseline

\* A command that becomes `c`.
LEMMA PutTypes ==
  ASSUME TypeOK, NEW p \in Procs, NEW c, Fits(c), proc' = [proc EXCEPT ![p] = c]
  PROVE  /\ proc' \in [Procs -> Command]
         /\ \A q \in Procs :
               /\ proc'[q].at = "loaded" => proc'[q].copy \in Meta
               /\ proc'[q].at \in Checking \cup {"hash", "write"} => proc'[q].note \in Baseline
BY DEF TypeOK, Fits

\* A command that goes on, keeping what it has read.
LEMMA GoTypes ==
  ASSUME TypeOK, NEW p \in Procs, NEW at \in {"ran", "record"}, Go(p, at)
  PROVE  /\ proc' \in [Procs -> Command]
         /\ \A q \in Procs :
               /\ proc'[q].at = "loaded" => proc'[q].copy \in Meta
               /\ proc'[q].at \in Checking \cup {"hash", "write"} => proc'[q].note \in Baseline
<1> DEFINE c == [proc[p] EXCEPT !.at = at]
<1>1. Fits(c) /\ proc' = [proc EXCEPT ![p] = c]
  BY DEF TypeOK, Go, Command, Fits, Checking, Recording
<1>2. QED
  BY <1>1, PutTypes

\* What a save of chalk.json leaves: a record, and a command at its second half.
LEMMA SavedTypes ==
  ASSUME TypeOK, NEW p \in Procs, NEW m \in Meta, Save(p, m),
         last' \in Audits, kept' \in [locks : Locks, phase : Nat]
  PROVE  TypeOK'
<1>1. Go(p, "record") /\ overlap' \subseteq Procs
  BY DEF Save, TypeOK, Checks
<1>2. QED
  BY <1>1, GoTypes DEF TypeOK, Save, world

\* The steps of the check and of the recording.
LEMMA TamperTypes ==
  ASSUME TypeOK, NEW p \in Procs,
         \/ CompareMeta(p) \/ CompareTasks(p) \/ HashMeta(p) \/ HashTasks(p) \/ WriteBaseline(p)
  PROVE  TypeOK'
<1>1. proc[p] \in Command /\ meta \in Meta /\ tasks \in Nat
  BY DEF TypeOK
<1>2. CASE CompareMeta(p)
  <2> DEFINE c == [proc[p] EXCEPT !.at = "compare", !.drift = Differ(proc[p].note) \cap {"meta"}]
  <2>1. Fits(c)
    BY <1>1, <1>2 DEF CompareMeta, TypeOK, Command, Fits, Checking, Recording, Differ
  <2>2. proc' = [proc EXCEPT ![p] = c]
    BY <1>2 DEF CompareMeta, TypeOK
  <2>3. QED
    BY <1>2, <2>1, <2>2, PutTypes DEF CompareMeta, TypeOK, spine, world, history
<1>3. CASE CompareTasks(p)
  <2> DEFINE drift == proc[p].drift \cup (Differ(proc[p].note) \cap {"tasks"})
             c == [proc[p] EXCEPT !.at = IF drift = {} THEN "begin" ELSE "record",
                                  !.drift = drift, !.note = <<>>]
  <2>1. Fits(c) /\ drift \subseteq Guarded
    BY <1>1 DEF Command, Fits, Checking, Recording, Differ
  <2>2. proc' = [proc EXCEPT ![p] = c]
    BY <1>3 DEF CompareTasks, TypeOK
  <2>3. warned' \subseteq Guarded /\ quiet' \subseteq Guarded /\ overlap' \subseteq Procs
    BY <1>3, <2>1 DEF CompareTasks, TypeOK, Checks
  <2> HIDE DEF c
  <2>4. QED
    BY <1>3, <2>1, <2>2, <2>3, PutTypes DEF CompareTasks, TypeOK, spine, world
<1>4. CASE HashMeta(p)
  <2> DEFINE c == [proc[p] EXCEPT !.at = "hash", !.note = [meta |-> meta, tasks |-> 0]]
  <2>1. Fits(c)
    BY <1>1 DEF Command, Fits, Checking, Recording, Baseline
  <2>2. proc' = [proc EXCEPT ![p] = c]
    BY <1>4 DEF HashMeta, TypeOK
  <2>3. QED
    BY <1>4, <2>1, <2>2, PutTypes DEF HashMeta, TypeOK, spine, world, history
<1>5. CASE HashTasks(p)
  <2> DEFINE c == [proc[p] EXCEPT !.at = "write", !.note = [proc[p].note EXCEPT !.tasks = tasks]]
  <2>1. proc[p].note \in Baseline
    BY <1>5 DEF HashTasks, TypeOK
  <2>2. Fits(c)
    BY <1>1, <2>1 DEF Command, Fits, Checking, Recording, Baseline
  <2>3. proc' = [proc EXCEPT ![p] = c]
    BY <1>5 DEF HashTasks, TypeOK
  <2>4. QED
    BY <1>5, <2>2, <2>3, PutTypes DEF HashTasks, TypeOK, spine, world, history
<1>6. CASE WriteBaseline(p)
  <2>1. Fits(Recorded(proc[p]))
    BY <1>1, OffTypes DEF Recorded, Command, Fits, Checking, Recording, Off
  <2>2. base' \in Baseline /\ hand' \subseteq Guarded
    BY <1>6 DEF WriteBaseline, TypeOK
  <2>3. QED
    BY <1>6, <2>1, <2>2, PutTypes DEF WriteBaseline, TypeOK, world
<1>7. QED
  BY <1>2, <1>3, <1>4, <1>5, <1>6

LEMMA NextTypes == TypeOK /\ [Next]_vars => TypeOK'
<1> SUFFICES ASSUME TypeOK, [Next]_vars PROVE TypeOK'
  OBVIOUS
<1> USE MetaAssumption
<1>1. ASSUME NEW p \in Procs, NEW cmd \in Commands, Enter(p, cmd) PROVE TypeOK'
  <2> DEFINE c == [Off EXCEPT !.cmd = cmd, !.at = "check", !.note = base]
  <2>1. Fits(c)
    BY OffTypes DEF Off, Command, Fits, Checking, Recording, TypeOK
  <2>2. proc' = [proc EXCEPT ![p] = c] /\ commands' \in 0..MaxCommands /\ overlap' \subseteq Procs
    BY <1>1 DEF Enter, TypeOK
  <2> HIDE DEF c
  <2>3. QED
    BY <1>1, <2>1, <2>2, PutTypes DEF Enter, TypeOK, spine, world
<1>2. ASSUME NEW p \in Procs,
             CompareMeta(p) \/ CompareTasks(p) \/ HashMeta(p) \/ HashTasks(p) \/ WriteBaseline(p)
      PROVE  TypeOK'
  BY <1>2, TamperTypes
<1>3. ASSUME NEW p \in Procs, SaveTasks(p) PROVE TypeOK'
  <2>1. Go(p, "record") /\ overlap' \subseteq Procs
    BY <1>3 DEF SaveTasks, TypeOK, Checks
  <2>2. QED
    BY <1>3, <2>1, GoTypes DEF SaveTasks, TypeOK, world
<1>4. ASSUME NEW p \in Procs, RunAudit(p) PROVE TypeOK'
  <2> DEFINE broken == {f \in HeldOut : meta.locks[f] # 0 /\ files[f] # meta.locks[f]}
  <2>1. [green |-> broken = {} /\ code.good, size |-> code.size, count |-> 0] \in Audits
    BY FS_CardinalityType DEF Audits, TypeOK
  <2> DEFINE c == [proc[p] EXCEPT !.at = "ran",
                                  !.run = [green |-> broken = {} /\ code.good,
                                           size |-> code.size, count |-> 0]]
  <2>2. Fits(c) /\ proc' = [proc EXCEPT ![p] = c]
    <3>1. proc[p] \in Command
      BY DEF TypeOK
    <3>2. Fits(c)
      BY <2>1, <3>1 DEF Command, Fits, Checking, Recording
    <3>3. proc' = [proc EXCEPT ![p] = c]
      BY <1>4 DEF RunAudit
    <3>4. QED
      BY <3>2, <3>3
  <2>3. /\ proc' \in [Procs -> Command]
        /\ \A q \in Procs :
              /\ proc'[q].at = "loaded" => proc'[q].copy \in Meta
              /\ proc'[q].at \in Checking \cup {"hash", "write"} => proc'[q].note \in Baseline
    BY <2>2, PutTypes
  <2>4. QED
    BY <1>4, <2>3 DEF RunAudit, TypeOK, spine, world, history
<1>5. ASSUME NEW p \in Procs, PhaseAllowed(p) \/ PhaseRefused(p) PROVE TypeOK'
  <2>1. Go(p, "ran") \/ proc' = [proc EXCEPT ![p] = Off]
    BY <1>5 DEF PhaseAllowed, PhaseRefused
  <2>2. /\ proc' \in [Procs -> Command]
        /\ \A q \in Procs :
              /\ proc'[q].at = "loaded" => proc'[q].copy \in Meta
              /\ proc'[q].at \in Checking \cup {"hash", "write"} => proc'[q].note \in Baseline
    <3>1. Fits(Off)
      BY OffTypes DEF Fits, Off, Checking
    <3>2. QED
      BY <2>1, <3>1, GoTypes, PutTypes
  <2>3. UNCHANGED <<spine, world, commands, moves, history>> /\ warned' = {}
    BY <1>5 DEF PhaseAllowed, PhaseRefused
  <2>4. QED
    BY <2>2, <2>3 DEF TypeOK, spine, world, history
<1>6. ASSUME NEW p \in Procs, Load(p) PROVE TypeOK'
  <2> DEFINE c == [proc[p] EXCEPT !.at = "loaded", !.copy = meta]
  <2>1. Fits(c) /\ proc' = [proc EXCEPT ![p] = c]
    BY <1>6 DEF Load, TypeOK, Command, Fits, Checking, Recording
  <2>2. /\ proc' \in [Procs -> Command]
        /\ \A q \in Procs :
              /\ proc'[q].at = "loaded" => proc'[q].copy \in Meta
              /\ proc'[q].at \in Checking \cup {"hash", "write"} => proc'[q].note \in Baseline
    BY <2>1, PutTypes
  <2>3. QED
    BY <1>6, <2>2 DEF Load, TypeOK, spine, world, history
<1>7. ASSUME NEW p \in Procs, NEW f \in HeldOut, Author(p, f) PROVE TypeOK'
  BY <1>7 DEF Author, TypeOK, Locks, spine, history
<1>8. ASSUME NEW p \in Procs, SaveGuard(p) PROVE TypeOK'
  <2>1. PICK set \in SUBSET Present :
          /\ Save(p, Locked(proc[p].copy, set))
          /\ kept' = [kept EXCEPT !.locks = [f \in HeldOut |-> IF f \in set THEN files[f] ELSE @[f]]]
    BY <1>8 DEF SaveGuard
  <2>2. Locked(proc[p].copy, set) \in Meta
    BY <1>8 DEF SaveGuard, At, TypeOK, Locked, Meta, Locks
  <2>3. kept' \in [locks : Locks, phase : Nat]
    BY <2>1 DEF TypeOK, Locks
  <2>4. last' \in Audits
    BY <1>8 DEF SaveGuard, TypeOK
  <2>5. QED
    BY <2>1, <2>2, <2>3, <2>4, SavedTypes
<1>9. ASSUME NEW p \in Procs, SaveAudit(p) PROVE TypeOK'
  <2> DEFINE audit == [proc[p].run EXCEPT !.count = Count(proc[p].copy.locks)]
  <2>1. proc[p].copy \in Meta /\ proc[p].run \in Audits
    BY <1>9 DEF SaveAudit, At, TypeOK, Command
  <2>2. audit \in Audits
    BY <2>1, CountBound DEF Audits, Meta
  <2>3. [proc[p].copy EXCEPT !.audit = audit] \in Meta
    BY <2>1, <2>2 DEF Meta
  <2>4. Save(p, [proc[p].copy EXCEPT !.audit = audit]) /\ last' = audit /\ kept' = kept
    BY <1>9 DEF SaveAudit
  <2>5. QED
    BY <2>2, <2>3, <2>4, SavedTypes DEF TypeOK
<1>10. ASSUME NEW p \in Procs, SavePhase(p) PROVE TypeOK'
  <2>1. [proc[p].copy EXCEPT !.phase = @ + 1] \in Meta
    BY <1>10 DEF SavePhase, At, TypeOK, Meta
  <2>2. kept' \in [locks : Locks, phase : Nat] /\ last' \in Audits
    BY <1>10 DEF SavePhase, TypeOK
  <2>3. QED
    BY <1>10, <2>1, <2>2, SavedTypes DEF SavePhase
<1>11. ASSUME NEW p \in Procs, Kill(p) PROVE TypeOK'
  <2>1. Fits(Off)
    BY OffTypes DEF Fits, Off, Checking
  <2>2. proc' = [proc EXCEPT ![p] = Off] /\ moves' \in 0..MaxMoves
    BY <1>11 DEF Kill, Move, TypeOK
  <2>3. QED
    BY <1>11, <2>1, <2>2, PutTypes DEF Kill, Move, TypeOK, spine, world
<1>12. ASSUME NEW f \in Guarded, EditByHand(f) PROVE TypeOK'
  BY <1>12 DEF EditByHand, Move, TypeOK, Meta, world
<1>13. ASSUME Develop PROVE TypeOK'
  BY <1>13 DEF Develop, Move, TypeOK, Locks, spine, history
<1>14. CASE UNCHANGED vars
  BY <1>14 DEF vars, spine, world, history, TypeOK
<1>15. QED
  BY <1>1, <1>2, <1>3, <1>4, <1>5, <1>6, <1>7, <1>8, <1>9, <1>10, <1>11, <1>12, <1>13, <1>14
     DEF Next

\* chalk.json, the hashes, the commands under way and the histories keep their
\* types in every reachable state.
THEOREM MetaTypeCorrect == Spec => []TypeOK
BY InitTypes, NextTypes, PTL DEF Spec

-----------------------------------------------------------------------------
(* chalk.json: nothing is undone, and the gate is fresh.                   *)

LEMMA NothingUndoneNext == TypeOK /\ NothingUndone /\ [Next]_vars => NothingUndone'
<1> SUFFICES ASSUME TypeOK, NothingUndone, [Next]_vars PROVE NothingUndone'
  OBVIOUS
<1>1. ASSUME UNCHANGED <<meta, last, kept>>, lapse \subseteq lapse' PROVE NothingUndone'
  BY <1>1 DEF NothingUndone
<1>2. ASSUME NEW p \in Procs, SaveGuard(p) PROVE NothingUndone'
  <2>1. PICK set \in SUBSET Present :
          /\ Save(p, Locked(proc[p].copy, set))
          /\ kept' = [kept EXCEPT !.locks = [f \in HeldOut |-> IF f \in set THEN files[f] ELSE @[f]]]
    BY <1>2 DEF SaveGuard
  <2>2. CASE meta # proc[p].copy
    BY <2>1, <2>2 DEF Save, NothingUndone
  <2>3. CASE meta = proc[p].copy
    <3>1. lapse' = lapse /\ meta' = Locked(meta, set) /\ last' = last
      BY <1>2, <2>1, <2>3 DEF Save, SaveGuard
    <3>2. /\ meta'.locks = [f \in HeldOut |-> IF f \in set THEN files[f] ELSE meta.locks[f]]
          /\ meta'.phase = meta.phase /\ meta'.audit = meta.audit
      BY <3>1 DEF Locked, TypeOK, Meta
    <3>3. /\ kept'.locks = [f \in HeldOut |-> IF f \in set THEN files[f] ELSE kept.locks[f]]
          /\ kept'.phase = kept.phase
      BY <2>1 DEF TypeOK
    <3>4. QED
      BY <3>1, <3>2, <3>3 DEF NothingUndone
  <2>4. QED
    BY <2>2, <2>3
<1>3. ASSUME NEW p \in Procs, SaveAudit(p) PROVE NothingUndone'
  <2> DEFINE audit == [proc[p].run EXCEPT !.count = Count(proc[p].copy.locks)]
  <2>1. /\ meta' = [proc[p].copy EXCEPT !.audit = audit]
        /\ last' = audit /\ kept' = kept
        /\ lapse' = IF meta # proc[p].copy THEN lapse \cup {"overwritten"} ELSE lapse
    BY <1>3 DEF SaveAudit, Save
  <2>2. QED
    BY <2>1 DEF NothingUndone, TypeOK, Meta
<1>4. ASSUME NEW p \in Procs, SavePhase(p) PROVE NothingUndone'
  <2>1. /\ meta' = [proc[p].copy EXCEPT !.phase = @ + 1]
        /\ last' = last /\ kept' = [kept EXCEPT !.phase = @ + 1]
        /\ lapse' = IF meta # proc[p].copy THEN lapse \cup {"overwritten"} ELSE lapse
    BY <1>4 DEF SavePhase, Save
  <2>2. QED
    BY <2>1 DEF NothingUndone, TypeOK, Meta
<1>5. ASSUME NEW p \in Procs, Kill(p) PROVE NothingUndone'
  BY <1>5 DEF Kill, NothingUndone, spine
<1>6. ASSUME NEW f \in Guarded, EditByHand(f) PROVE NothingUndone'
  BY <1>6 DEF EditByHand, NothingUndone, TypeOK, Meta
<1>7. ASSUME NEW p \in Procs, WriteBaseline(p) PROVE NothingUndone'
  BY <1>1, <1>7 DEF WriteBaseline
<1>8. ASSUME NEW p \in Procs,
             \/ \E cmd \in Commands : Enter(p, cmd)
             \/ CompareMeta(p) \/ CompareTasks(p) \/ HashMeta(p) \/ HashTasks(p) \/ SaveTasks(p)
             \/ RunAudit(p) \/ PhaseAllowed(p) \/ PhaseRefused(p) \/ Load(p)
             \/ \E f \in HeldOut : Author(p, f)
      PROVE  NothingUndone'
  BY <1>1, <1>8 DEF Enter, CompareMeta, CompareTasks, HashMeta, HashTasks, SaveTasks, RunAudit,
                    PhaseAllowed, PhaseRefused, Load, Author, spine, history
<1>9. CASE Develop \/ UNCHANGED vars
  BY <1>1, <1>9 DEF Develop, vars, spine, history
<1>10. QED
  BY <1>2, <1>3, <1>4, <1>5, <1>6, <1>7, <1>8, <1>9 DEF Next

\* Locks, phase and audit are what the commands made them, until a command saves
\* chalk.json over a version it has not read.
THEOREM SavesUndoNothing == Spec => []NothingUndone
<1>1. Init => NothingUndone
  BY DEF Init, NothingUndone
<1>2. QED
  BY <1>1, NothingUndoneNext, MetaTypeCorrect, PTL DEF Spec

\* chalk phase passes on the last audit that was saved, at the size the code has
\* now, as long as nothing was undone.
THEOREM PhaseGateIsFresh == Spec => GateIsFresh
<1>1. NothingUndone => [\A p \in Procs :
                            PhaseAllowed(p) => \/ last.green /\ last.size = code.size
                                               \/ "overwritten" \in lapse]_vars
  BY DEF NothingUndone, PhaseAllowed, GateP7
<1>2. QED
  BY <1>1, SavesUndoNothing, PTL DEF GateIsFresh

-----------------------------------------------------------------------------
(* Tamper evidence.                                                        *)

\* What a command makes of its place, once the check has let it through.
AtWork(p) ==
    \/ SaveTasks(p) \/ RunAudit(p) \/ PhaseAllowed(p) \/ PhaseRefused(p) \/ Load(p)
    \/ \E f \in HeldOut : Author(p, f)
    \/ SaveGuard(p) \/ SaveAudit(p) \/ SavePhase(p)

\* It is past its check, saves at most one of the two files, and then records.
LEMMA Works ==
  ASSUME TypeOK, NEW p \in Procs, AtWork(p)
  PROVE  /\ proc[p].at \in {"begin", "ran", "loaded"}
         /\ UNCHANGED <<base, hand, quiet>> /\ warned' = {}
         /\ \A q \in Procs \ {p} : proc'[q] = proc[q]
         /\ proc'[p].at \notin Checking
         /\ lapse \subseteq lapse'
         /\ \/ UNCHANGED <<meta, tasks, overlap, lapse>> /\ proc'[p].at \notin Recording
            \/ overlap' = overlap \cup Checks /\ proc'[p].at = "record"
<1>1. proc[p].at \in {"begin", "ran", "loaded"}
  BY DEF AtWork, SaveTasks, RunAudit, PhaseAllowed, PhaseRefused, Load, Author, SaveGuard,
         SaveAudit, SavePhase, At
<1>2. proc \in [Procs -> Command]
  BY DEF TypeOK
<1>3. CASE SaveTasks(p) \/ \E m : Save(p, m)
  <2>1. /\ UNCHANGED <<base, hand, quiet>> /\ warned' = {} /\ Go(p, "record")
        /\ lapse \subseteq lapse' /\ overlap' = overlap \cup Checks
    BY <1>3 DEF SaveTasks, Save
  <2>2. proc'[p].at = "record" /\ \A q \in Procs \ {p} : proc'[q] = proc[q]
    BY <1>2, <2>1 DEF Go, Command
  <2>3. QED
    BY <1>1, <2>1, <2>2 DEF Checking
<1>4. CASE \/ RunAudit(p) \/ PhaseAllowed(p) \/ PhaseRefused(p) \/ Load(p)
           \/ \E f \in HeldOut : Author(p, f)
  <2>1. UNCHANGED <<meta, tasks, overlap, lapse, base, hand, quiet>> /\ warned' = {}
    BY <1>4 DEF RunAudit, PhaseAllowed, PhaseRefused, Load, Author, spine, history
  <2>2. proc'[p].at \in {"begin", "ran", "loaded", "off"} /\ \A q \in Procs \ {p} : proc'[q] = proc[q]
    <3>1. CASE RunAudit(p)
      BY <1>2, <3>1 DEF RunAudit, Command
    <3>2. CASE PhaseAllowed(p) \/ PhaseRefused(p)
      BY <1>2, <3>2 DEF PhaseAllowed, PhaseRefused, Go, Command, Off
    <3>3. CASE Load(p)
      BY <1>2, <3>3 DEF Load, Command
    <3>4. CASE \E f \in HeldOut : Author(p, f)
      BY <1>1, <3>4 DEF Author
    <3>5. QED
      BY <1>4, <3>1, <3>2, <3>3, <3>4
  <2>3. QED
    BY <1>1, <2>1, <2>2 DEF Checking, Recording
<1>5. QED
  BY <1>3, <1>4 DEF AtWork, SaveGuard, SaveAudit, SavePhase

\* A quiet edit waits for the next command: nobody is past the check, which has
\* the baseline as it is, and has found the edit if it has read the file.
QuietInv ==
    /\ quiet \subseteq Differ(base)
    /\ quiet # {} => \A p \in Procs :
          \/ proc[p] = Off
          \/ proc[p].at = "check" /\ proc[p].note = base
          \/ proc[p].at = "compare" /\ proc[p].note = base /\ quiet \cap {"meta"} \subseteq proc[p].drift

LEMMA ProcTypes == TypeOK => proc \in [Procs -> Command]
BY DEF TypeOK

LEMMA QuietNext == TypeOK /\ QuietInv /\ [Next]_vars => QuietInv'
<1> SUFFICES ASSUME TypeOK, QuietInv, [Next]_vars PROVE QuietInv'
  OBVIOUS
<1>1. ASSUME quiet' = {} PROVE QuietInv'
  BY <1>1 DEF QuietInv
<1>2. ASSUME quiet = {}, quiet' = {} PROVE QuietInv'
  BY <1>2 DEF QuietInv
<1>3. ASSUME NEW p \in Procs, NEW cmd \in Commands, Enter(p, cmd) PROVE QuietInv'
  <2>1. /\ UNCHANGED <<meta, tasks, base, quiet>>
        /\ \A q \in Procs \ {p} : proc'[q] = proc[q]
        /\ proc'[p].at = "check" /\ proc'[p].note = base
    BY <1>3, ProcTypes DEF Enter, Off, spine
  <2>2. QED
    BY <2>1 DEF QuietInv, Differ, Contents
<1>4. ASSUME NEW p \in Procs, CompareMeta(p) PROVE QuietInv'
  <2>1. /\ UNCHANGED <<meta, tasks, base, quiet>>
        /\ \A q \in Procs \ {p} : proc'[q] = proc[q]
        /\ proc'[p].at = "compare" /\ proc'[p].note = proc[p].note
        /\ proc'[p].drift = Differ(proc[p].note) \cap {"meta"}
    BY <1>4, ProcTypes DEF CompareMeta, Command, spine, history
  <2>2. proc[p].at = "check"
    BY <1>4 DEF CompareMeta
  <2>3. Differ(base)' = Differ(base)
    BY <2>1 DEF Differ, Contents
  <2>4. quiet # {} => proc[p].note = base
    BY <2>2 DEF QuietInv, Off
  <2>5. QED
    BY <2>1, <2>3, <2>4 DEF QuietInv
<1>5. ASSUME NEW p \in Procs, CompareTasks(p) PROVE QuietInv'
  <2>1. CASE quiet = {}
    <3>1. quiet' = {}
      BY <1>5, <2>1 DEF CompareTasks
    <3>2. QED
      BY <1>1, <3>1
  <2>2. CASE quiet # {}
    <3>1. proc[p].at = "compare" /\ proc[p].note = base /\ quiet \cap {"meta"} \subseteq proc[p].drift
      <4>1. proc[p].at = "compare"
        BY <1>5 DEF CompareTasks
      <4>2. proc[p] # Off
        BY <4>1 DEF Off
      <4>3. QED
        BY <2>2, <4>1, <4>2 DEF QuietInv
    <3>2. quiet \subseteq proc[p].drift \cup (Differ(proc[p].note) \cap {"tasks"})
      BY <3>1 DEF QuietInv, Differ, Guarded
    <3>3. quiet' = {}
      BY <1>5, <3>2 DEF CompareTasks
    <3>4. QED
      BY <1>1, <3>3
  <2>3. QED
    BY <2>1, <2>2
<1>6. ASSUME NEW p \in Procs, HashMeta(p) \/ HashTasks(p) \/ WriteBaseline(p) \/ AtWork(p)
      PROVE  QuietInv'
  <2>1. proc[p].at \in {"record", "hash", "write", "begin", "ran", "loaded"}
    BY <1>6, Works DEF HashMeta, HashTasks, WriteBaseline
  <2>2. quiet = {}
    BY <2>1 DEF QuietInv, Off
  <2>3. quiet' = quiet
    BY <1>6, Works DEF HashMeta, HashTasks, WriteBaseline, history
  <2>4. QED
    BY <1>1, <2>2, <2>3
<1>7. ASSUME NEW p \in Procs, Kill(p) PROVE QuietInv'
  BY <1>7 DEF Kill, QuietInv, Differ, Contents, TypeOK, spine
<1>8. ASSUME NEW f \in Guarded, EditByHand(f) PROVE QuietInv'
  <2>1. proc' = proc /\ base' = base
    BY <1>8 DEF EditByHand
  <2>2. Differ(base)' \ {f} = Differ(base) \ {f}
    BY <1>8 DEF EditByHand, Differ, Guarded, Contents
  <2>3. CASE f \notin Differ(base)'
    BY <1>8, <2>1, <2>2, <2>3 DEF EditByHand, QuietInv
  <2>4. CASE f \in Differ(base)' /\ \A p \in Procs : proc[p] = Off
    BY <1>8, <2>1, <2>2, <2>4 DEF EditByHand, QuietInv
  <2>5. CASE f \in Differ(base)' /\ ~ \A p \in Procs : proc[p] = Off
    BY <1>8, <2>1, <2>2, <2>5 DEF EditByHand, QuietInv
  <2>6. QED
    BY <2>3, <2>4, <2>5
<1>9. CASE Develop \/ UNCHANGED vars
  BY <1>9 DEF Develop, vars, spine, world, history, QuietInv, Differ, Contents
<1>10. QED
  BY <1>3, <1>4, <1>5, <1>6, <1>7, <1>8, <1>9 DEF Next, AtWork

\* An edit by hand made while no command ran is warned about before the baseline
\* is written anew, whatever commands check and save meanwhile.
THEOREM QuietEditsAreSeen == Spec => EditsAreSeen
<1>1. Init => QuietInv
  BY DEF Init, QuietInv
<1>2. TypeOK /\ QuietInv /\ [Next]_vars => [base' # base => quiet = {}]_vars
  <2> SUFFICES ASSUME TypeOK, QuietInv, Next, base' # base PROVE quiet = {}
    BY DEF vars, spine
  <2>1. PICK p \in Procs : WriteBaseline(p)
    <3>1. ASSUME NEW p \in Procs, AtWork(p) PROVE base' = base
      BY <3>1, Works
    <3>2. QED
      BY <3>1 DEF Next, AtWork, Enter, CompareMeta, CompareTasks, HashMeta, HashTasks, Kill,
                  EditByHand, Develop, spine
  <2>2. QED
    BY <2>1 DEF WriteBaseline, QuietInv, Off
<1>3. QED
  BY <1>1, <1>2, QuietNext, MetaTypeCorrect, PTL DEF Spec, EditsAreSeen

\* A file that differs from its recorded content was edited by hand, or its
\* content will be recorded, unless a recording was cut off or came too late.
Excused == lapse \cap {"unrecorded", "stale"} # {}
DriftInv ==
    \/ Excused
    \/ \A f \in Differ(base) \ hand : \E q \in Procs : WillRecord(q, f)

\* While nobody else records, a check has the baseline as it is, and nobody will
\* record anything: what it finds was edited by hand.
CheckInv ==
    \A p \in Procs : proc[p].at \in Checking /\ p \notin overlap =>
        \/ Excused
        \/ Busy = {} /\ proc[p].note = base /\ (proc[p].at = "compare" => proc[p].drift \subseteq hand)

AlarmInv == DriftInv /\ CheckInv

LEMMA NobodyRecords ==
  ASSUME DriftInv, Busy = {}, ~Excused
  PROVE  Differ(base) \subseteq hand
BY DEF DriftInv, Busy, WillRecord, Recording

\* A step by which no file changes, no baseline and no recording.
LEMMA AlarmsStay ==
  ASSUME AlarmInv, UNCHANGED <<meta, tasks, base, lapse>>, hand \subseteq hand', overlap \subseteq overlap',
         \A q \in Procs : \/ proc'[q] = proc[q]
                          \/ proc[q].at \notin Recording \cup Checking /\ proc'[q].at \notin Recording \cup Checking
  PROVE  AlarmInv'
<1>1. Excused' = Excused /\ Differ(base)' = Differ(base) /\ Busy' = Busy
  BY DEF Excused, Differ, Contents, Busy
<1>2. DriftInv'
  <2>1. ASSUME NEW q \in Procs, NEW f \in Guarded, WillRecord(q, f) PROVE WillRecord(q, f)'
    <3>1. proc'[q] = proc[q]
      BY <2>1 DEF WillRecord, Recording
    <3>2. QED
      BY <2>1, <3>1 DEF WillRecord, Contents
  <2>2. QED
    BY <1>1, <2>1 DEF AlarmInv, DriftInv, Differ
<1>3. CheckInv'
  BY <1>1 DEF AlarmInv, CheckInv, Checking
<1>4. QED
  BY <1>2, <1>3 DEF AlarmInv

LEMMA AlarmNext == TypeOK /\ AlarmInv /\ [Next]_vars => AlarmInv'
<1> SUFFICES ASSUME TypeOK, AlarmInv, [Next]_vars PROVE AlarmInv'
  OBVIOUS
<1>1. ASSUME NEW p \in Procs, NEW cmd \in Commands, Enter(p, cmd) PROVE AlarmInv'
  <2>1. /\ UNCHANGED <<meta, tasks, base, hand, lapse>> /\ proc[p] = Off
        /\ \A q \in Procs \ {p} : proc'[q] = proc[q]
        /\ proc'[p].at = "check" /\ proc'[p].note = base
        /\ overlap' = IF Busy # {} THEN overlap \cup {p} ELSE overlap
    BY <1>1, ProcTypes DEF Enter, Off, spine
  <2>2. Excused' = Excused /\ Differ(base)' = Differ(base) /\ Busy' = Busy
    BY <2>1 DEF Excused, Differ, Contents, Busy, Off, Recording
  <2>3. DriftInv'
    <3>1. ASSUME NEW q \in Procs, NEW f \in Guarded, WillRecord(q, f) PROVE WillRecord(q, f)'
      <4>1. q # p
        BY <2>1, <3>1 DEF WillRecord, Off
      <4>2. QED
        BY <2>1, <3>1, <4>1 DEF WillRecord, Contents
    <3>2. QED
      BY <2>1, <2>2, <3>1 DEF AlarmInv, DriftInv, Differ
  <2>4. CheckInv'
    BY <2>1, <2>2 DEF AlarmInv, CheckInv, Checking
  <2>5. QED
    BY <2>3, <2>4 DEF AlarmInv
<1>2. ASSUME NEW p \in Procs, CompareMeta(p) PROVE AlarmInv'
  <2>1. /\ UNCHANGED <<meta, tasks, base, hand, lapse, overlap>> /\ proc[p].at = "check"
        /\ \A q \in Procs \ {p} : proc'[q] = proc[q]
        /\ proc'[p].at = "compare" /\ proc'[p].note = proc[p].note
        /\ proc'[p].drift = Differ(proc[p].note) \cap {"meta"}
    BY <1>2, ProcTypes DEF CompareMeta, Command, spine, history
  <2>2. Excused' = Excused /\ Differ(base)' = Differ(base) /\ Busy' = Busy
    BY <2>1 DEF Excused, Differ, Contents, Busy, Recording
  <2>3. DriftInv'
    <3>1. ASSUME NEW q \in Procs, NEW f \in Guarded, WillRecord(q, f) PROVE WillRecord(q, f)'
      <4>1. q # p
        BY <2>1, <3>1 DEF WillRecord
      <4>2. QED
        BY <2>1, <3>1, <4>1 DEF WillRecord, Contents
    <3>2. QED
      BY <2>1, <2>2, <3>1 DEF AlarmInv, DriftInv, Differ
  <2>4. ASSUME ~Excused, p \notin overlap PROVE proc'[p].drift \subseteq hand
    <3>1. Busy = {} /\ proc[p].note = base
      BY <2>1, <2>4 DEF AlarmInv, CheckInv, Checking
    <3>2. QED
      BY <2>1, <2>4, <3>1, NobodyRecords DEF AlarmInv
  <2>5. CheckInv'
    BY <2>1, <2>2, <2>4 DEF AlarmInv, CheckInv, Checking
  <2>6. QED
    BY <2>3, <2>5 DEF AlarmInv
<1>3. ASSUME NEW p \in Procs, CompareTasks(p) PROVE AlarmInv'
  <2> DEFINE drift == proc[p].drift \cup (Differ(proc[p].note) \cap {"tasks"})
  <2>1. /\ UNCHANGED <<meta, tasks, base, hand, lapse>> /\ proc[p].at = "compare"
        /\ \A q \in Procs \ {p} : proc'[q] = proc[q]
        /\ proc'[p].at = IF drift = {} THEN "begin" ELSE "record"
        /\ overlap' = (IF drift = {} THEN overlap ELSE overlap \cup Checks) \ {p}
    BY <1>3, ProcTypes DEF CompareTasks, Command, spine
  <2> HIDE DEF drift
  <2>2. Excused' = Excused /\ Differ(base)' = Differ(base)
    BY <2>1 DEF Excused, Differ, Contents
  <2>3. DriftInv'
    <3>1. ASSUME NEW q \in Procs, NEW f \in Guarded, WillRecord(q, f) PROVE WillRecord(q, f)'
      <4>1. q # p
        BY <2>1, <3>1 DEF WillRecord
      <4>2. QED
        BY <2>1, <3>1, <4>1 DEF WillRecord, Contents
    <3>2. QED
      BY <2>1, <2>2, <3>1 DEF AlarmInv, DriftInv, Differ
  <2>4. CheckInv'
    <3>1. CASE drift = {}
      <4>1. Busy' = Busy /\ overlap' = overlap \ {p}
        BY <2>1, <3>1 DEF Busy, Recording
      <4>2. QED
        BY <2>1, <2>2, <3>1, <4>1 DEF AlarmInv, CheckInv, Checking
    <3>2. CASE drift # {}
      <4>1. \A q \in Procs : proc'[q].at \in Checking => q \in overlap'
        BY <2>1, <3>2 DEF Checks, Checking
      <4>2. QED
        BY <4>1 DEF CheckInv
    <3>3. QED
      BY <3>1, <3>2
  <2>5. QED
    BY <2>3, <2>4 DEF AlarmInv
<1>4. ASSUME NEW p \in Procs, HashMeta(p) \/ HashTasks(p) PROVE AlarmInv'
  <2>1. /\ UNCHANGED <<meta, tasks, base, hand, lapse, overlap>> /\ proc[p].at \in Recording
        /\ \A q \in Procs \ {p} : proc'[q] = proc[q]
        /\ \/ proc[p].at = "record" /\ proc'[p].at = "hash" /\ proc'[p].note.meta = meta
           \/ /\ proc[p].at = "hash" /\ proc'[p].at = "write"
              /\ proc'[p].note.meta = proc[p].note.meta /\ proc'[p].note.tasks = tasks
    <3>1. proc[p] \in Command /\ (proc[p].at = "hash" => proc[p].note \in Baseline)
      BY DEF TypeOK
    <3>2. QED
      BY <1>4, <3>1 DEF HashMeta, HashTasks, TypeOK, Command, Baseline, Recording, spine, history
  <2>2. Excused' = Excused /\ Differ(base)' = Differ(base) /\ Busy' = Busy
    BY <2>1 DEF Excused, Differ, Contents, Busy, Recording
  <2>3. DriftInv'
    <3>1. ASSUME NEW q \in Procs, NEW f \in Guarded, WillRecord(q, f) PROVE WillRecord(q, f)'
      BY <2>1, <3>1 DEF WillRecord, Contents, Guarded
    <3>2. QED
      BY <2>1, <2>2, <3>1 DEF AlarmInv, DriftInv, Differ
  <2>4. CheckInv'
    BY <2>1, <2>2 DEF AlarmInv, CheckInv, Checking, Recording
  <2>5. QED
    BY <2>3, <2>4 DEF AlarmInv
<1>5. ASSUME NEW p \in Procs, WriteBaseline(p) PROVE AlarmInv'
  <2>1. /\ UNCHANGED <<meta, tasks, overlap>> /\ proc[p].at = "write"
        /\ \A q \in Procs \ {p} : proc'[q] = proc[q]
        /\ proc'[p].at \in {"begin", "off"}
        /\ base' = proc[p].note /\ hand' = hand \cap Differ(base')
        /\ lapse' = IF \A f \in Differ(base') \ hand : \E q \in Procs \ {p} : WillRecord(q, f)
                    THEN lapse ELSE lapse \cup {"stale"}
    BY <1>5, ProcTypes DEF WriteBaseline, Recorded, Command, Off
  <2>2. p \in Busy
    BY <2>1 DEF Busy, Recording
  <2>3. CheckInv'
    BY <2>1, <2>2 DEF AlarmInv, CheckInv, Checking, Excused
  <2>4. DriftInv'
    <3>1. CASE lapse' # lapse
      BY <2>1, <3>1 DEF DriftInv, Excused
    <3>2. CASE lapse' = lapse
      <4>1. Excused' \/ \A f \in Differ(base') \ hand : \E q \in Procs \ {p} : WillRecord(q, f)
        BY <2>1, <3>2 DEF Excused
      <4>2. Differ(base)' \ hand' = Differ(base') \ hand
        BY <2>1 DEF Differ, Contents
      <4>3. ASSUME NEW q \in Procs \ {p}, NEW f \in Guarded, WillRecord(q, f) PROVE WillRecord(q, f)'
        BY <2>1, <4>3 DEF WillRecord, Contents
      <4>4. QED
        BY <4>1, <4>2, <4>3 DEF DriftInv, Differ
    <3>3. QED
      BY <3>1, <3>2
  <2>5. QED
    BY <2>3, <2>4 DEF AlarmInv
<1>6. ASSUME NEW p \in Procs, AtWork(p) PROVE AlarmInv'
  <2>1. /\ proc[p].at \in {"begin", "ran", "loaded"} /\ UNCHANGED <<base, hand>>
        /\ \A q \in Procs \ {p} : proc'[q] = proc[q]
        /\ proc'[p].at \notin Checking /\ lapse \subseteq lapse'
    BY <1>6, Works
  <2>2. CASE UNCHANGED <<meta, tasks, overlap, lapse>> /\ proc'[p].at \notin Recording
    BY <2>1, <2>2, AlarmsStay DEF Checking, Recording
  <2>3. CASE overlap' = overlap \cup Checks /\ proc'[p].at = "record"
    <3>1. CheckInv'
      BY <2>1, <2>3 DEF CheckInv, Checks
    <3>2. \A f \in Guarded : WillRecord(p, f)'
      BY <2>3 DEF WillRecord
    <3>3. DriftInv'
      BY <3>2 DEF DriftInv, Differ
    <3>4. QED
      BY <3>1, <3>3 DEF AlarmInv
  <2>4. QED
    BY <1>6, <2>2, <2>3, Works
<1>7. ASSUME NEW p \in Procs, Kill(p) PROVE AlarmInv'
  <2>1. /\ UNCHANGED <<meta, tasks, base, hand>> /\ overlap' = overlap \ {p}
        /\ \A q \in Procs \ {p} : proc'[q] = proc[q]
        /\ proc'[p].at = "off"
        /\ lapse' = IF proc[p].at \in Recording THEN lapse \cup {"unrecorded"} ELSE lapse
    <3>1. proc' = [proc EXCEPT ![p] = Off] /\ Off.at = "off"
      BY <1>7 DEF Kill, Off
    <3>2. proc'[p].at = "off" /\ \A q \in Procs \ {p} : proc'[q] = proc[q]
      BY <3>1, ProcTypes
    <3>3. UNCHANGED <<meta, tasks, base, hand>> /\ overlap' = overlap \ {p}
      BY <1>7 DEF Kill, spine
    <3>4. lapse' = IF proc[p].at \in Recording THEN lapse \cup {"unrecorded"} ELSE lapse
      BY <1>7 DEF Kill
    <3>5. QED
      BY <3>2, <3>3, <3>4
  <2>2. CASE proc[p].at \in Recording
    BY <2>1, <2>2 DEF AlarmInv, DriftInv, CheckInv, Excused
  <2>3. CASE proc[p].at \notin Recording
    <3>1. lapse' = lapse /\ Excused' = Excused /\ Differ(base)' = Differ(base) /\ Busy' = Busy
      BY <2>1, <2>3 DEF Excused, Differ, Contents, Busy, Recording
    <3>2. ASSUME NEW q \in Procs, NEW f \in Guarded, WillRecord(q, f) PROVE WillRecord(q, f)'
      <4>1. q # p
        BY <2>3, <3>2 DEF WillRecord, Recording
      <4>2. QED
        BY <2>1, <3>2, <4>1 DEF WillRecord, Contents
    <3>3. DriftInv'
      BY <2>1, <3>1, <3>2 DEF AlarmInv, DriftInv, Differ
    <3>4. CheckInv'
      BY <2>1, <3>1 DEF AlarmInv, CheckInv, Checking
    <3>5. QED
      BY <3>3, <3>4 DEF AlarmInv
  <2>4. QED
    BY <2>2, <2>3
<1>8. ASSUME NEW f \in Guarded, EditByHand(f) PROVE AlarmInv'
  <2>1. UNCHANGED <<proc, base, overlap, lapse>> /\ hand' = hand \cup {f}
    BY <1>8 DEF EditByHand
  <2>2. Excused' = Excused /\ Busy' = Busy /\ Differ(base)' \ hand' \subseteq Differ(base) \ hand
    BY <1>8, <2>1 DEF EditByHand, Differ, Guarded, Contents, Excused, Busy
  <2>3. ASSUME NEW q \in Procs, NEW g \in Guarded \ {f}, WillRecord(q, g) PROVE WillRecord(q, g)'
    <3>1. g = "meta" => meta' = meta
      BY <1>8, <2>3 DEF EditByHand, Guarded
    <3>2. Contents'[g] = Contents[g]
      BY <1>8, <2>3 DEF EditByHand, Guarded, Contents
    <3>3. QED
      BY <2>1, <2>3, <3>1, <3>2 DEF WillRecord
  <2>4. DriftInv'
    BY <2>1, <2>2, <2>3 DEF AlarmInv, DriftInv, Differ
  <2>5. CheckInv'
    BY <2>1, <2>2 DEF AlarmInv, CheckInv
  <2>6. QED
    BY <2>4, <2>5 DEF AlarmInv
<1>9. CASE Develop \/ UNCHANGED vars
  <2>1. UNCHANGED <<meta, tasks, base, lapse, hand, overlap, proc>>
    BY <1>9 DEF Develop, vars, spine, world, history
  <2>2. QED
    BY <2>1, AlarmsStay
<1>10. QED
  BY <1>1, <1>2, <1>3, <1>4, <1>5, <1>6, <1>7, <1>8, <1>9 DEF Next, AtWork

\* No command warns about a file nobody edited by hand, unless another recorded
\* while it checked, a recording was cut off by a kill, or one was written that
\* had read the file before a save which was recorded already.
THEOREM AlarmsAreTrue == Spec => NoFalseAlarm
<1> DEFINE A == \A p \in Procs : CompareTasks(p) => \/ warned' \subseteq hand
                                                    \/ p \in overlap
                                                    \/ lapse \cap {"unrecorded", "stale"} # {}
<1>1. Init => AlarmInv
  BY DEF Init, AlarmInv, DriftInv, CheckInv, Differ, Contents, Off, Checking, Guarded
<1>2. TypeOK /\ AlarmInv => A
  <2> SUFFICES ASSUME TypeOK, AlarmInv, NEW p \in Procs, CompareTasks(p), p \notin overlap, ~Excused
               PROVE  warned' \subseteq hand
    BY DEF Excused
  <2>1. proc[p].at = "compare" /\ warned' = proc[p].drift \cup (Differ(proc[p].note) \cap {"tasks"})
    BY DEF CompareTasks
  <2>2. Busy = {} /\ proc[p].note = base /\ proc[p].drift \subseteq hand
    BY <2>1 DEF AlarmInv, CheckInv, Checking
  <2>3. QED
    BY <2>1, <2>2, NobodyRecords DEF AlarmInv
<1>3. Spec => [][A]_vars
  BY <1>1, <1>2, AlarmNext, MetaTypeCorrect, PTL DEF Spec
<1>4. QED
  BY <1>3 DEF NoFalseAlarm
=============================================================================
