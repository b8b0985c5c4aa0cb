----------------------------- MODULE AgentRunner ------------------------------
(***************************************************************************)
(* lib/agent-runner.mjs and what it calls: one run of an agent in a role,  *)
(* and what of its answer comes through.  A run is described by the profile*)
(* bound to the role, by how the process ended, by what it printed, and by *)
(* the workspace it leaves; the workspace it starts in is all zeros.       *)
(***************************************************************************)
EXTENDS Sequences, SequencesExt

Verdict == {"pass", "block"}

\* ROLE_CONTRACTS, for the roles of the pipeline: access and output.
Contract == [executor |-> {"workspace-write", "text"},
             planner  |-> {"read-only", "text"},
             reviewer |-> {"read-only", "json"}]
ReadOnly(role) == "read-only" \in Contract[role]
WantsJson(role) == "json" \in Contract[role]

-----------------------------------------------------------------------------
(* Profiles.                                                               *)

\* What a profile may declare that it can; "role": it does not leave the role out.
\* One that declares nothing is taken to be capable of all.
Capability == {"role", "read-only", "workspace-write", "text", "json"}
Undeclared == Capability
Profile == [command : BOOLEAN, adapter : BOOLEAN, can : SUBSET Capability]
NoProfile == [command |-> FALSE, adapter |-> FALSE, can |-> Undeclared]

\* resolveAgentConfiguration: a role is bound to a profile by name, which may be
\* unknown, or has a command of its own from before there were profiles.
Resolved(profiles, roles, legacy, role) ==
    IF role \in DOMAIN roles
    THEN IF roles[role] \in DOMAIN profiles THEN profiles[roles[role]] ELSE NoProfile
    ELSE IF role \in legacy THEN [NoProfile EXCEPT !.command = TRUE] ELSE NoProfile

\* What chalk.json may bind a role to.
Bound(role) ==
    {Resolved([declared |-> p], roles, legacy, role) :
        p \in Profile, legacy \in SUBSET {role},
        roles \in UNION {[R -> {"declared", "unknown"}] : R \in SUBSET {role}}}

\* checkRoleCapabilities
Capable(role, p) == {"role"} \cup Contract[role] \subseteq p.can

-----------------------------------------------------------------------------
(* What a run comes to, over the transport of the profile.                 *)

Result == [status : {"ok", "failed", "timeout", "unsupported"}, text : BOOLEAN,
           structured : Verdict \cup {"none", "other"}]

Failed == [status |-> "failed", text |-> FALSE, structured |-> "none"]

Exits == {"ok", "timeout", "command-not-found", "signal", "nonzero-exit"}

\* The balanced objects of an output, in order: one that does not parse, one that
\* is no verdict, a verdict.
Objects == {"broken", "other"} \cup Verdict
Outputs == UNION {[1..n -> Objects] : n \in 0..2}

\* parseLastJson, with a predicate that every object satisfies
LastObject(output) ==
    LET parsed == SelectSeq(output, LAMBDA o : o # "broken")
    IN  IF parsed = <<>> THEN "none" ELSE Last(parsed)

\* validateStructuredRole
Validated(o) == IF o \in Verdict THEN o ELSE "none"

\* decodeStructuredRole: the last object is the answer, or there is none; a
\* verdict that another object follows is not looked for.
Decode(output) == Validated(LastObject(output))

\* failureFromProcess
StatusOf(exit) == IF exit \in {"ok", "timeout"} THEN exit ELSE "failed"

\* A raw command is judged by how it ended, its answer by what it printed, also
\* when it failed.
RawCommand == [exit : Exits, prose : BOOLEAN, output : Outputs]
RunRaw(role, c) ==
    LET s == IF WantsJson(role) THEN Decode(c.output) ELSE "none" IN
    [status     |-> IF WantsJson(role) /\ s = "none" THEN "failed" ELSE StatusOf(c.exit),
     text       |-> c.prose \/ c.output # <<>>,
     structured |-> s]

\* An adapter answers with one response, which counts however its process ended;
\* an output that is no response to this request is an error of the transport.
Adapter == [exit : Exits, answers : BOOLEAN, response : Result]
RunAdapter(role, c) ==
    LET r == c.response IN
    IF ~c.answers
    THEN [Failed EXCEPT !.status = IF c.exit = "timeout" THEN "timeout" ELSE "failed"]
    ELSE IF WantsJson(role) /\ r.structured \notin Verdict \cup {"none"}
         THEN [r EXCEPT !.status = "failed", !.structured = "none"]
         ELSE r

-----------------------------------------------------------------------------
(* The workspace.                                                          *)

\* workspaceSnapshot: tracked, untracked and ignored files; not the held-out ones.
Paths == {"code", "ignored", "held-out"}
Snapshot(w) == [path \in Paths \ {"held-out"} |-> w[path]]
SnapshotChanges(before, after) == {path \in DOMAIN before : before[path] # after[path]}

\* refuseReadOnlyMutation: no answer of a read-only role escapes if it changed
\* what a snapshot shows; what it changed stays.
Refused(role, before, after) ==
    ReadOnly(role) /\ SnapshotChanges(Snapshot(before), Snapshot(after)) # {}

Before == [path \in Paths |-> 0]

Request(role) ==
    [profile : {p \in Bound(role) : ~p.adapter}, call : RawCommand, after : [Paths -> 0..1]]
    \cup [profile : {p \in Bound(role) : p.adapter}, call : Adapter, after : [Paths -> 0..1]]

RunAgent(role, q) ==
    LET c == q.call IN
    IF ~Capable(role, q.profile) \/ ~q.profile.command THEN Failed
    ELSE IF Refused(role, Before, q.after) THEN Failed
    ELSE IF q.profile.adapter THEN RunAdapter(role, c) ELSE RunRaw(role, c)

-----------------------------------------------------------------------------
(* What the stages of the pipeline make of it.                             *)

\* runReview: the verdict counts, whatever the status (a reviewer may exit
\* nonzero on a block); "none" is the outcome 'error'.
Reviews(q) == RunAgent("reviewer", q).structured

\* chalk plan: any text is a plan.
Plans(q) == RunAgent("planner", q).text

ReviewOutcomes ==
    {[verdict |-> Reviews(q), changed |-> q.after["code"] # 0] : q \in Request("reviewer")}
PlanOutcomes == {Plans(q) : q \in Request("planner")}
=============================================================================
