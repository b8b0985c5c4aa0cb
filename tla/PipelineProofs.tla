---------------------------- MODULE PipelineProofs -----------------------------
(***************************************************************************)
(* Proofs about Pipeline, for any tasks, bindings, rounds, faults and      *)
(* bounds.                                                                 *)
(*                                                                         *)
(* Nearly all of the inductive invariant speaks of one task: of its record *)
(* r, its repository g, the stage p its chain is in, the round n of its fix*)
(* loop, whether its merge is due (q), the kinds k of faults it suffered   *)
(* and the contents s a reviewer passed.  It is stated of values, so that  *)
(* what a stage does to a task is a lemma without a prime.                 *)
(***************************************************************************)
EXTENDS Pipeline, SequenceTheorems, TLAPS

-----------------------------------------------------------------------------
(* The inductive invariant.                                                *)

\* The stages of a record, from a rank on.
FromReviewed == {"reviewed", "tested", "cleaned"}
FromPropen == FromReviewed \cup {"propen"}
FromCommitted == FromPropen \cup {"committed"}
FromVerified == FromCommitted \cup {"verified"}

\* The stages of a chain: those of the fix loop; those in the worktree; those after the
\* commit; those with a pull request; those after a push.
Fixing == {"work", "executor", "verify", "probe", "commit", "committed", "push", "review", "rewind"}
InWorktree == Stages \ {"idle", "branch", "merge", "teardown", "merged"}
AfterLocal == {"committed", "push", "pr", "create", "created", "review", "again", "rewind", "evidence"}
AfterPropen == {"push", "review", "again", "rewind", "evidence", "teardown", "merged"}
AfterPush == {"review", "again", "rewind", "evidence", "merge"}

Suffered(t, L) == {kind \in Lapses : <<kind, t>> \in L}
Excused(k) == k \cap {"push", "commit", "reader", "skipped"} # {}
Again(k) == k \cap {"torn", "reopened"} # {}

\* The last pull request is merged.
Landed(g) == g.prs # <<>> /\ Last(g.prs) = "merged"

\* A fix loop is the reviewer's, and the stage it has rewound stays behind the PR's.
Rounds(r, p, n, b) ==
    /\ n > 0 => "reviewer" \in b /\ r.stage \notin FromPropen /\ p \in Fixing
    /\ p = "rewind" => n < MaxRounds /\ "reviewer" \in b
    /\ p = "push" => n > 0
    /\ p \in {"executor", "verify", "probe"} => r.stage \notin FromVerified
    /\ p = "create" => r.stage \notin FromPropen \/ r.pr = 0
    /\ p = "created" => r.stage \notin FromPropen

\* What was cleaned up has none.
HasWorktree(r, g, p) ==
    /\ r.stage = "cleaned" => ~r.worktree
    /\ p \in InWorktree => r.worktree /\ g.dir
    /\ p = "merged" => ~g.dir

\* The record names the last pull request, unless gh did not, or a chain was skipped.
Named(r, g, k) ==
    \/ r.pr = Len(g.prs)
    \/ r.pr = 0 /\ ~Landed(g) /\ "unnamed" \in k
    \/ r.pr \in DOMAIN g.prs /\ "skipped" \in k

\* Only the last pull request may be open, and then the remote branch is there.
Requests(r, g, p, n, q, k) ==
    /\ \A i \in DOMAIN g.prs : i < Len(g.prs) => g.prs[i] = "merged"
    /\ \A i \in DOMAIN g.prs : g.prs[i] = "merged" => g.merged # <<>>
    /\ g.prs # <<>> /\ ~Landed(g) => g.remote # <<>>
    /\ r.pr = 0 \/ r.pr \in DOMAIN g.prs
    /\ (r.stage \in FromPropen \/ p \in AfterPropen \/ n > 0) => g.prs # <<>> /\ Named(r, g, k)
    /\ (p = "merge" \/ q) => (g.prs # <<>> /\ Named(r, g, k)) \/ "skipped" \in k
    /\ p = "created" => g.prs # <<>> /\ ~Landed(g)
    /\ p \in {"teardown", "merged"} =>
          r.pr # 0 /\ g.merged # <<>> /\ (Landed(g) \/ "skipped" \in k)

\* What is said to be committed is on the local branch, but after a torn merge.
Commits(r, g, p, n, k) ==
    /\ r.stage \in FromCommitted /\ r.worktree /\ p # "merged" => g.local # <<>> \/ "torn" \in k
    /\ p \in AfterLocal \/ n > 0 => g.local # <<>> \/ "torn" \in k

\* A merge is recorded, or torn, or done again; what is done was merged, or is by hand.
Delivers(r, g, p, k) ==
    /\ r.state = "done" => g.merged # <<>> \/ "done" \in k
    /\ g.merged # <<>> /\ p \notin {"teardown", "merged"} /\ r.state # "done" => Again(k)
    /\ Len(g.merged) > 1 => Again(k)

\* Checkout, local and remote branch agree once they are said to.
Synced(r, g, p, q, k) ==
    /\ (r.stage \in FromPropen \/ p \in AfterPush \/ q) =>
          g.remote = g.local \/ Excused(k) \/ Landed(g)
    /\ p \in {"create", "created"} => g.remote = g.local
    /\ (r.stage \in FromCommitted \/ p \in AfterLocal) /\ g.dir =>
          g.files = HeadOf(g) \/ Excused(k)

\* What is to be merged, and what was, is what a reviewer passed.
Judged(r, g, p, q, k, s, b) ==
    /\ r.verdict # "none" => "reviewer" \in b
    /\ "reviewer" \in b /\ (r.stage \in FromReviewed \/ p \in {"evidence", "merge"} \/ q) =>
          (g.remote # <<>> => Last(g.remote) \in s) \/ Excused(k) \/ Landed(g)
    /\ ReviewRequired => Range(g.merged) \subseteq s \/ Excused(k)

\* The worktree holds the task's own work or nothing new, and so do its branches.
Own(t, g, k) ==
    /\ g.dir => g.files.of = t \/ g.files = HeadOf(g) \/ "probe" \in k
    /\ \A c \in Range(g.local) \cup Range(g.remote) \cup Range(g.merged) : c.of = t \/ "probe" \in k

Typed(r, g, p, n) == r \in Task /\ g \in Repository /\ p \in Stages /\ n \in 0..MaxRounds

Sound(t, r, g, p, n, q, k, s, b) ==
    /\ Typed(r, g, p, n)
    /\ Rounds(r, p, n, b) /\ HasWorktree(r, g, p) /\ Requests(r, g, p, n, q, k)
    /\ Commits(r, g, p, n, k) /\ Delivers(r, g, p, k) /\ Synced(r, g, p, q, k)
    /\ Judged(r, g, p, q, k, s, b) /\ Own(t, g, k)

Soundness ==
    \A t \in Tasks : Sound(t, task[t], git[t], pc[t], round[t], t \in ready,
                           Suffered(t, lapse), passed, bound)

Waiting == {"specd", "in-progress"}
Finishing == {"merge", "teardown", "merged"}

\* What a sweep has yet to do of a task no human has moved, and what it leaves of it.
Due(r, p, q) ==
    /\ r.state \in Waiting
    /\ p \in Finishing \/ q => r.stage # "cleaned"
Settled(r, g, counted, mode) ==
    \/ r.state = "done" /\ g.merged # <<>>
    \/ counted /\ (r.state = "blocked" \/ mode = "parallel")

Kept(r, g, p, q, counted, mode) ==
    IF p # "idle" \/ q THEN Due(r, p, q) ELSE Settled(r, g, counted, mode)

\* A task is in the queue, in a chain, or waits for its merge, or the sweep is through
\* with it.
Scheduled ==
    \A t \in Tasks :
        /\ pc[t] # "idle" => t \notin todo \cup ready
        /\ t \notin todo \cap ready
        /\ pc[t] # "idle" \/ t \in todo \cup ready => sweep # "off"
        /\ t \in queue /\ sweep # "off" =>
              IF pc[t] # "idle" \/ t \in todo \cup ready
              THEN Due(task[t], pc[t], t \in ready)
              ELSE Settled(task[t], git[t], t \in failed, sweep)

\* A probe that is alone finds its own change on top of the stash.
ProbesAlone ==
    \A t \in Tasks : pc[t] = "probe" /\ <<"probe", t>> \notin lapse =>
        /\ \A u \in Tasks \ {t} : pc[u] # "probe"
        /\ stash # <<>> /\ Head(stash).of = t

PipelineInv == TypeOK /\ Soundness /\ Scheduled /\ ProbesAlone

-----------------------------------------------------------------------------
(* Stages, gates and sequences.                                            *)

LEMMA StagesInOrder ==
  ASSUME NEW t \in Tasks, task[t] \in Task
  PROVE  /\ StageDone(t, "verified") <=> task[t].stage \in FromVerified
         /\ StageDone(t, "committed") <=> task[t].stage \in FromCommitted
         /\ StageDone(t, "propen") <=> task[t].stage \in FromPropen
         /\ StageDone(t, "reviewed") <=> task[t].stage \in FromReviewed
         /\ StageDone(t, "cleaned") <=> task[t].stage = "cleaned"
<1> DEFINE x == task[t].stage
<1>1. x \in {"selected", "branched", "planned", "verified", "committed", "propen", "reviewed",
           "tested", "cleaned"}
  BY DEF Task, Rank
<1>2. /\ Rank["selected"] = 0 /\ Rank["branched"] = 1 /\ Rank["planned"] = 2 /\ Rank["verified"] = 3
      /\ Rank["committed"] = 4 /\ Rank["propen"] = 5 /\ Rank["reviewed"] = 6
      /\ Rank["tested"] = 7 /\ Rank["cleaned"] = 8
  BY DEF Rank
<1> HIDE DEF x
<1>3. /\ Rank[x] >= 3 <=> x \in FromVerified
      /\ Rank[x] >= 4 <=> x \in FromCommitted
      /\ Rank[x] >= 5 <=> x \in FromPropen
      /\ Rank[x] >= 6 <=> x \in FromReviewed
      /\ Rank[x] >= 8 <=> x = "cleaned"
  BY <1>1, <1>2 DEF FromVerified, FromCommitted, FromPropen, FromReviewed
<1>4. QED
  BY <1>2, <1>3 DEF StageDone, x

\* Only a change is probed.
LEMMA ProbesAreOfChanges == "probe" \notin WorkOutcomes(FALSE, BreakTest)
<1> SUFFICES ASSUME "probe" \in WorkOutcomes(FALSE, BreakTest) PROVE FALSE
  OBVIOUS
<1> PICK w \in Worked(FALSE) : "probe" \in UNION {Gated(w, v, BreakTest) : v \in Verification}
  BY DEF WorkOutcomes
<1>0. PICK v \in Verification : "probe" \in Gated(w, v, BreakTest)
  OBVIOUS
<1>1. w.change = {}
  BY DEF Worked
<1>2. ~Probes(w, BreakTest)
  BY <1>1 DEF Probes, Reverted
<1>3. "probe" \notin AfterProbe(w)
  BY DEF AfterProbe
<1>4. QED
  BY <1>0, <1>2, <1>3 DEF Gated

LEMMA Appended ==
  ASSUME NEW S, NEW q \in Seq(S), NEW e \in S
  PROVE  /\ Append(q, e) \in Seq(S) /\ Append(q, e) # <<>> /\ Last(Append(q, e)) = e
         /\ Len(Append(q, e)) = Len(q) + 1 /\ Len(q) \in Nat
         /\ \A i \in DOMAIN q : i <= Len(q) /\ Append(q, e)[i] = q[i]
         /\ \A i \in DOMAIN Append(q, e) : i \in DOMAIN q \/ i = Len(q) + 1
         /\ Range(Append(q, e)) = Range(q) \cup {e}
<1>1. /\ Append(q, e) \in Seq(S) /\ Append(q, e) # <<>> /\ Len(Append(q, e)) = Len(q) + 1
      /\ \A i \in 1..Len(q) : Append(q, e)[i] = q[i]
      /\ Append(q, e)[Len(q) + 1] = e
  BY AppendProperties
<1>2. DOMAIN q = 1..Len(q) /\ DOMAIN Append(q, e) = 1..(Len(q) + 1) /\ Len(q) \in Nat
  BY <1>1, LenProperties
<1>3. \A i \in DOMAIN Append(q, e) : i \in DOMAIN q \/ i = Len(q) + 1
  BY <1>2
<1>4. Range(Append(q, e)) \subseteq Range(q) \cup {e}
  BY <1>1, <1>2, <1>3 DEF Range
<1>5. Range(q) \subseteq Range(Append(q, e))
  <2>1. \A i \in DOMAIN q : i \in DOMAIN Append(q, e) /\ Append(q, e)[i] = q[i]
    BY <1>1, <1>2
  <2>2. QED
    BY <2>1 DEF Range
<1>6. e \in Range(Append(q, e))
  <2>1. Len(q) + 1 \in DOMAIN Append(q, e)
    BY <1>2
  <2>2. QED
    BY <1>1, <2>1 DEF Range
<1>7. QED
  BY <1>1, <1>2, <1>3, <1>4, <1>5, <1>6 DEF Last

LEMMA LastIsIn ==
  ASSUME NEW S, NEW q \in Seq(S), q # <<>>
  PROVE  Last(q) \in Range(q) /\ Last(q) \in S /\ Len(q) \in DOMAIN q
<1>1. DOMAIN q = 1..Len(q) /\ Len(q) \in Nat /\ Len(q) # 0
  BY LenProperties, EmptySeq
<1>2. Len(q) \in DOMAIN q
  BY <1>1
<1>3. q[Len(q)] \in S
  BY <1>1, <1>2, ElementOfSeq
<1>4. QED
  BY <1>2, <1>3 DEF Last, Range

LEMMA EmptyRange == Range(<<>>) = {}
<1>1. DOMAIN <<>> = {}
  OBVIOUS
<1>2. QED
  BY <1>1 DEF Range

\* A branch that only grows is not emptied.
LEMMA PrefixGrows ==
  ASSUME NEW S, NEW q \in Seq(S), NEW w \in Seq(S), IsPrefix(q, w), q # <<>>
  PROVE  w # <<>>
BY LenProperties, EmptySeq DEF IsPrefix

-----------------------------------------------------------------------------
(* What a stage does to a task.                                            *)

\* The end of a chain, by a crash too: one between the merge and its record tears it.
LEMMA ChainEnds ==
  ASSUME NEW t \in Tasks, NEW r, NEW g, NEW p, NEW n, NEW q, NEW k, NEW s, NEW b,
         Sound(t, r, g, p, n, q, k, s, b),
         NEW y, y => q, NEW l, k \subseteq l, p \in {"teardown", "merged"} => "torn" \in l
  PROVE  Sound(t, r, g, "idle", 0, y, l, s, b)
BY PipelineAssumption
   DEF Sound, Typed, Rounds, HasWorktree, Requests, Named, Commits, Delivers, Synced, Judged, Own,
       Stages, Fixing, InWorktree, AfterLocal, AfterPropen, AfterPush, Excused, Again

\* More faults, more contents passed.
LEMMA SoundStays ==
  ASSUME NEW t \in Tasks, NEW r, NEW g, NEW p, NEW n, NEW q, NEW k, NEW s, NEW b,
         Sound(t, r, g, p, n, q, k, s, b), NEW l, k \subseteq l, NEW v, s \subseteq v
  PROVE  Sound(t, r, g, p, n, q, l, v, b)
BY DEF Sound, Requests, Named, Commits, Delivers, Synced, Judged, Own, Excused, Again

\* A merge that is not due any more.
LEMMA SoundForgets ==
  ASSUME NEW t \in Tasks, NEW r, NEW g, NEW p, NEW n, NEW q, NEW k, NEW s, NEW b,
         Sound(t, r, g, p, n, q, k, s, b), NEW y, y => q
  PROVE  Sound(t, r, g, p, n, y, k, s, b)
BY DEF Sound, Requests, Synced, Judged

\* chalk block, by the driver
LEMMA ChainBlocks ==
  ASSUME NEW t \in Tasks, NEW r, NEW g, NEW p, NEW n, NEW q, NEW k, NEW s, NEW b,
         Sound(t, r, g, p, n, q, k, s, b), p \notin {"teardown", "merged"},
         NEW x \in {"review", "human-input"}, NEW y, y => q,
         NEW c, c = IF r.state = "done" THEN r ELSE Blocked(r, x)
  PROVE  /\ Sound(t, c, g, "idle", 0, y, k, s, b)
         /\ r.state # "done" => c.state = "blocked"
<1>1. Sound(t, r, g, "idle", 0, y, k, s, b)
  BY ChainEnds
<1>2. CASE r.state = "done"
  BY <1>1, <1>2
<1>3. CASE r.state # "done"
  <2>1. r \in Task /\ c = [r EXCEPT !.state = "blocked", !.from = r.state, !.needs = x]
    BY <1>3 DEF Blocked, Sound, Typed
  <2>2. r.state \in {"specd", "in-progress", "blocked"}
    BY <1>3, <2>1 DEF Task
  <2>3. /\ c \in Task /\ c.state = "blocked" /\ c.stage = r.stage
        /\ c.worktree = r.worktree /\ c.pr = r.pr /\ c.verdict = r.verdict
    BY <2>1, <2>2 DEF Task
  <2>4. QED
    BY <1>1, <1>3, <2>3
       DEF Sound, Typed, Rounds, HasWorktree, Requests, Named, Commits, Delivers, Synced, Judged
<1>4. QED
  BY <1>2, <1>3

\* A stage of the chain that is done already, skipped or only led to.
LEMMA ChainMoves ==
  ASSUME NEW t \in Tasks, NEW r, NEW g, NEW p, NEW n, NEW q, NEW k, NEW s, NEW b,
         Sound(t, r, g, p, n, q, k, s, b), NEW x, NEW y,
         \/ p = "idle" /\ x = "branch" /\ (y <=> q)
         \/ p = "idle" /\ x = "merge" /\ q /\ ~y
         \/ p = "branch" /\ x = "plan" /\ (y <=> q) /\ r.worktree /\ g.dir
         \/ p = "plan" /\ x = "work" /\ (y <=> q)
         \/ p = "work" /\ x = "commit" /\ (y <=> q) /\ r.stage \in FromVerified
         \/ p = "commit" /\ x = "pr" /\ (y <=> q) /\ g.files = HeadOf(g) /\ r.stage \in FromCommitted /\ n = 0
         \/ p = "commit" /\ x = "push" /\ (y <=> q) /\ g.files = HeadOf(g) /\ n > 0
         \/ p = "pr" /\ x = "review" /\ (y <=> q) /\ r.stage \in FromPropen
         \/ p = "review" /\ x = "evidence" /\ (y <=> q) /\ ("reviewer" \in b => r.stage \in FromReviewed)
         \/ p = "review" /\ x = "again" /\ (y <=> q) /\ n = 0
         \/ p = "review" /\ x = "rewind" /\ (y <=> q) /\ n < MaxRounds /\ "reviewer" \in b
         \/ p = "evidence" /\ x = "merge" /\ (y <=> q)
         \/ p = "evidence" /\ x = "idle"
         \/ p = "idle" /\ x = "idle" /\ "skipped" \in k
  PROVE  Sound(t, r, g, x, n, y, k, s, b)
<1> USE DEF Sound, Typed, Rounds, HasWorktree, Requests, Named, Commits, Delivers, Synced, Judged, Own,
    Stages, FromReviewed, FromPropen, FromCommitted, FromVerified,
    Fixing, InWorktree, AfterLocal, AfterPropen, AfterPush, Excused, Again
<1>1. CASE p = "idle" /\ x = "branch" /\ (y <=> q)
  BY <1>1
<1>2. CASE p = "idle" /\ x = "merge" /\ q /\ ~y
  BY <1>2
<1>3. CASE p = "branch" /\ x = "plan" /\ (y <=> q) /\ r.worktree /\ g.dir
  BY <1>3
<1>4. CASE p = "plan" /\ x = "work" /\ (y <=> q)
  BY <1>4
<1>5. CASE p = "work" /\ x = "commit" /\ (y <=> q) /\ r.stage \in FromVerified
  BY <1>5
<1>6. CASE p = "commit" /\ x = "pr" /\ (y <=> q) /\ g.files = HeadOf(g) /\ r.stage \in FromCommitted /\ n = 0
  BY <1>6
<1>7. CASE p = "commit" /\ x = "push" /\ (y <=> q) /\ g.files = HeadOf(g) /\ n > 0
  BY <1>7
<1>8. CASE p = "pr" /\ x = "review" /\ (y <=> q) /\ r.stage \in FromPropen
  BY <1>8
<1>9. CASE p = "review" /\ x = "evidence" /\ (y <=> q) /\ ("reviewer" \in b => r.stage \in FromReviewed)
  BY <1>9
<1>10. CASE p = "review" /\ x = "again" /\ (y <=> q) /\ n = 0
  BY <1>10
<1>11. CASE p = "review" /\ x = "rewind" /\ (y <=> q) /\ n < MaxRounds /\ "reviewer" \in b
  BY <1>11
<1>12. CASE p = "evidence" /\ x = "merge" /\ (y <=> q)
  BY <1>12
<1>13. CASE p = "evidence" /\ x = "idle"
  BY <1>13
<1>14. CASE p = "idle" /\ x = "idle" /\ "skipped" \in k
  BY <1>14
<1>15. QED
  BY <1>1, <1>2, <1>3, <1>4, <1>5, <1>6, <1>7, <1>8, <1>9, <1>10, <1>11, <1>12, <1>13, <1>14

-----------------------------------------------------------------------------
(* chalk branch, plan, work                                                *)

LEMMA HeadTyped == ASSUME NEW g \in Repository PROVE HeadOf(g) \in Content
<1>1. Base \in Content /\ g.local \in Seq(Content)
  BY DEF Content, Repository
<1>2. QED
  BY <1>1, LastIsIn DEF HeadOf

\* worktreeAdd
LEMMA WorktreeAdds ==
  ASSUME NEW t \in Tasks, NEW r, NEW g, NEW p, NEW n, NEW q, NEW k, NEW s, NEW b,
         Sound(t, r, g, p, n, q, k, s, b), p = "branch"
  PROVE  Sound(t, r, WorktreeAdd(g), p, n, q, k, s, b) /\ WorktreeAdd(g).dir
<1> DEFINE h == WorktreeAdd(g)
<1>1. /\ h \in Repository /\ h.dir /\ h.local = g.local /\ h.remote = g.remote
      /\ h.prs = g.prs /\ h.merged = g.merged
      /\ (h.files = g.files /\ g.dir) \/ h.files = HeadOf(g)
  BY HeadTyped DEF WorktreeAdd, Repository, Sound, Typed
<1>2. HeadOf(h) = HeadOf(g)
  BY <1>1 DEF HeadOf
<1> HIDE DEF h
<1> USE DEF Sound, Typed, Rounds, HasWorktree, Requests, Named, Commits, Delivers, Synced, Judged, Own,
    Stages, FromReviewed, FromPropen, FromCommitted, FromVerified,
    Fixing, InWorktree, AfterLocal, AfterPropen, AfterPush, Excused, Again
<1>3. QED
  BY <1>1, <1>2 DEF Landed, h

\* The stage is written, at branch, plan, work, when the gates are green.
LEMMA Advances ==
  ASSUME NEW t \in Tasks, NEW r, NEW g, NEW p, NEW n, NEW q, NEW k, NEW s, NEW b,
         Sound(t, r, g, p, n, q, k, s, b), NEW x, NEW y,
         \/ p = "branch" /\ y = "branched" /\ x = "plan" /\ g.dir
         \/ p = "plan" /\ y = "planned" /\ x = "work"
         \/ p \in {"verify", "probe"} /\ y = "verified" /\ x = "commit",
         NEW c \in Task, c.stage = y, c.worktree = (r.worktree \/ p = "branch"),
         c.state = "done" <=> r.state = "done", c.pr = r.pr, c.verdict = r.verdict
  PROVE  Sound(t, c, g, x, n, q, k, s, b)
<1>1. /\ x \in {"plan", "work", "commit"} /\ p \in {"branch", "plan", "verify", "probe"} /\ p # "idle"
      /\ y \in {"branched", "planned", "verified"} /\ (r.worktree = TRUE \/ p = "branch")
      /\ g.dir
  BY DEF Sound, HasWorktree, InWorktree, Stages
<1>2. c.worktree = TRUE /\ c.stage \notin FromCommitted /\ c.stage # "cleaned"
  BY <1>1 DEF FromCommitted, FromPropen, FromReviewed
<1>3. c.stage \notin FromPropen /\ c.stage \notin FromReviewed
  BY <1>1 DEF FromPropen, FromReviewed
<1>4. x \notin AfterLocal \cup AfterPropen \cup AfterPush /\ (n > 0 => x \in Fixing)
  BY <1>1 DEF Sound, Rounds, AfterLocal, AfterPropen, AfterPush, Fixing
<1>5. Typed(c, g, x, n) /\ Rounds(c, x, n, b)
  BY <1>1, <1>3, <1>4 DEF Sound, Typed, Rounds, Stages
<1>6. HasWorktree(c, g, x) /\ Commits(c, g, x, n, k)
  BY <1>1, <1>2, <1>4 DEF Sound, HasWorktree, Commits
<1>7. Requests(c, g, x, n, q, k)
  BY <1>1, <1>3, <1>4 DEF Sound, Requests, Named
<1>8. Delivers(c, g, x, k)
  BY <1>1 DEF Sound, Delivers
<1>9. Synced(c, g, x, q, k) /\ Judged(c, g, x, q, k, s, b)
  BY <1>1, <1>2, <1>3, <1>4 DEF Sound, Synced, Judged
<1>10. QED
  BY <1>5, <1>6, <1>7, <1>8, <1>9 DEF Sound

\* What does not concern the branch: the approval, the block, the executor's turn.
LEMMA StateChanges ==
  ASSUME NEW t \in Tasks, NEW r, NEW g, NEW p, NEW n, NEW q, NEW k, NEW s, NEW b,
         Sound(t, r, g, p, n, q, k, s, b), NEW c \in Task, c.stage = r.stage, c.worktree = r.worktree, c.pr = r.pr,
         c.verdict = r.verdict, c.state = "done" <=> r.state = "done"
  PROVE  Sound(t, c, g, p, n, q, k, s, b)
<1> USE DEF Sound, Typed, Rounds, HasWorktree, Requests, Named, Commits, Delivers, Synced, Judged, Own,
    Stages, FromReviewed, FromPropen, FromCommitted, FromVerified,
    Fixing, InWorktree, AfterLocal, AfterPropen, AfterPush, Excused, Again
<1>1. QED
  OBVIOUS

LEMMA WorkBegins ==
  ASSUME NEW t \in Tasks, NEW r, NEW g, NEW p, NEW n, NEW q, NEW k, NEW s, NEW b,
         Sound(t, r, g, p, n, q, k, s, b), p = "work", r.stage \notin FromVerified
  PROVE  Sound(t, r, g, "executor", n, q, k, s, b)
<1> USE DEF Sound, Typed, Rounds, HasWorktree, Requests, Named, Commits, Delivers, Synced, Judged, Own,
    Stages, FromReviewed, FromPropen, FromCommitted, FromVerified,
    Fixing, InWorktree, AfterLocal, AfterPropen, AfterPush, Excused, Again
<1>1. QED
  OBVIOUS

LEMMA Edits ==
  ASSUME NEW t \in Tasks, NEW g \in Repository, g.edits < MaxRev, NEW h, h = Edited(g, t)
  PROVE  /\ h \in Repository /\ h.dir = g.dir /\ h.local = g.local /\ h.remote = g.remote
         /\ h.prs = g.prs /\ h.merged = g.merged /\ h.files.of = t
<1> DEFINE e == [of |-> t, n |-> g.edits + 1]
<1>1. g.edits + 1 \in 1..MaxRev /\ g.edits + 1 \in 0..MaxRev
  BY PipelineAssumption DEF Repository
<1>2. e \in Content /\ e.of = t
  BY <1>1 DEF Content
<1>3. h = [g EXCEPT !.files = e, !.edits = g.edits + 1]
  BY DEF Edited
<1> HIDE DEF e
<1>4. QED
  BY <1>1, <1>2, <1>3 DEF Repository

LEMMA ExecutorRuns ==
  ASSUME NEW t \in Tasks, NEW r, NEW g, NEW p, NEW n, NEW q, NEW k, NEW s, NEW b,
         Sound(t, r, g, p, n, q, k, s, b), p = "executor", NEW h, h = g \/ (h = Edited(g, t) /\ g.edits < MaxRev)
  PROVE  Sound(t, r, h, "verify", n, q, k, s, b)
<1>1. /\ h \in Repository /\ h.dir = g.dir /\ h.local = g.local /\ h.remote = g.remote
      /\ h.prs = g.prs /\ h.merged = g.merged /\ (h.files.of = t \/ h = g)
  BY Edits DEF Sound, Typed
<1> USE DEF Sound, Typed, Rounds, HasWorktree, Requests, Named, Commits, Delivers, Synced, Judged, Own,
    Stages, FromReviewed, FromPropen, FromCommitted, FromVerified,
    Fixing, InWorktree, AfterLocal, AfterPropen, AfterPush, Excused, Again
<1>2. QED
  BY <1>1 DEF Landed

\* The probe takes the change out of the worktree; after it something is put back.
LEMMA Probing ==
  ASSUME NEW t \in Tasks, NEW r, NEW g, NEW p, NEW n, NEW q, NEW k, NEW s, NEW b,
         Sound(t, r, g, p, n, q, k, s, b), p \in {"verify", "probe"}, NEW f \in Content,
         f = HeadOf(g) \/ f.of = t \/ "probe" \in k
  PROVE  Sound(t, r, [g EXCEPT !.files = f], "probe", n, q, k, s, b)
<1> DEFINE h == [g EXCEPT !.files = f]
<1>1. /\ h \in Repository /\ h.dir = g.dir /\ h.local = g.local /\ h.remote = g.remote
      /\ h.prs = g.prs /\ h.merged = g.merged /\ h.files = f
  BY DEF Repository, Sound, Typed
<1>2. HeadOf(h) = HeadOf(g)
  BY <1>1 DEF HeadOf
<1> HIDE DEF h
<1> USE DEF Sound, Typed, Rounds, HasWorktree, Requests, Named, Commits, Delivers, Synced, Judged, Own,
    Stages, FromReviewed, FromPropen, FromCommitted, FromVerified,
    Fixing, InWorktree, AfterLocal, AfterPropen, AfterPush, Excused, Again
<1>3. QED
  BY <1>1, <1>2 DEF Landed, h

-----------------------------------------------------------------------------
(* chalk commit, pr                                                        *)

LEMMA Committing ==
  ASSUME NEW t \in Tasks, NEW r, NEW g, NEW p, NEW n, NEW q, NEW k, NEW s, NEW b,
         Sound(t, r, g, p, n, q, k, s, b), p = "commit", g.files # HeadOf(g), ~q
  PROVE  Sound(t, r, [g EXCEPT !.local = Append(@, g.files)], "committed", n, q, k, s, b)
<1> DEFINE w == Append(g.local, g.files)
           h == [g EXCEPT !.local = w]
<1>1. g \in Repository /\ g.local \in Seq(Content) /\ g.files \in Content
  BY DEF Repository, Sound, Typed
<1>2. w \in Seq(Content) /\ w # <<>> /\ Range(w) = Range(g.local) \cup {g.files} /\ Last(w) = g.files
  BY <1>1, Appended
<1> HIDE DEF w
<1>3. /\ h \in Repository /\ h.dir = g.dir /\ h.remote = g.remote /\ h.prs = g.prs
      /\ h.merged = g.merged /\ h.files = g.files /\ h.local = w
      /\ h.local # <<>> /\ HeadOf(h) = h.files
  BY <1>1, <1>2 DEF Repository, HeadOf
<1> HIDE DEF h
<1>4. Landed(h) = Landed(g)
  BY <1>3 DEF Landed
<1>5. g.dir /\ (g.files.of = t \/ "probe" \in k)
  BY DEF Sound, HasWorktree, Own, InWorktree, Stages
<1>6. Typed(r, h, "committed", n) /\ HasWorktree(r, h, "committed") /\ Rounds(r, "committed", n, b)
  BY <1>3 DEF Sound, Typed, HasWorktree, Rounds, InWorktree, Stages, Fixing
<1>7. Requests(r, h, "committed", n, q, k) /\ Delivers(r, h, "committed", k)
  BY <1>3, <1>4 DEF Sound, Requests, Named, Delivers, AfterPropen
<1>8. Commits(r, h, "committed", n, k) /\ Synced(r, h, "committed", q, k)
  BY <1>2, <1>3, <1>4, <1>5 DEF Sound, Commits, Synced, AfterPush, FromPropen, FromCommitted
<1>9. Judged(r, h, "committed", q, k, s, b) /\ Own(t, h, k)
  BY <1>2, <1>3, <1>4, <1>5 DEF Sound, Judged, Own
<1>10. QED
  BY <1>6, <1>7, <1>8, <1>9 DEF Sound, h, w

LEMMA CommitRecorded ==
  ASSUME NEW t \in Tasks, NEW r, NEW g, NEW p, NEW n, NEW q, NEW k, NEW s, NEW b,
         Sound(t, r, g, p, n, q, k, s, b), p = "committed", NEW c \in Task, c.worktree = r.worktree, c.pr = r.pr,
         c.verdict = r.verdict, c.state = r.state,
         c.stage = IF r.stage \in FromCommitted THEN r.stage ELSE "committed"
  PROVE  Sound(t, c, g, IF n > 0 THEN "push" ELSE "pr", n, q, k, s, b)
<1> USE DEF Sound, Typed, Rounds, HasWorktree, Requests, Named, Commits, Delivers, Synced, Judged, Own,
    Stages, FromReviewed, FromPropen, FromCommitted, FromVerified,
    Fixing, InWorktree, AfterLocal, AfterPropen, AfterPush, Excused, Again
<1>1. CASE n > 0
  BY <1>1
<1>2. CASE ~(n > 0)
  BY <1>2
<1>3. QED
  BY <1>1, <1>2

\* The commit of a fix fails.
LEMMA CommitLost ==
  ASSUME NEW t \in Tasks, NEW r, NEW g, NEW p, NEW n, NEW q, NEW k, NEW s, NEW b,
         Sound(t, r, g, p, n, q, k, s, b), p = "commit", n > 0, NEW l, l = k \cup {"commit"}
  PROVE  Sound(t, r, g, "push", n, q, l, s, b)
<1> USE DEF Sound, Typed, Rounds, HasWorktree, Requests, Named, Commits, Delivers, Synced, Judged, Own,
    Stages, FromReviewed, FromPropen, FromCommitted, FromVerified,
    Fixing, InWorktree, AfterLocal, AfterPropen, AfterPush, Excused, Again
<1>1. QED
  OBVIOUS

\* git push
LEMMA Pushes ==
  ASSUME NEW t \in Tasks, NEW r, NEW g, NEW p, NEW n, NEW q, NEW k, NEW s, NEW b,
         Sound(t, r, g, p, n, q, k, s, b), ~q,
         NEW x,
         \/ p = "push" /\ x = "review"
         \/ p = "pr" /\ x = "create" /\ (r.stage \notin FromPropen \/ r.pr = 0)
         \/ p = "evidence" /\ x = "evidence",
         IsPrefix(g.remote, g.local)
  PROVE  Sound(t, r, [g EXCEPT !.remote = g.local], x, n, q, k, s, b)
<1> DEFINE h == [g EXCEPT !.remote = g.local]
<1>1. /\ h \in Repository /\ h.dir = g.dir /\ h.remote = g.local /\ h.prs = g.prs
      /\ h.merged = g.merged /\ h.files = g.files /\ h.local = g.local /\ HeadOf(h) = HeadOf(g)
  BY DEF Repository, Sound, Typed, HeadOf
<1>2. g.remote # <<>> => h.remote # <<>>
  BY <1>1, PrefixGrows DEF Repository, Sound, Typed
<1> HIDE DEF h
<1> USE DEF Sound, Typed, Rounds, HasWorktree, Requests, Named, Commits, Delivers, Synced, Judged, Own,
    Stages, FromReviewed, FromPropen, FromCommitted, FromVerified,
    Fixing, InWorktree, AfterLocal, AfterPropen, AfterPush, Excused, Again
<1>3. CASE p = "push" /\ x = "review"
  BY <1>1, <1>2, <1>3 DEF Landed, h
<1>4. CASE p = "pr" /\ x = "create" /\ (r.stage \notin FromPropen \/ r.pr = 0)
  BY <1>1, <1>2, <1>4 DEF Landed, h
<1>5. CASE p = "evidence" /\ x = "evidence"
  BY <1>1, <1>2, <1>5 DEF Landed, h
<1>6. QED
  BY <1>3, <1>4, <1>5

LEMMA PushLost ==
  ASSUME NEW t \in Tasks, NEW r, NEW g, NEW p, NEW n, NEW q, NEW k, NEW s, NEW b,
         Sound(t, r, g, p, n, q, k, s, b), p = "push", NEW l, l = k \cup {"push"}
  PROVE  Sound(t, r, g, "review", n, q, l, s, b)
<1> USE DEF Sound, Typed, Rounds, HasWorktree, Requests, Named, Commits, Delivers, Synced, Judged, Own,
    Stages, FromReviewed, FromPropen, FromCommitted, FromVerified,
    Fixing, InWorktree, AfterLocal, AfterPropen, AfterPush, Excused, Again
<1>1. QED
  OBVIOUS

LEMMA Creates ==
  ASSUME NEW t \in Tasks, NEW r, NEW g, NEW p, NEW n, NEW q, NEW k, NEW s, NEW b,
         Sound(t, r, g, p, n, q, k, s, b), p = "create", ~q, \A i \in DOMAIN g.prs : g.prs[i] # "open", g.remote # <<>>
  PROVE  Sound(t, r, [g EXCEPT !.prs = Append(@, "open")], "created", n, q, k, s, b)
<1> DEFINE w == Append(g.prs, "open")
           h == [g EXCEPT !.prs = w]
<1>1. g \in Repository /\ g.prs \in Seq({"open", "merged"})
  BY DEF Repository, Sound, Typed
<1>2. w \in Seq({"open", "merged"}) /\ w # <<>> /\ Last(w) = "open"
  BY <1>1, Appended
<1>3. \A i \in DOMAIN w : i < Len(w) => w[i] = "merged"
  <2>1. \A i \in DOMAIN g.prs : g.prs[i] = "merged"
    BY <1>1, ElementOfSeq, LenProperties
  <2>2. QED
    BY <1>1, <2>1, Appended
<1> HIDE DEF w
<1>4. /\ h \in Repository /\ h.dir = g.dir /\ h.remote = g.remote /\ h.local = g.local
      /\ h.merged = g.merged /\ h.files = g.files /\ HeadOf(h) = HeadOf(g) /\ h.prs = w
      /\ h.prs # <<>> /\ ~Landed(h)
  BY <1>1, <1>2 DEF Repository, HeadOf, Landed
<1> HIDE DEF h
<1>5. n = 0 /\ r.stage \notin FromPropen
  <2>1. n = 0 /\ (r.stage \notin FromPropen \/ r.pr = 0)
    BY DEF Sound, Typed, Rounds, Fixing
  <2>2. g.prs # <<>> => Landed(g) /\ Len(g.prs) # 0
    <3>1. g.prs # <<>> => Last(g.prs) \in {"open", "merged"} /\ Len(g.prs) \in DOMAIN g.prs
      BY <1>1, LastIsIn
    <3>2. QED
      BY <1>1, <3>1, LenProperties, EmptySeq DEF Landed, Last
  <2>3. 0 \notin DOMAIN g.prs
    BY <1>1, LenProperties
  <2>4. QED
    BY <2>1, <2>2, <2>3 DEF Sound, Requests, Named
<1>6. Typed(r, h, "created", n) /\ HasWorktree(r, h, "created") /\ Rounds(r, "created", n, b)
  BY <1>4, <1>5 DEF Sound, Typed, HasWorktree, Rounds, InWorktree, Stages, Fixing
<1>7. Requests(r, h, "created", n, q, k) /\ Delivers(r, h, "created", k)
  <2>1. \A i \in DOMAIN w : w[i] = "merged" => h.merged # <<>>
    <3>1. \A i \in DOMAIN w : i \in DOMAIN g.prs \/ i = Len(g.prs) + 1
      BY <1>1, Appended DEF w
    <3>2. w[Len(g.prs) + 1] = "open"
      BY <1>1, Appended DEF w, Last
    <3>3. \A i \in DOMAIN g.prs : w[i] = g.prs[i]
      BY <1>1, Appended DEF w
    <3>4. QED
      BY <1>4, <3>1, <3>2, <3>3 DEF Sound, Requests
  <2>2. \A i \in DOMAIN g.prs : i \in DOMAIN w
    BY <1>1, Appended, LenProperties DEF w
  <2>3. QED
    BY <1>3, <1>4, <1>5, <2>1, <2>2 DEF Sound, Requests, Delivers, AfterPropen
<1>8. Commits(r, h, "created", n, k) /\ Synced(r, h, "created", q, k)
  BY <1>3, <1>4, <1>5 DEF Sound, Commits, Synced, AfterPush, AfterLocal
<1>9. Judged(r, h, "created", q, k, s, b) /\ Own(t, h, k)
  BY <1>3, <1>4, <1>5 DEF Sound, Judged, Own, FromPropen
<1>10. QED
  BY <1>6, <1>7, <1>8, <1>9 DEF Sound, h, w

LEMMA PrRecorded ==
  ASSUME NEW t \in Tasks, NEW r, NEW g, NEW p, NEW n, NEW q, NEW k, NEW s, NEW b,
         Sound(t, r, g, p, n, q, k, s, b), p = "created", NEW c \in Task, c.stage = "propen", c.worktree = r.worktree,
         c.pr = Len(g.prs) \/ (c.pr = 0 /\ "unnamed" \in k), c.verdict = r.verdict, c.state = r.state
  PROVE  Sound(t, c, g, "review", n, q, k, s, b)
<1>0. c.pr = 0 \/ c.pr \in DOMAIN g.prs
  <2>1. g.prs \in Seq({"open", "merged"}) /\ g.prs # <<>>
    BY DEF Sound, Typed, Repository, Requests
  <2>2. QED
    BY <2>1, LastIsIn
<1> USE DEF Sound, Typed, Rounds, HasWorktree, Requests, Named, Commits, Delivers, Synced, Judged, Own,
    Stages, FromReviewed, FromPropen, FromCommitted, FromVerified,
    Fixing, InWorktree, AfterLocal, AfterPropen, AfterPush, Excused, Again
<1>1. QED
  BY <1>0

-----------------------------------------------------------------------------
(* chalk review and the fix loop                                           *)

\* A reviewer that edits the worktree it judges.
LEMMA ReviewerEdits ==
  ASSUME NEW t \in Tasks, NEW r, NEW g, NEW p, NEW n, NEW q, NEW k, NEW s, NEW b,
         Sound(t, r, g, p, n, q, k, s, b), g.edits < MaxRev, NEW l, l = k \cup {"reader"}
  PROVE  Sound(t, r, Edited(g, t), p, n, q, l, s, b)
<1> DEFINE h == Edited(g, t)
<1>1. /\ h \in Repository /\ h.dir = g.dir /\ h.local = g.local /\ h.remote = g.remote
      /\ h.prs = g.prs /\ h.merged = g.merged /\ h.files.of = t
  BY Edits DEF Sound, Typed
<1> HIDE DEF h
<1> USE DEF Sound, Typed, Rounds, HasWorktree, Requests, Named, Commits, Delivers, Synced, Judged, Own,
    Stages, FromReviewed, FromPropen, FromCommitted, FromVerified,
    Fixing, InWorktree, AfterLocal, AfterPropen, AfterPush, Excused, Again
<1>2. QED
  BY <1>1 DEF Landed, h

\* A block starts a round.
LEMMA ReviewBlocks ==
  ASSUME NEW t \in Tasks, NEW r, NEW g, NEW p, NEW n, NEW q, NEW k, NEW s, NEW b,
         Sound(t, r, g, p, n, q, k, s, b), p = "review", n < MaxRounds, "reviewer" \in b,
         NEW c \in Task, c.stage = r.stage, c.worktree = r.worktree, c.pr = r.pr,
         c.state = r.state, c.verdict = "block"
  PROVE  Sound(t, c, g, "rewind", n, q, k, s, b)
<1> USE DEF Sound, Typed, Rounds, HasWorktree, Requests, Named, Commits, Delivers, Synced, Judged, Own,
    Stages, FromReviewed, FromPropen, FromCommitted, FromVerified,
    Fixing, InWorktree, AfterLocal, AfterPropen, AfterPush, Excused, Again
<1>1. QED
  OBVIOUS

\* The verdict a stage that is to fail writes.
LEMMA VerdictStays ==
  ASSUME NEW t \in Tasks, NEW r, NEW g, NEW p, NEW n, NEW q, NEW k, NEW s, NEW b,
         Sound(t, r, g, p, n, q, k, s, b), "reviewer" \in b,
         NEW c \in Task, c.stage = r.stage, c.worktree = r.worktree, c.pr = r.pr,
         c.state = r.state, c.verdict \in Verdict
  PROVE  Sound(t, c, g, p, n, q, k, s, b)
<1> USE DEF Sound, Typed, Rounds, HasWorktree, Requests, Named, Commits, Delivers, Synced, Judged, Own,
    Stages, FromReviewed, FromPropen, FromCommitted, FromVerified,
    Fixing, InWorktree, AfterLocal, AfterPropen, AfterPush, Excused, Again
<1>1. QED
  OBVIOUS

LEMMA ReviewPasses ==
  ASSUME NEW t \in Tasks, NEW r, NEW g, NEW p, NEW n, NEW q, NEW k, NEW s, NEW b,
         Sound(t, r, g, p, n, q, k, s, b), p \in {"review", "again"}, "reviewer" \in b, ~q,
         NEW c \in Task, c.worktree = r.worktree, c.pr = r.pr,
         c.state = "done" <=> r.state = "done", c.verdict = "pass",
         c.stage = IF r.stage \in FromPropen THEN "reviewed" ELSE r.stage,
         NEW v, v = s \cup {g.files}
  PROVE  Sound(t, c, g, "evidence", 0, q, k, v, b)
<1>1. g.dir /\ (g.files = HeadOf(g) \/ Excused(k))
  BY DEF Sound, HasWorktree, Synced, InWorktree, Stages, AfterLocal
<1>2. g.remote = g.local \/ Excused(k) \/ Landed(g)
  BY DEF Sound, Synced, AfterPush
<1>3. (g.remote # <<>> => Last(g.remote) \in v) \/ Excused(k) \/ Landed(g)
  BY <1>1, <1>2 DEF HeadOf
<1> USE DEF Sound, Typed, Rounds, HasWorktree, Requests, Named, Commits, Delivers, Synced, Judged, Own,
    Stages, FromReviewed, FromPropen, FromCommitted, FromVerified,
    Fixing, InWorktree, AfterLocal, AfterPropen, AfterPush, Excused, Again
<1>4. QED
  BY <1>1, <1>2, <1>3, PipelineAssumption

LEMMA Rewinds ==
  ASSUME NEW t \in Tasks, NEW r, NEW g, NEW p, NEW n, NEW q, NEW k, NEW s, NEW b,
         Sound(t, r, g, p, n, q, k, s, b), p = "rewind", NEW c \in Task, c.stage = "branched", c.worktree = r.worktree,
         c.pr = r.pr, c.state = r.state, c.verdict = r.verdict
  PROVE  Sound(t, c, g, "work", n + 1, q, k, s, b)
<1> USE DEF Sound, Typed, Rounds, HasWorktree, Requests, Named, Commits, Delivers, Synced, Judged, Own,
    Stages, FromReviewed, FromPropen, FromCommitted, FromVerified,
    Fixing, InWorktree, AfterLocal, AfterPropen, AfterPush, Excused, Again
<1>1. n + 1 \in 0..MaxRounds
  BY PipelineAssumption
<1>2. QED
  BY <1>1

-----------------------------------------------------------------------------
(* chalk evidence, merge                                                   *)

LEMMA EvidenceTaken ==
  ASSUME NEW t \in Tasks, NEW r, NEW g, NEW p, NEW n, NEW q, NEW k, NEW s, NEW b,
         Sound(t, r, g, p, n, q, k, s, b), p = "evidence", NEW c \in Task, c.stage = "tested", c.worktree = r.worktree,
         c.pr = r.pr, c.state = r.state, c.verdict = r.verdict
  PROVE  Sound(t, c, g, p, n, q, k, s, b)
<1> USE DEF Sound, Typed, Rounds, HasWorktree, Requests, Named, Commits, Delivers, Synced, Judged, Own,
    Stages, FromReviewed, FromPropen, FromCommitted, FromVerified,
    Fixing, InWorktree, AfterLocal, AfterPropen, AfterPush, Excused, Again
<1>1. QED
  OBVIOUS

LEMMA Merges ==
  ASSUME NEW t \in Tasks, NEW r, NEW g, NEW p, NEW n, NEW q, NEW k, NEW s, NEW b,
         Sound(t, r, g, p, n, q, k, s, b), p = "merge", r.state = "in-progress", r.pr # 0,
         ReviewRequired => r.verdict = "pass",
         NEW rest, rest = g.remote \/ (rest = <<>> /\ r.pr = Len(g.prs))
  PROVE  Sound(t, r, [Squash(g, r.pr) EXCEPT !.remote = rest], "teardown", n, q, k, s, b)
<1> DEFINE h == [Squash(g, r.pr) EXCEPT !.remote = rest]
           old == g.merged # <<>> /\ g.prs[r.pr] = "merged"
           x == Append(g.merged, Last(g.remote))
           m == IF old THEN g.merged ELSE x
           w == [g.prs EXCEPT ![r.pr] = "merged"]
<1>1. /\ g \in Repository /\ g.merged \in Seq(Content) /\ g.remote \in Seq(Content)
      /\ g.prs \in Seq({"open", "merged"}) /\ r.pr \in DOMAIN g.prs /\ g.prs # <<>>
  <2>1. g \in Repository /\ r.pr \in DOMAIN g.prs
    BY DEF Sound, Typed, Requests
  <2>2. g.prs # <<>>
    BY <2>1 DEF Repository
  <2>3. QED
    BY <2>1, <2>2 DEF Repository
<1>2. Len(g.prs) \in DOMAIN g.prs /\ Last(g.prs) = g.prs[Len(g.prs)] /\ DOMAIN g.prs = 1..Len(g.prs)
  BY <1>1, LastIsIn, LenProperties DEF Last
<1>3. /\ w \in Seq({"open", "merged"}) /\ w # <<>> /\ Len(w) = Len(g.prs)
      /\ DOMAIN w = DOMAIN g.prs /\ w[r.pr] = "merged" /\ \A i \in DOMAIN w : i # r.pr => w[i] = g.prs[i]
  BY <1>1, <1>2, ExceptSeq, LenProperties, EmptySeq
<1>4. ~old => r.pr = Len(g.prs) /\ ~Landed(g)
  BY <1>1, <1>2 DEF Sound, Requests, Landed
<1>5. ~old => g.remote # <<>> /\ Last(g.remote) \in Range(g.remote) /\ Last(g.remote) \in Content
  BY <1>1, <1>4, LastIsIn DEF Sound, Requests
<1>6. /\ m \in Seq(Content) /\ m # <<>>
      /\ old => m = g.merged
      /\ ~old => Range(m) = Range(g.merged) \cup {Last(g.remote)} /\ Len(m) = Len(g.merged) + 1
  BY <1>1, <1>5, Appended
<1>7. h = [g EXCEPT !.merged = m, !.prs = w, !.remote = rest]
  <2> HIDE DEF x
  <2>1. [g EXCEPT !.merged = IF old THEN g.merged ELSE x] = [g EXCEPT !.merged = m]
    OBVIOUS
  <2>2. Squash(g, r.pr) = [g EXCEPT !.merged = m, !.prs = w]
    BY <1>1, <2>1 DEF Squash, x, Repository
  <2> HIDE DEF m, w
  <2>3. QED
    BY <1>1, <2>2 DEF Repository
<1>8. old => \A i \in DOMAIN w : w[i] = g.prs[i]
  BY <1>3
<1>9. r.pr = Len(g.prs) \/ "skipped" \in k
  BY <1>1 DEF Sound, Requests, Named
<1> HIDE DEF m, w, x, h
<1>10. /\ h \in Repository /\ h.dir = g.dir /\ h.remote = rest /\ h.local = g.local
       /\ h.merged = m /\ h.files = g.files /\ HeadOf(h) = HeadOf(g) /\ h.prs = w
  <2>1. rest \in Seq(Content)
    BY <1>1, EmptySeq
  <2>2. g \in Repository /\ m \in Seq(Content) /\ w \in Seq({"open", "merged"})
    BY <1>1, <1>3, <1>6
  <2>3. /\ h \in Repository /\ h.dir = g.dir /\ h.remote = rest /\ h.local = g.local
        /\ h.merged = m /\ h.files = g.files /\ h.prs = w
    BY <1>7, <2>1, <2>2 DEF Repository
  <2>4. QED
    BY <2>3 DEF HeadOf
<1>11. Last(w) = w[Len(g.prs)]
  BY <1>3 DEF Last
<1>12. (r.pr = Len(g.prs) => Landed(h)) /\ (r.pr # Len(g.prs) => Landed(h) = Landed(g) /\ "skipped" \in k)
  BY <1>2, <1>3, <1>4, <1>8, <1>9, <1>10, <1>11 DEF Landed
<1>13. n = 0 /\ p = "merge"
  BY DEF Sound, Typed, Rounds, Fixing
<1>14. /\ Typed(r, h, "teardown", n) /\ HasWorktree(r, h, "teardown")
       /\ Rounds(r, "teardown", n, b) /\ Commits(r, h, "teardown", n, k)
  BY <1>10, <1>13 DEF Sound, Typed, HasWorktree, Rounds, Commits, InWorktree, AfterLocal, Stages
<1>15. Requests(r, h, "teardown", n, q, k)
  <2>1. \A i \in DOMAIN w : i < Len(w) => w[i] = "merged"
    BY <1>3 DEF Sound, Requests
  <2>2. h.prs # <<>> /\ ~Landed(h) => h.remote # <<>>
    BY <1>1, <1>10, <1>12 DEF Sound, Requests
  <2>3. Named(r, h, k)
    BY <1>1, <1>3, <1>9, <1>10 DEF Named
  <2>4. QED
    BY <1>1, <1>3, <1>6, <1>10, <1>12, <2>1, <2>2, <2>3 DEF Requests
<1>16. Delivers(r, h, "teardown", k)
  <2>1. old /\ Len(m) > 1 => Again(k)
    BY <1>6 DEF Sound, Delivers
  <2>2. ~old /\ Len(m) > 1 => Again(k)
    BY <1>1, <1>6, <1>13 DEF Sound, Delivers
  <2>3. QED
    BY <1>10, <2>1, <2>2 DEF Delivers
<1>17. Synced(r, h, "teardown", q, k)
  BY <1>10, <1>12 DEF Sound, Synced, AfterLocal, AfterPush, Excused
<1>18. Judged(r, h, "teardown", q, k, s, b)
  <2>1. ReviewRequired => "reviewer" \in b
    BY <1>13 DEF Sound, Judged
  <2>2. ReviewRequired /\ ~old => Last(g.remote) \in s \/ Excused(k)
    BY <1>4, <1>5, <1>13, <2>1 DEF Sound, Judged
  <2>3. ReviewRequired => Range(m) \subseteq s \/ Excused(k)
    BY <1>6, <2>2 DEF Sound, Judged
  <2>4. Landed(h) \/ Excused(k)
    BY <1>12 DEF Excused
  <2>5. QED
    BY <1>10, <2>3, <2>4 DEF Sound, Judged
<1>19. Own(t, h, k)
  <2>1. Range(m) \subseteq Range(g.merged) \cup Range(g.remote)
    BY <1>5, <1>6
  <2>2. Range(rest) \subseteq Range(g.remote)
    BY EmptyRange
  <2>3. QED
    BY <1>10, <2>1, <2>2 DEF Sound, Own
<1>20. QED
  BY <1>14, <1>15, <1>16, <1>17, <1>18, <1>19 DEF Sound, h, m, w, x

\* Worktree, local branch and record are cleared, here and by chalk cleanup.
LEMMA Removed ==
  ASSUME NEW g \in Repository, NEW h, h = WorktreeRemove(g)
  PROVE  /\ h \in Repository /\ ~h.dir /\ h.local = <<>> /\ h.files = HeadOf(h)
         /\ h.remote = g.remote /\ h.prs = g.prs /\ h.merged = g.merged /\ h.files = Base
<1>1. Base \in Content /\ <<>> \in Seq(Content)
  BY EmptySeq DEF Content
<1>2. QED
  BY <1>1 DEF WorktreeRemove, Repository, HeadOf

LEMMA TearsDown ==
  ASSUME NEW t \in Tasks, NEW r, NEW g, NEW p, NEW n, NEW q, NEW k, NEW s, NEW b,
         Sound(t, r, g, p, n, q, k, s, b), p = "teardown"
  PROVE  Sound(t, r, WorktreeRemove(g), "merged", n, q, k, s, b)
<1> DEFINE h == WorktreeRemove(g)
<1>1. /\ h \in Repository /\ ~h.dir /\ h.local = <<>> /\ h.remote = g.remote
      /\ h.prs = g.prs /\ h.merged = g.merged /\ Range(h.local) = {}
  BY Removed, EmptyRange DEF Sound, Typed
<1> HIDE DEF h
<1> USE DEF Sound, Typed, Rounds, HasWorktree, Requests, Named, Commits, Delivers, Synced, Judged, Own,
    Stages, FromReviewed, FromPropen, FromCommitted, FromVerified,
    Fixing, InWorktree, AfterLocal, AfterPropen, AfterPush, Excused, Again
<1>2. QED
  BY <1>1 DEF Landed, h

LEMMA MergeRecorded ==
  ASSUME NEW t \in Tasks, NEW r, NEW g, NEW p, NEW n, NEW q, NEW k, NEW s, NEW b,
         Sound(t, r, g, p, n, q, k, s, b), p = "merged", NEW c \in Task, c.stage = "cleaned", ~c.worktree, c.pr = r.pr,
         c.state = "done", c.verdict = r.verdict
  PROVE  Sound(t, c, g, "idle", 0, q, k, s, b)
<1> USE DEF Sound, Typed, Rounds, HasWorktree, Requests, Named, Commits, Delivers, Synced, Judged, Own,
    Stages, FromReviewed, FromPropen, FromCommitted, FromVerified,
    Fixing, InWorktree, AfterLocal, AfterPropen, AfterPush, Excused, Again
<1>1. QED
  BY PipelineAssumption

-----------------------------------------------------------------------------
(* Humans and faults.                                                      *)

LEMMA Cleaned ==
  ASSUME NEW t \in Tasks, NEW r, NEW g, NEW p, NEW n, NEW q, NEW k, NEW s, NEW b,
         Sound(t, r, g, p, n, q, k, s, b), p = "idle", ~q, NEW c \in Task, c.stage = "selected", ~c.worktree,
         c.pr = r.pr, c.state = r.state, c.verdict = r.verdict
  PROVE  Sound(t, c, WorktreeRemove(g), p, n, q, k, s, b)
<1> DEFINE h == WorktreeRemove(g)
<1>1. /\ h \in Repository /\ ~h.dir /\ h.local = <<>> /\ h.remote = g.remote
      /\ h.prs = g.prs /\ h.merged = g.merged /\ Range(h.local) = {}
  BY Removed, EmptyRange DEF Sound, Typed
<1> HIDE DEF h
<1> USE DEF Sound, Typed, Rounds, HasWorktree, Requests, Named, Commits, Delivers, Synced, Judged, Own,
    Stages, FromReviewed, FromPropen, FromCommitted, FromVerified,
    Fixing, InWorktree, AfterLocal, AfterPropen, AfterPush, Excused, Again
<1>2. QED
  BY <1>1 DEF Landed, h

LEMMA Reopens ==
  ASSUME NEW t \in Tasks, NEW r, NEW g, NEW p, NEW n, NEW q, NEW k, NEW s, NEW b,
         Sound(t, r, g, p, n, q, k, s, b), r.state = "done", NEW c \in Task, c.stage = r.stage, c.worktree = r.worktree,
         c.pr = r.pr, c.state = "in-progress", c.verdict = r.verdict,
         NEW l, l = k \cup {"reopened"}
  PROVE  Sound(t, c, g, p, n, q, l, s, b)
<1> USE DEF Sound, Typed, Rounds, HasWorktree, Requests, Named, Commits, Delivers, Synced, Judged, Own,
    Stages, FromReviewed, FromPropen, FromCommitted, FromVerified,
    Fixing, InWorktree, AfterLocal, AfterPropen, AfterPush, Excused, Again
<1>1. QED
  OBVIOUS

LEMMA Completes ==
  ASSUME NEW t \in Tasks, NEW r, NEW g, NEW p, NEW n, NEW q, NEW k, NEW s, NEW b,
         Sound(t, r, g, p, n, q, k, s, b), NEW c \in Task, c.stage = r.stage, c.worktree = r.worktree,
         c.pr = r.pr, c.state = "done", c.verdict = r.verdict,
         NEW l, l = k \cup {"done"}
  PROVE  Sound(t, c, g, p, n, q, l, s, b)
<1> USE DEF Sound, Typed, Rounds, HasWorktree, Requests, Named, Commits, Delivers, Synced, Judged, Own,
    Stages, FromReviewed, FromPropen, FromCommitted, FromVerified,
    Fixing, InWorktree, AfterLocal, AfterPropen, AfterPush, Excused, Again
<1>1. QED
  OBVIOUS

LEMMA Vanishes ==
  ASSUME NEW t \in Tasks, NEW r, NEW g, NEW p, NEW n, NEW q, NEW k, NEW s, NEW b,
         Sound(t, r, g, p, n, q, k, s, b), p = "idle",
         NEW h, h = [g EXCEPT !.dir = FALSE, !.files = Base]
  PROVE  Sound(t, r, h, p, n, q, k, s, b)
<1>1. /\ h \in Repository /\ ~h.dir /\ h.local = g.local /\ h.remote = g.remote
      /\ h.prs = g.prs /\ h.merged = g.merged
  <2>1. Base \in Content /\ g \in Repository
    BY DEF Content, Sound, Typed
  <2>2. QED
    BY <2>1 DEF Repository
<1> USE DEF Sound, Typed, Rounds, HasWorktree, Requests, Named, Commits, Delivers, Synced, Judged, Own,
    Stages, FromReviewed, FromPropen, FromCommitted, FromVerified,
    Fixing, InWorktree, AfterLocal, AfterPropen, AfterPush, Excused, Again
<1>2. QED
  BY <1>1 DEF Landed

-----------------------------------------------------------------------------
(* What a step about one task leaves of the others.                        *)

\* Faults and passed contents only accumulate.
Recorded == lapse \subseteq lapse' /\ passed \subseteq passed'

LEMMA SufferedStays ==
  ASSUME Recorded, NEW t \in Tasks
  PROVE  Suffered(t, lapse) \subseteq Suffered(t, lapse')
BY DEF Recorded, Suffered

LEMMA OneTask ==
  ASSUME TypeOK, Soundness, Recorded, NEW t \in Tasks, NEW c, NEW h, NEW x, NEW m,
         Sound(t, c, h, x, m, t \in ready', Suffered(t, lapse'), passed', bound),
         task' = [task EXCEPT ![t] = c], git' = [git EXCEPT ![t] = h],
         pc' = [pc EXCEPT ![t] = x], round' = [round EXCEPT ![t] = m], bound' = bound,
         ready \ {t} \subseteq ready', ready' \subseteq ready \cup {t}
  PROVE  /\ Soundness'
         /\ task' \in [Tasks -> Task] /\ git' \in [Tasks -> Repository]
         /\ pc' \in [Tasks -> Stages] /\ round' \in [Tasks -> 0..MaxRounds]
<1>1. c \in Task /\ h \in Repository /\ x \in Stages /\ m \in 0..MaxRounds
  BY DEF Sound, Typed
<1>2. /\ task' \in [Tasks -> Task] /\ git' \in [Tasks -> Repository]
      /\ pc' \in [Tasks -> Stages] /\ round' \in [Tasks -> 0..MaxRounds]
  BY <1>1 DEF TypeOK
<1>3. \A u \in Tasks : Sound(u, task'[u], git'[u], pc'[u], round'[u], u \in ready',
                             Suffered(u, lapse'), passed', bound')
  <2> SUFFICES ASSUME NEW u \in Tasks
               PROVE  Sound(u, task'[u], git'[u], pc'[u], round'[u], u \in ready',
                            Suffered(u, lapse'), passed', bound')
    OBVIOUS
  <2>1. CASE u = t
    BY <2>1 DEF TypeOK
  <2>2. CASE u # t
    <3>1. /\ task'[u] = task[u] /\ git'[u] = git[u] /\ pc'[u] = pc[u] /\ round'[u] = round[u]
          /\ u \in ready' <=> u \in ready
      BY <2>2 DEF TypeOK
    <3>2. Sound(u, task[u], git[u], pc[u], round[u], u \in ready, Suffered(u, lapse'), passed', bound)
      BY SoundStays, SufferedStays DEF Soundness, Recorded
    <3>3. QED
      BY <3>1, <3>2
  <2>3. QED
    BY <2>1, <2>2
<1>4. Soundness'
  BY <1>3 DEF Soundness
<1>5. QED
  BY <1>2, <1>4

\* A stage of the chain of t: the queue stays, the task waits for its merge or does not.
LEMMA StageStep ==
  ASSUME PipelineInv, Recorded, NEW t \in Tasks, NEW c, NEW h, NEW x, NEW m,
         Sound(t, c, h, x, m, t \in ready', Suffered(t, lapse'), passed', bound),
         task' = [task EXCEPT ![t] = c], git' = [git EXCEPT ![t] = h],
         pc' = [pc EXCEPT ![t] = x], round' = [round EXCEPT ![t] = m], bound' = bound,
         ready' = ready \/ (ready' = ready \cup {t} /\ x = "idle"),
         pc[t] # "idle", sweep' = sweep, todo' = todo, sweeps' = sweeps, queue' = queue,
         t \in queue => Kept(c, h, x, t \in ready', t \in failed', sweep),
         failed \subseteq failed', failed' \subseteq Tasks, faults' \in 0..MaxFaults, stash' \in Seq(Content),
         passed' \subseteq Content, lapse' \subseteq Lapses \X Tasks, ProbesAlone'
  PROVE  PipelineInv'
<1> USE DEF PipelineInv
<1>1. ready' \subseteq ready \cup {t} /\ ready \ {t} \subseteq ready'
  OBVIOUS
<1>2. /\ Soundness'
      /\ task' \in [Tasks -> Task] /\ git' \in [Tasks -> Repository]
      /\ pc' \in [Tasks -> Stages] /\ round' \in [Tasks -> 0..MaxRounds]
  BY <1>1, OneTask
<1>3. TypeOK'
  BY <1>1, <1>2 DEF TypeOK, Lapses
<1>4. Scheduled'
  <2> SUFFICES ASSUME NEW u \in Tasks
               PROVE  /\ pc'[u] # "idle" => u \notin todo' \cup ready'
                      /\ u \notin todo' \cap ready'
                      /\ pc'[u] # "idle" \/ u \in todo' \cup ready' => sweep' # "off"
                      /\ u \in queue' /\ sweep' # "off" =>
                            IF pc'[u] # "idle" \/ u \in todo' \cup ready'
                            THEN Due(task'[u], pc'[u], u \in ready')
                            ELSE Settled(task'[u], git'[u], u \in failed', sweep')
    BY DEF Scheduled
  <2>1. CASE u # t
    <3>1. /\ task'[u] = task[u] /\ git'[u] = git[u] /\ pc'[u] = pc[u] /\ (u \in ready' <=> u \in ready)
          /\ u \in failed => u \in failed'
      BY <2>1 DEF TypeOK
    <3>2. Settled(task[u], git[u], u \in failed, sweep) => Settled(task[u], git[u], u \in failed', sweep)
      BY <3>1 DEF Settled
    <3>3. QED
      BY <3>1, <3>2 DEF Scheduled
  <2>2. CASE u = t
    <3>1. task'[t] = c /\ git'[t] = h /\ pc'[t] = x
      BY DEF TypeOK
    <3>2. t \notin todo \cup ready /\ sweep # "off"
      BY DEF Scheduled
    <3>3. QED
      BY <2>2, <3>1, <3>2 DEF Kept
  <2>3. QED
    BY <2>1, <2>2
<1>5. QED
  BY <1>2, <1>3, <1>4

LEMMA ProbesStayAlone ==
  ASSUME TypeOK, ProbesAlone, Recorded, NEW t \in Tasks, NEW x, x # "probe",
         pc' = [pc EXCEPT ![t] = x], stash' = stash \/ pc[t] = "probe"
  PROVE  ProbesAlone'
<1> SUFFICES ASSUME NEW u \in Tasks, pc'[u] = "probe", <<"probe", u>> \notin lapse'
             PROVE  /\ \A w \in Tasks \ {u} : pc'[w] # "probe"
                    /\ stash' # <<>> /\ Head(stash').of = u
  BY DEF ProbesAlone
<1>1. u # t /\ pc[u] = "probe" /\ <<"probe", u>> \notin lapse
  BY DEF TypeOK, Recorded
<1>2. pc[t] # "probe" /\ stash' = stash
  BY <1>1 DEF ProbesAlone
<1>3. \A w \in Tasks \ {u} : pc'[w] # "probe"
  BY <1>1 DEF ProbesAlone, TypeOK
<1>4. QED
  BY <1>1, <1>2, <1>3 DEF ProbesAlone

\* A stage that leaves the stash, the faults and what was passed alone.
LEMMA QuietStep ==
  ASSUME PipelineInv, NEW t \in Tasks, NEW c, NEW h, NEW x, NEW m, x # "probe",
         Sound(t, c, h, x, m, t \in ready', Suffered(t, lapse), passed, bound),
         task' = [task EXCEPT ![t] = c], git' = [git EXCEPT ![t] = h],
         pc' = [pc EXCEPT ![t] = x], round' = [round EXCEPT ![t] = m], bound' = bound,
         ready' = ready \/ (ready' = ready \cup {t} /\ x = "idle"),
         pc[t] # "idle", sweep' = sweep, todo' = todo, sweeps' = sweeps, queue' = queue,
         t \in queue => Kept(c, h, x, t \in ready', t \in failed', sweep),
         failed \subseteq failed', failed' \subseteq Tasks, stash' = stash,
         faults' = faults, lapse' = lapse, passed' = passed
  PROVE  PipelineInv'
<1>1. Recorded /\ passed = passed' /\ lapse = lapse'
  BY DEF Recorded
<1>2. ProbesAlone'
  BY <1>1, ProbesStayAlone DEF PipelineInv
<1>3. /\ faults' \in 0..MaxFaults /\ stash' \in Seq(Content) /\ passed' \subseteq Content
      /\ lapse' \subseteq Lapses \X Tasks
  BY DEF PipelineInv, TypeOK, Lapses
<1>4. QED
  BY <1>1, <1>2, <1>3, StageStep

\* What is known of a task in a chain.
LEMMA InChain ==
  ASSUME PipelineInv, NEW t \in Tasks, pc[t] # "idle"
  PROVE  /\ Sound(t, task[t], git[t], pc[t], round[t], t \in ready, Suffered(t, lapse), passed, bound)
         /\ task[t] \in Task /\ git[t] \in Repository
         /\ t \notin ready
         /\ task = [task EXCEPT ![t] = task[t]] /\ git = [git EXCEPT ![t] = git[t]]
         /\ round = [round EXCEPT ![t] = round[t]]
         /\ round[t] \in 0..MaxRounds /\ pc \in [Tasks -> Stages] /\ bound \in Bindings
<1>1. t \notin ready
  BY DEF PipelineInv, Scheduled
<1>2. Sound(t, task[t], git[t], pc[t], round[t], t \in ready, Suffered(t, lapse), passed, bound)
  BY <1>1 DEF PipelineInv, Soundness
<1>3. QED
  BY <1>1, <1>2 DEF PipelineInv, TypeOK

\* ... and of one no human has moved.
LEMMA Awaited ==
  ASSUME PipelineInv, NEW t \in Tasks, pc[t] # "idle", t \in queue
  PROVE  task[t].state \in Waiting /\ (pc[t] \in Finishing => task[t].stage # "cleaned")
BY DEF PipelineInv, Scheduled, Due

\* A stage that fails.
LEMMA FailStep ==
  ASSUME PipelineInv, Recorded, NEW t \in Tasks, pc[t] \notin {"idle", "teardown", "merged"},
         NEW r, NEW g, NEW needs \in {"review", "human-input"}, Fail(t, r, needs),
         Sound(t, r, g, pc[t], round[t], t \in ready, Suffered(t, lapse'), passed, bound),
         t \in queue => r.state \in Waiting, git' = [git EXCEPT ![t] = g], stash' = stash \/ pc[t] = "probe",
         stash' \in Seq(Content), faults' \in 0..MaxFaults, passed' = passed,
         lapse' \subseteq Lapses \X Tasks
  PROVE  PipelineInv'
<1> DEFINE c == IF r.state = "done" THEN r ELSE Blocked(r, needs)
<1>1. t \notin ready
  BY InChain
<1>2. ready' = ready /\ bound' = bound
  BY DEF Fail, Put
<1>3. /\ Sound(t, c, g, "idle", 0, t \in ready', Suffered(t, lapse'), passed, bound)
      /\ r.state # "done" => c.state = "blocked"
  BY <1>2, ChainBlocks
<1>4. Sound(t, c, g, "idle", 0, t \in ready', Suffered(t, lapse'), passed', bound)
  BY <1>3
<1>5. t \in queue => c.state = "blocked"
  BY <1>3 DEF Waiting
<1>6. task' = [task EXCEPT ![t] = c]
  BY DEF Fail, Put
<1> HIDE DEF c
<1>7. /\ pc' = [pc EXCEPT ![t] = "idle"] /\ round' = [round EXCEPT ![t] = 0]
      /\ sweep' = sweep /\ todo' = todo /\ sweeps' = sweeps /\ queue' = queue
      /\ failed' = failed \cup {t}
  BY DEF Fail, Leave, Goto
<1>8. failed' \subseteq Tasks /\ passed' \subseteq Content /\ failed \subseteq failed' /\ t \in failed'
  BY <1>7 DEF PipelineInv, TypeOK
<1>9. ProbesAlone'
  BY <1>7, ProbesStayAlone DEF PipelineInv
<1>10. t \in queue => Kept(c, g, "idle", t \in ready', t \in failed', sweep)
  BY <1>1, <1>2, <1>5, <1>8 DEF Kept, Settled
<1>11. QED
  BY <1>1, <1>2, <1>4, <1>6, <1>7, <1>8, <1>9, <1>10, StageStep

\* ... and leaves everything else as it was.
LEMMA QuietFail ==
  ASSUME PipelineInv, NEW t \in Tasks, pc[t] \notin {"idle", "teardown", "merged"},
         NEW g, Sound(t, task[t], g, pc[t], round[t], t \in ready, Suffered(t, lapse), passed, bound),
         git' = [git EXCEPT ![t] = g], StageFailed(t), UNCHANGED <<stash, history>>
  PROVE  PipelineInv'
<1>1. PICK needs \in {"review", "human-input"} : Fail(t, task[t], needs)
  BY DEF StageFailed
<1>2. /\ faults' \in 0..MaxFaults /\ stash' \in Seq(Content) /\ lapse' \subseteq Lapses \X Tasks
      /\ lapse' = lapse /\ passed' = passed /\ stash' = stash
  BY DEF PipelineInv, TypeOK, Lapses, history
<1>3. Recorded
  BY <1>2 DEF Recorded
<1>4. t \in queue => task[t].state \in Waiting
  BY Awaited
<1>5. QED
  BY <1>1, <1>2, <1>3, <1>4, FailStep

\* A stage that acts on the repository, and may write the record.
LEMMA GitStep ==
  ASSUME PipelineInv, NEW t \in Tasks, pc[t] # "idle", NEW c, NEW h, NEW x, x # "probe",
         task' = [task EXCEPT ![t] = c], git' = [git EXCEPT ![t] = h], Goto(t, x),
         Sound(t, c, h, x, round[t], t \in ready', Suffered(t, lapse), passed, bound),
         t \in queue => c.state \in Waiting,
         x \in {"idle", "merge", "teardown", "merged"} /\ t \in queue => c.stage # "cleaned",
         (x # "idle" /\ ready' = ready) \/ (x = "idle" /\ ready' = ready \cup {t}),
         UNCHANGED <<bound, stash, round, sweep, todo, failed, sweeps, queue, history>>
  PROVE  PipelineInv'
<1>1. /\ UNCHANGED <<bound, stash, round, sweep, todo, sweeps, queue, passed, lapse, faults>>
      /\ pc' = [pc EXCEPT ![t] = x] /\ failed' \subseteq Tasks
  BY DEF history, Goto, PipelineInv, TypeOK
<1>2. t \in queue => Kept(c, h, x, t \in ready', t \in failed', sweep)
  BY InChain DEF Kept, Due, Finishing
<1>3. /\ failed \subseteq failed' /\ round' = [round EXCEPT ![t] = round[t]] /\ queue' = queue
      /\ ready' = ready \/ (ready' = ready \cup {t} /\ x = "idle")
  BY <1>1, InChain
<1>4. QED
  BY <1>1, <1>2, <1>3, QuietStep

\* A stage that only hands on.
LEMMA MoveStep ==
  ASSUME PipelineInv, NEW t \in Tasks, pc[t] # "idle", NEW x, x # "probe", Goto(t, x),
         Sound(t, task[t], git[t], x, round[t], t \in ready', Suffered(t, lapse), passed, bound),
         x \in {"idle", "merge", "teardown", "merged"} /\ t \in queue => task[t].stage # "cleaned",
         (x # "idle" /\ ready' = ready) \/ (x = "idle" /\ ready' = ready \cup {t}),
         UNCHANGED <<spine, repo, round, sweep, todo, failed, sweeps, queue, history>>
  PROVE  PipelineInv'
<1>1. task' = [task EXCEPT ![t] = task[t]] /\ git' = [git EXCEPT ![t] = git[t]]
  BY InChain DEF spine, repo
<1>2. UNCHANGED <<bound, stash, round, sweep, todo, failed, sweeps, queue, history>>
  BY DEF spine, repo
<1>3. t \in queue => task[t].state \in Waiting
  BY Awaited
<1>4. QED
  BY <1>1, <1>2, <1>3, GitStep

\* A stage that writes the record.
LEMMA WriteStep ==
  ASSUME PipelineInv, NEW t \in Tasks, pc[t] # "idle", NEW c, NEW x, x # "probe", Put(t, c),
         Goto(t, x),
         Sound(t, c, git[t], x, round[t], t \in ready', Suffered(t, lapse), passed, bound),
         t \in queue => c.state \in Waiting,
         x \in {"idle", "merge", "teardown", "merged"} /\ t \in queue => c.stage # "cleaned",
         (x # "idle" /\ ready' = ready) \/ (x = "idle" /\ ready' = ready \cup {t}),
         UNCHANGED <<repo, round, sweep, todo, failed, sweeps, queue, history>>
  PROVE  PipelineInv'
<1>1. task' = [task EXCEPT ![t] = c] /\ git' = [git EXCEPT ![t] = git[t]]
  BY InChain DEF Put, repo
<1>2. UNCHANGED <<bound, stash, round, sweep, todo, failed, sweeps, queue, history>>
  BY DEF Put, repo
<1>3. QED
  BY <1>1, <1>2, GitStep

-----------------------------------------------------------------------------
(* The stages, command by command.                                         *)

\* chalk branch
LEMMA BranchSteps ==
  ASSUME PipelineInv, NEW t \in Tasks, BranchAlready(t) \/ Branch(t) \/ BranchSetupFailed(t)
  PROVE  PipelineInv'
<1>1. pc[t] = "branch"
  BY DEF BranchAlready, Branch, BranchSetupFailed, BranchNeeded
<1> DEFINE h == WorktreeAdd(git[t])
<1>2. /\ Sound(t, task[t], h, "branch", round[t], t \in ready, Suffered(t, lapse), passed, bound)
      /\ h.dir
  BY <1>1, InChain, WorktreeAdds
<1> HIDE DEF h
<1>3. CASE BranchAlready(t)
  <2>1. /\ task[t].worktree /\ git[t].dir /\ Goto(t, "plan") /\ ready' = ready
        /\ UNCHANGED <<spine, repo, round, sweep, todo, failed, sweeps, queue, history>>
    BY <1>3 DEF BranchAlready, driver
  <2>2. Sound(t, task[t], git[t], "plan", round[t], t \in ready', Suffered(t, lapse), passed, bound)
    BY <1>1, <2>1, InChain, ChainMoves
  <2>3. QED
    BY <1>1, <2>1, <2>2, MoveStep
<1>4. CASE Branch(t)
  <2> DEFINE c == [task[t] EXCEPT !.worktree = TRUE, !.stage = "branched"]
  <2>1. /\ c \in Task /\ c.stage = "branched" /\ c.worktree /\ c.state = task[t].state
        /\ c.pr = task[t].pr /\ c.verdict = task[t].verdict /\ (t \in queue => c.state \in Waiting)
    BY InChain, Awaited, <1>1 DEF Task, Rank
  <2>2. /\ task' = [task EXCEPT ![t] = c] /\ git' = [git EXCEPT ![t] = h] /\ Goto(t, "plan")
        /\ ready' = ready /\ UNCHANGED <<bound, stash, round, sweep, todo, failed, sweeps, queue, history>>
    BY <1>4 DEF Branch, Put, driver, h
  <2> HIDE DEF c
  <2>3. Sound(t, c, h, "plan", round[t], t \in ready', Suffered(t, lapse), passed, bound)
    BY <1>2, <2>1, <2>2, Advances
  <2>4. QED
    BY <1>1, <2>1, <2>2, <2>3, GitStep
<1>5. CASE BranchSetupFailed(t)
  <2>1. git' = [git EXCEPT ![t] = h] /\ StageFailed(t) /\ UNCHANGED <<stash, history>>
    BY <1>5 DEF BranchSetupFailed, h
  <2>2. QED
    BY <1>1, <1>2, <2>1, QuietFail
<1>6. QED
  BY <1>3, <1>4, <1>5

\* chalk plan
LEMMA PlanSteps ==
  ASSUME PipelineInv, NEW t \in Tasks, PlanAlready(t) \/ Plan(t) \/ NoPlan(t)
  PROVE  PipelineInv'
<1>1. pc[t] = "plan"
  BY DEF PlanAlready, Plan, NoPlan
<1>2. CASE PlanAlready(t)
  <2>1. /\ Goto(t, "work") /\ ready' = ready
        /\ UNCHANGED <<spine, repo, round, sweep, todo, failed, sweeps, queue, history>>
    BY <1>2 DEF PlanAlready, driver
  <2>2. Sound(t, task[t], git[t], "work", round[t], t \in ready', Suffered(t, lapse), passed, bound)
    BY <1>1, <2>1, InChain, ChainMoves
  <2>3. QED
    BY <1>1, <2>1, <2>2, MoveStep
<1>3. CASE Plan(t)
  <2> DEFINE c == [task[t] EXCEPT !.plan = TRUE, !.stage = "planned"]
  <2>1. /\ c \in Task /\ c.stage = "planned" /\ c.worktree = task[t].worktree
        /\ c.state = task[t].state /\ c.pr = task[t].pr /\ c.verdict = task[t].verdict
        /\ (t \in queue => c.state \in Waiting)
    BY InChain, Awaited, <1>1 DEF Task, Rank
  <2>2. /\ Put(t, c) /\ Goto(t, "work") /\ ready' = ready
        /\ UNCHANGED <<repo, round, sweep, todo, failed, sweeps, queue, history>>
    BY <1>3 DEF Plan, driver
  <2> HIDE DEF c
  <2>3. c.worktree = (task[t].worktree \/ pc[t] = "branch")
    BY <1>1, <2>1, InChain DEF Task
  <2>4. Sound(t, c, git[t], "work", round[t], t \in ready', Suffered(t, lapse), passed, bound)
    BY <1>1, <2>1, <2>2, <2>3, InChain, Advances
  <2>5. QED
    BY <1>1, <2>1, <2>2, <2>4, WriteStep
<1>4. CASE NoPlan(t)
  <2>1. git' = git /\ StageFailed(t) /\ UNCHANGED <<stash, history>>
    BY <1>4 DEF NoPlan, repo
  <2>2. QED
    BY <1>1, <2>1, InChain, QuietFail
<1>5. QED
  BY <1>2, <1>3, <1>4

\* chalk work, up to its gates
LEMMA WorkSteps ==
  ASSUME PipelineInv, NEW t \in Tasks,
         \/ WorkAlready(t) \/ WorkRefused(t) \/ WorkBegin(t) \/ Executor(t)
         \/ WorkRed(t) \/ WorkGreen(t)
  PROVE  PipelineInv'
<1>0. pc[t] \in {"work", "executor", "verify"}
  BY DEF WorkAlready, WorkRefused, WorkBegin, Executor, WorkRed, WorkGreen
<1>1. CASE WorkAlready(t)
  <2>1. /\ pc[t] = "work" /\ Goto(t, "commit") /\ ready' = ready /\ StageDone(t, "verified")
        /\ UNCHANGED <<spine, repo, round, sweep, todo, failed, sweeps, queue, history>>
    BY <1>1 DEF WorkAlready, driver
  <2>2. task[t].stage \in FromVerified
    BY <1>0, <2>1, InChain, StagesInOrder
  <2>3. Sound(t, task[t], git[t], "commit", round[t], t \in ready', Suffered(t, lapse), passed, bound)
    BY <2>1, <2>2, InChain, ChainMoves
  <2>4. QED
    BY <2>1, <2>3, MoveStep
<1>2. CASE WorkRefused(t) \/ WorkRed(t)
  <2>1. git' = git /\ StageFailed(t) /\ UNCHANGED <<stash, history>>
    BY <1>2 DEF WorkRefused, WorkRed, repo
  <2>2. QED
    BY <1>0, <2>1, InChain, QuietFail
<1>3. CASE WorkBegin(t)
  <2> DEFINE c == [task[t] EXCEPT !.state = "in-progress"]
  <2>1. /\ c \in Task /\ c.stage = task[t].stage /\ c.worktree = task[t].worktree
        /\ c.state = "in-progress" /\ c.pr = task[t].pr /\ c.verdict = task[t].verdict
    BY InChain, <1>0 DEF Task
  <2>2. /\ Put(t, c) /\ Goto(t, "executor") /\ ready' = ready /\ pc[t] = "work"
        /\ ~StageDone(t, "verified") /\ Workable(t)
        /\ UNCHANGED <<repo, round, sweep, todo, failed, sweeps, queue, history>>
    BY <1>3 DEF WorkBegin, driver
  <2> HIDE DEF c
  <2>3. task[t].state # "done" /\ c.state \in Waiting /\ c.stage \notin FromVerified
    BY <1>0, <2>1, <2>2, InChain, StagesInOrder DEF Waiting, Workable
  <2>4. Sound(t, c, git[t], "work", round[t], t \in ready, Suffered(t, lapse), passed, bound)
    BY <2>1, <2>2, <2>3, InChain, StateChanges
  <2>5. Sound(t, c, git[t], "executor", round[t], t \in ready', Suffered(t, lapse), passed, bound)
    BY <2>2, <2>3, <2>4, WorkBegins
  <2>6. QED
    BY <2>2, <2>3, <2>5, WriteStep
<1>4. CASE Executor(t)
  <2>1. /\ pc[t] = "executor" /\ Goto(t, "verify") /\ ready' = ready
        /\ UNCHANGED <<spine, stash, round, sweep, todo, failed, sweeps, queue, history>>
    BY <1>4 DEF Executor, driver
  <2>2. PICK h : /\ git' = [git EXCEPT ![t] = h]
                 /\ h = git[t] \/ (h = Edited(git[t], t) /\ git[t].edits < MaxRev)
    <3>1. CASE git' = git
      BY <3>1, <1>0, InChain
    <3>2. CASE git[t].edits < MaxRev /\ git' = [git EXCEPT ![t] = Edited(@, t)]
      BY <3>2
    <3>3. QED
      BY <3>1, <3>2, <1>4 DEF Executor
  <2>3. Sound(t, task[t], h, "verify", round[t], t \in ready', Suffered(t, lapse), passed, bound)
    BY <2>1, <2>2, InChain, ExecutorRuns
  <2>4. task' = [task EXCEPT ![t] = task[t]] /\ bound' = bound /\ (t \in queue => task[t].state \in Waiting)
    BY <1>0, <2>1, InChain, Awaited DEF spine
  <2>5. QED
    BY <2>1, <2>2, <2>3, <2>4, GitStep
<1>5. CASE WorkGreen(t)
  <2> DEFINE c == [task[t] EXCEPT !.stage = "verified"]
  <2>1. /\ c \in Task /\ c.stage = "verified" /\ c.worktree = task[t].worktree
        /\ c.state = task[t].state /\ c.pr = task[t].pr /\ c.verdict = task[t].verdict
        /\ (t \in queue => c.state \in Waiting)
    BY InChain, Awaited, <1>0 DEF Task, Rank
  <2>2. /\ Put(t, c) /\ Goto(t, "commit") /\ ready' = ready /\ pc[t] = "verify"
        /\ UNCHANGED <<repo, round, sweep, todo, failed, sweeps, queue, history>>
    BY <1>5 DEF WorkGreen, driver
  <2> HIDE DEF c
  <2>3. c.worktree = (task[t].worktree \/ pc[t] = "branch")
    BY <2>1, <2>2, InChain DEF Task
  <2>4. Sound(t, c, git[t], "commit", round[t], t \in ready', Suffered(t, lapse), passed, bound)
    BY <2>1, <2>2, <2>3, InChain, Advances
  <2>5. QED
    BY <2>1, <2>2, <2>4, WriteStep
<1>6. QED
  BY <1>1, <1>2, <1>3, <1>4, <1>5

\* The stash pop after the probe gives the task its own change back, or the probe was
\* not alone.
LEMMA Unstashes ==
  ASSUME PipelineInv, NEW t \in Tasks, pc[t] = "probe", Unstash(t)
  PROVE  /\ stash' \in Seq(Content)
         /\ \E h : /\ git' = [git EXCEPT ![t] = h]
                   /\ Sound(t, task[t], h, "probe", round[t], t \in ready,
                            Suffered(t, lapse), passed, bound)
<1>1. Sound(t, task[t], git[t], "probe", round[t], t \in ready, Suffered(t, lapse), passed, bound)
  BY InChain
<1>2. stash \in Seq(Content)
  BY DEF PipelineInv, TypeOK
<1>3. CASE stash # <<>> /\ git' = [git EXCEPT ![t].files = Head(stash)] /\ stash' = Tail(stash)
  <2> DEFINE f == Head(stash)
             h == [git[t] EXCEPT !.files = f]
  <2>1. f \in Content /\ Tail(stash) \in Seq(Content)
    BY <1>2, <1>3, HeadTailProperties
  <2>2. f.of = t \/ "probe" \in Suffered(t, lapse)
    BY DEF PipelineInv, ProbesAlone, Suffered, Lapses
  <2>3. git' = [git EXCEPT ![t] = h]
    BY <1>3
  <2> HIDE DEF f
  <2>4. Sound(t, task[t], h, "probe", round[t], t \in ready, Suffered(t, lapse), passed, bound)
    BY <1>1, <2>1, <2>2, Probing
  <2>5. QED
    BY <1>3, <2>1, <2>3, <2>4
<1>4. CASE git' = git /\ stash' = stash
  BY <1>1, <1>2, <1>4, InChain
<1>5. QED
  BY <1>3, <1>4 DEF Unstash, repo

\* The probe begins: unless another one is in progress, what it puts on top of the stash
\* is the task's own.
LEMMA ProbeStep ==
  ASSUME PipelineInv, NEW t \in Tasks, Probe(t)
  PROVE  PipelineInv'
<1> DEFINE g == git[t]
           f == HeadOf(g)
           h == [g EXCEPT !.files = f]
           k == Suffered(t, lapse)
           P == IF \E v \in Tasks : pc[v] = "probe"
                THEN {t} \cup {v \in Tasks : pc[v] = "probe"} ELSE {}
<1>1. /\ pc[t] = "verify" /\ stash' = <<g.files>> \o stash /\ pc' = [pc EXCEPT ![t] = "probe"]
      /\ lapse' = lapse \cup {<<"probe", u>> : u \in P}
      /\ UNCHANGED <<bound, task, round, sweep, todo, ready, failed, sweeps, queue, passed, faults>>
  BY DEF Probe, Goto, spine, driver
<1>2. g.files # f
  <2>1. Dirty(t) \in BOOLEAN /\ "probe" \in GatesSay[Dirty(t)]
    BY DEF Probe, Dirty
  <2>2. GatesSay[FALSE] = WorkOutcomes(FALSE, BreakTest)
    BY DEF GatesSay
  <2>3. Dirty(t)
    BY <2>1, <2>2, ProbesAreOfChanges
  <2>4. QED
    BY <2>3 DEF Dirty
<1>3. g \in Repository /\ g.files \in Content /\ f \in Content /\ stash \in Seq(Content)
  BY <1>1, InChain, HeadTyped DEF PipelineInv, TypeOK, Repository
<1>4. stash' \in Seq(Content) /\ stash' # <<>> /\ Head(stash') = g.files
  BY <1>1, <1>3
<1>5. Sound(t, task[t], g, "verify", round[t], t \in ready, k, passed, bound)
  BY <1>1, InChain
<1>6. g.files.of = t \/ "probe" \in k
  BY <1>2, <1>5 DEF Sound, HasWorktree, Own, InWorktree, Stages
<1>7. Recorded
  BY <1>1 DEF Recorded
<1>8. ProbesAlone'
  <2> SUFFICES ASSUME NEW u \in Tasks, pc'[u] = "probe", <<"probe", u>> \notin lapse'
               PROVE  /\ \A w \in Tasks \ {u} : pc'[w] # "probe"
                      /\ stash' # <<>> /\ Head(stash').of = u
    BY DEF ProbesAlone
  <2>1. u \notin P /\ <<"probe", u>> \notin lapse
    BY <1>1
  <2>2. u = t
    BY <1>1, <2>1 DEF PipelineInv, TypeOK
  <2>3. \A w \in Tasks : pc[w] # "probe"
    BY <2>1, <2>2
  <2>4. g.files.of = t
    BY <1>6, <2>1, <2>2 DEF Suffered
  <2>5. QED
    BY <1>1, <1>4, <2>2, <2>3, <2>4 DEF PipelineInv, TypeOK
<1> HIDE DEF f, P
<1>9. Sound(t, task[t], h, "probe", round[t], t \in ready, k, passed, bound)
  BY <1>3, <1>5, Probing DEF f
<1>10. Sound(t, task[t], h, "probe", round[t], t \in ready', Suffered(t, lapse'), passed', bound)
  BY <1>1, <1>7, <1>9, SoundStays, SufferedStays DEF Recorded
<1>11. git' = [git EXCEPT ![t] = h]
  BY DEF Probe, f
<1>12. lapse' \subseteq Lapses \X Tasks
  BY <1>1 DEF PipelineInv, TypeOK, Lapses, P
<1>13. /\ failed' \subseteq Tasks /\ faults' \in 0..MaxFaults /\ passed' \subseteq Content
       /\ task' = [task EXCEPT ![t] = task[t]] /\ round' = [round EXCEPT ![t] = round[t]]
  BY <1>1, InChain DEF PipelineInv, TypeOK
<1>14. /\ t \in queue => Kept(task[t], h, "probe", t \in ready', t \in failed', sweep)
       /\ failed \subseteq failed' /\ ready' = ready /\ queue' = queue /\ "probe" # "idle"
  BY <1>1, InChain, Awaited DEF Kept, Due, Finishing
<1> HIDE DEF h
<1>15. QED
  BY <1>1, <1>4, <1>7, <1>8, <1>10, <1>11, <1>12, <1>13, <1>14, StageStep

LEMMA ProbeEnds ==
  ASSUME PipelineInv, NEW t \in Tasks, ProbeGreen(t) \/ ProbeRed(t)
  PROVE  PipelineInv'
<1>1. /\ pc[t] = "probe" /\ Unstash(t)
      /\ passed' = passed /\ lapse' = lapse /\ faults' = faults
  BY DEF ProbeGreen, ProbeRed, history
<1>2. PICK h : /\ git' = [git EXCEPT ![t] = h] /\ stash' \in Seq(Content)
               /\ Sound(t, task[t], h, "probe", round[t], t \in ready, Suffered(t, lapse), passed, bound)
  BY <1>1, Unstashes
<1>3. Recorded /\ faults' \in 0..MaxFaults /\ lapse' \subseteq Lapses \X Tasks
  BY <1>1 DEF Recorded, PipelineInv, TypeOK, Lapses
<1>4. CASE ProbeRed(t)
  <2>1. PICK needs \in {"review", "human-input"} : Fail(t, task[t], needs)
    BY <1>4 DEF ProbeRed, StageFailed
  <2>2. (t \in queue => task[t].state \in Waiting)
    BY <1>1, InChain, Awaited
  <2>3. QED
    BY <1>1, <1>2, <1>3, <2>1, <2>2, FailStep
<1>5. CASE ProbeGreen(t)
  <2> DEFINE c == [task[t] EXCEPT !.stage = "verified"]
  <2>1. /\ c \in Task /\ c.stage = "verified" /\ c.worktree = task[t].worktree
        /\ c.state = task[t].state /\ c.pr = task[t].pr /\ c.verdict = task[t].verdict
        /\ (t \in queue => c.state \in Waiting)
    BY InChain, Awaited, <1>1 DEF Task, Rank, Waiting
  <2>2. /\ task' = [task EXCEPT ![t] = c] /\ pc' = [pc EXCEPT ![t] = "commit"]
        /\ UNCHANGED <<bound, round, sweep, todo, ready, failed, sweeps, queue>>
    BY <1>5 DEF ProbeGreen, Put, Goto, driver
  <2> HIDE DEF c
  <2>3. c.worktree = (task[t].worktree \/ pc[t] = "branch")
    BY <1>1, <2>1, InChain DEF Task
  <2>4. Sound(t, c, h, "commit", round[t], t \in ready', Suffered(t, lapse'), passed', bound)
    BY <1>1, <1>2, <2>1, <2>2, <2>3, Advances
  <2>5. /\ failed' \subseteq Tasks /\ passed' \subseteq Content
        /\ round' = [round EXCEPT ![t] = round[t]]
    BY <1>1, <2>2, InChain DEF PipelineInv, TypeOK
  <2>6. ProbesAlone'
    BY <1>1, <1>3, <2>2, ProbesStayAlone DEF PipelineInv
  <2>7. t \in queue => Kept(c, h, "commit", t \in ready', t \in failed', sweep)
    BY <1>1, <2>1, <2>2, InChain DEF Kept, Due, Finishing
  <2>8. QED
    BY <1>1, <1>2, <1>3, <2>1, <2>2, <2>4, <2>5, <2>6, <2>7, StageStep
<1>6. QED
  BY <1>4, <1>5

\* A fault is counted.
LEMMA FaultsStay ==
  ASSUME PipelineInv, NEW t \in Tasks, NEW kind \in Lapses, Suffers(kind),
         lapse' = lapse \cup {<<kind, t>>}
  PROVE  /\ faults' \in 0..MaxFaults /\ lapse \subseteq lapse' /\ lapse' \subseteq Lapses \X Tasks
         /\ Suffered(t, lapse') = Suffered(t, lapse) \cup {kind}
<1>1. faults \in 0..MaxFaults /\ lapse \subseteq Lapses \X Tasks
  BY DEF PipelineInv, TypeOK, Lapses
<1>2. faults' \in 0..MaxFaults
  BY <1>1, PipelineAssumption DEF Suffers
<1>3. Suffered(t, lapse') = Suffered(t, lapse) \cup {kind}
  BY DEF Suffered
<1>4. lapse \subseteq lapse' /\ lapse' \subseteq Lapses \X Tasks
  BY <1>1
<1>5. QED
  BY <1>2, <1>3, <1>4

\* A stage that loses something and goes on.
LEMMA LossStep ==
  ASSUME PipelineInv, NEW t \in Tasks, pc[t] # "idle", NEW c, NEW x \in {"push", "review"},
         task' = [task EXCEPT ![t] = c], git' = git, Goto(t, x),
         t \in queue => c.state \in Waiting,
         Sound(t, c, git[t], x, round[t], t \in ready, Suffered(t, lapse'), passed, bound),
         UNCHANGED <<bound, stash, round, sweep, todo, ready, failed, sweeps, queue, passed>>,
         faults' \in 0..MaxFaults, lapse \subseteq lapse', lapse' \subseteq Lapses \X Tasks
  PROVE  PipelineInv'
<1>1. Recorded /\ pc' = [pc EXCEPT ![t] = x] /\ x # "probe" /\ x # "idle"
  BY DEF Recorded, Goto
<1>2. ProbesAlone'
  BY <1>1, ProbesStayAlone DEF PipelineInv
<1>3. /\ git' = [git EXCEPT ![t] = git[t]] /\ round' = [round EXCEPT ![t] = round[t]]
      /\ failed' \subseteq Tasks /\ stash' \in Seq(Content) /\ passed' \subseteq Content
      /\ failed \subseteq failed'
  BY InChain DEF PipelineInv, TypeOK
<1>4. t \in queue => Kept(c, git[t], x, t \in ready', t \in failed', sweep)
  BY InChain DEF Kept, Due, Finishing
<1>5. Sound(t, c, git[t], x, round[t], t \in ready', Suffered(t, lapse'), passed', bound)
  OBVIOUS
<1>6. QED
  BY <1>1, <1>2, <1>3, <1>4, <1>5, StageStep

\* chalk commit, and the push of a fix
LEMMA CommitSteps ==
  ASSUME PipelineInv, NEW t \in Tasks,
         CommitNothing(t) \/ CommitDies(t) \/ CommitFailed(t) \/ Commit(t) \/ CommitRecord(t)
  PROVE  PipelineInv'
<1>0. pc[t] \in {"commit", "committed"}
  BY DEF CommitNothing, CommitDies, CommitFailed, Commit, CommitRecord
<1>1. CASE CommitNothing(t)
  <2> DEFINE x == IF round[t] > 0 THEN "push" ELSE "pr"
  <2>1. /\ pc[t] = "commit" /\ git[t].files = HeadOf(git[t])
        /\ StageDone(t, "committed") \/ round[t] > 0
        /\ Goto(t, x) /\ ready' = ready
        /\ UNCHANGED <<spine, repo, round, sweep, todo, failed, sweeps, queue, history>>
    BY <1>1 DEF CommitNothing, driver, Dirty, AfterCommit
  <2>2. StageDone(t, "committed") <=> task[t].stage \in FromCommitted
    BY <1>0, InChain, StagesInOrder
  <2>3. Sound(t, task[t], git[t], x, round[t], t \in ready', Suffered(t, lapse), passed, bound)
    <3>1. CASE round[t] > 0
      BY <2>1, <3>1, InChain, ChainMoves
    <3>2. CASE ~(round[t] > 0)
      <4>1. round[t] = 0
        BY <3>2, <1>0, InChain, PipelineAssumption
      <4>2. QED
        BY <2>1, <2>2, <4>1, InChain, ChainMoves
    <3>3. QED
      BY <3>1, <3>2
  <2>4. QED
    BY <2>1, <2>3, MoveStep
<1>2. CASE CommitDies(t)
  <2>1. git' = git /\ StageFailed(t) /\ UNCHANGED <<stash, history>>
    BY <1>2 DEF CommitDies, repo
  <2>2. QED
    BY <1>0, <2>1, InChain, QuietFail
<1>3. CASE Commit(t)
  <2> DEFINE h == [git[t] EXCEPT !.local = Append(@, git[t].files)]
  <2>1. /\ pc[t] = "commit" /\ git[t].files # HeadOf(git[t]) /\ Goto(t, "committed")
        /\ ready' = ready /\ git' = [git EXCEPT ![t] = h]
        /\ UNCHANGED <<spine, stash, round, sweep, todo, failed, sweeps, queue, history>>
    BY <1>3 DEF Commit, driver, Dirty
  <2>2. Sound(t, task[t], h, "committed", round[t], t \in ready', Suffered(t, lapse), passed, bound)
    BY <2>1, InChain, Committing
  <2>3. task' = [task EXCEPT ![t] = task[t]] /\ bound' = bound /\ (t \in queue => task[t].state \in Waiting)
    BY <1>0, <2>1, InChain, Awaited DEF spine
  <2> HIDE DEF h
  <2>4. QED
    BY <2>1, <2>2, <2>3, GitStep
<1>4. CASE CommitRecord(t)
  <2> DEFINE y == IF task[t].stage \in FromCommitted THEN task[t].stage ELSE "committed"
             c == [task[t] EXCEPT !.stage = y]
             x == IF round[t] > 0 THEN "push" ELSE "pr"
  <2>1. StageDone(t, "committed") <=> task[t].stage \in FromCommitted
    BY <1>0, InChain, StagesInOrder
  <2>2. /\ pc[t] = "committed" /\ Put(t, c) /\ Goto(t, x) /\ ready' = ready
        /\ UNCHANGED <<repo, round, sweep, todo, failed, sweeps, queue, history>>
    BY <1>4, <2>1 DEF CommitRecord, AfterCommit, driver
  <2>3. y \in DOMAIN Rank
    BY InChain, <1>0 DEF Task, Rank
  <2>4. /\ c \in Task /\ c.stage = y /\ c.worktree = task[t].worktree
        /\ c.state = task[t].state /\ c.pr = task[t].pr /\ c.verdict = task[t].verdict
        /\ (t \in queue => c.state \in Waiting)
    BY InChain, Awaited, <1>0, <2>3 DEF Task
  <2> HIDE DEF c
  <2>5. Sound(t, c, git[t], x, round[t], t \in ready', Suffered(t, lapse), passed, bound)
    BY <2>2, <2>4, InChain, CommitRecorded
  <2>6. x \notin {"probe", "idle", "merge", "teardown", "merged"}
    OBVIOUS
  <2> HIDE DEF x, y
  <2>7. QED
    BY <2>2, <2>4, <2>5, <2>6, WriteStep
<1>5. CASE CommitFailed(t)
  <2>1. pc[t] = "commit" /\ UNCHANGED <<git, stash, passed>>
    BY <1>5 DEF CommitFailed, repo
  <2>2. CASE round[t] = 0
    <3>1. StageFailed(t) /\ UNCHANGED <<stash, history>>
      BY <1>5, <2>2, <2>1 DEF CommitFailed, history
    <3>2. QED
      BY <1>0, <2>1, <3>1, InChain, QuietFail
  <2>3. CASE round[t] # 0
    <3>1. /\ Suffers("commit") /\ lapse' = lapse \cup {<<"commit", t>>} /\ AfterCommit(t)
          /\ UNCHANGED <<spine, round, driver>>
      BY <1>5, <2>3 DEF CommitFailed
    <3>2. round[t] > 0
      BY <1>0, <2>3, InChain, PipelineAssumption
    <3>3. Goto(t, "push")
      BY <3>1, <3>2 DEF AfterCommit
    <3>4. /\ faults' \in 0..MaxFaults /\ lapse \subseteq lapse' /\ lapse' \subseteq Lapses \X Tasks
          /\ Suffered(t, lapse') = Suffered(t, lapse) \cup {"commit"}
      BY <3>1, FaultsStay DEF Lapses
    <3>5. Sound(t, task[t], git[t], "push", round[t], t \in ready, Suffered(t, lapse'), passed, bound)
      BY <1>0, <2>1, <3>2, <3>4, InChain, CommitLost
    <3>6. /\ task' = [task EXCEPT ![t] = task[t]] /\ (t \in queue => task[t].state \in Waiting)
          /\ UNCHANGED <<bound, stash, round, sweep, todo, ready, failed, sweeps, queue, passed>>
      BY <1>0, <2>1, <3>1, InChain, Awaited DEF spine, driver
    <3>7. QED
      BY <1>0, <2>1, <3>3, <3>4, <3>5, <3>6, LossStep
  <2>4. QED
    BY <2>2, <2>3
<1>6. QED
  BY <1>1, <1>2, <1>3, <1>4, <1>5

LEMMA PushSteps ==
  ASSUME PipelineInv, NEW t \in Tasks, FixPush(t)
  PROVE  PipelineInv'
<1>1. /\ pc[t] = "push" /\ Goto(t, "review") /\ ready' = ready
      /\ UNCHANGED <<spine, stash, round, sweep, todo, failed, sweeps, queue, passed>>
  BY DEF FixPush, driver
<1>2. Sound(t, task[t], git[t], "push", round[t], t \in ready, Suffered(t, lapse), passed, bound)
  BY <1>1, InChain
<1>3. /\ task' = [task EXCEPT ![t] = task[t]] /\ bound' = bound /\ (t \in queue => task[t].state \in Waiting)
      /\ t \notin ready
  BY <1>1, InChain, Awaited DEF spine, Waiting
<1>4. CASE Pushable(t) /\ git' = [git EXCEPT ![t].remote = git[t].local] /\ UNCHANGED <<lapse, faults>>
  <2> DEFINE h == [git[t] EXCEPT !.remote = git[t].local]
  <2>1. git' = [git EXCEPT ![t] = h]
    BY <1>4
  <2>2. Sound(t, task[t], h, "review", round[t], t \in ready', Suffered(t, lapse), passed, bound)
    BY <1>1, <1>2, <1>3, <1>4, Pushes DEF Pushable
  <2> HIDE DEF h
  <2>3. UNCHANGED history
    BY <1>1, <1>4 DEF history
  <2>4. QED
    BY <1>1, <1>3, <2>1, <2>2, <2>3, GitStep
<1>5. CASE Suffers("push") /\ lapse' = lapse \cup {<<"push", t>>} /\ git' = git
  <2>1. /\ faults' \in 0..MaxFaults /\ lapse \subseteq lapse' /\ lapse' \subseteq Lapses \X Tasks
        /\ Suffered(t, lapse') = Suffered(t, lapse) \cup {"push"}
    BY <1>5, FaultsStay DEF Lapses
  <2>2. Sound(t, task[t], git[t], "review", round[t], t \in ready', Suffered(t, lapse'), passed', bound)
    BY <1>1, <1>2, <2>1, PushLost
  <2>3. Sound(t, task[t], git[t], "review", round[t], t \in ready, Suffered(t, lapse'), passed, bound)
    BY <1>1, <2>2
  <2>4. QED
    BY <1>1, <1>3, <1>5, <2>1, <2>3, LossStep
<1>6. QED
  BY <1>4, <1>5 DEF FixPush

\* chalk pr
LEMMA PrSteps ==
  ASSUME PipelineInv, NEW t \in Tasks,
         \/ PrAlready(t) \/ PrPush(t) \/ PrPushFailed(t) \/ PrCreate(t) \/ PrCreateFailed(t)
         \/ PrRecord(t) \/ PrRecordUnnamed(t)
  PROVE  PipelineInv'
<1>0. pc[t] \in {"pr", "create", "created"}
  BY DEF PrAlready, PrPush, PrPushFailed, PrCreate, PrCreateFailed, PrRecord, PrRecordUnnamed, PrNeeded
<1>1. /\ task[t] \in Task /\ (t \in queue => task[t].state \in Waiting) /\ t \notin ready
      /\ Sound(t, task[t], git[t], pc[t], round[t], t \in ready, Suffered(t, lapse), passed, bound)
      /\ task = [task EXCEPT ![t] = task[t]] /\ git[t] \in Repository
  BY <1>0, InChain, Awaited
<1>2. StageDone(t, "propen") <=> task[t].stage \in FromPropen
  BY <1>1, StagesInOrder
<1>3. CASE PrAlready(t)
  <2>1. /\ pc[t] = "pr" /\ Goto(t, "review") /\ ready' = ready /\ StageDone(t, "propen")
        /\ UNCHANGED <<spine, repo, round, sweep, todo, failed, sweeps, queue, history>>
    BY <1>3 DEF PrAlready, driver
  <2>2. Sound(t, task[t], git[t], "review", round[t], t \in ready', Suffered(t, lapse), passed, bound)
    BY <1>1, <1>2, <2>1, ChainMoves
  <2>3. QED
    BY <2>1, <2>2, MoveStep
<1>4. CASE PrPush(t)
  <2> DEFINE h == [git[t] EXCEPT !.remote = git[t].local]
  <2>1. /\ pc[t] = "pr" /\ Goto(t, "create") /\ ready' = ready
        /\ ~(StageDone(t, "propen") /\ task[t].pr # 0) /\ IsPrefix(git[t].remote, git[t].local)
        /\ git' = [git EXCEPT ![t] = h]
        /\ UNCHANGED <<spine, stash, round, sweep, todo, failed, sweeps, queue, history>>
    BY <1>4 DEF PrPush, PrNeeded, Pushable, driver
  <2>2. task[t].stage \notin FromPropen \/ task[t].pr = 0
    BY <1>2, <2>1
  <2>3. Sound(t, task[t], h, "create", round[t], t \in ready', Suffered(t, lapse), passed, bound)
    BY <1>1, <2>1, <2>2, Pushes
  <2>4. task' = [task EXCEPT ![t] = task[t]] /\ bound' = bound
    BY <1>1, <2>1 DEF spine
  <2> HIDE DEF h
  <2>5. QED
    BY <1>1, <2>1, <2>3, <2>4, GitStep
<1>5. CASE PrPushFailed(t) \/ PrCreateFailed(t)
  <2>1. git' = git /\ StageFailed(t) /\ UNCHANGED <<stash, history>>
    BY <1>5 DEF PrPushFailed, PrCreateFailed, repo
  <2>2. QED
    BY <1>0, <2>1, InChain, QuietFail
<1>6. CASE PrCreate(t)
  <2> DEFINE h == [git[t] EXCEPT !.prs = Append(@, "open")]
  <2>1. /\ pc[t] = "create" /\ Goto(t, "created") /\ ready' = ready
        /\ git[t].remote # <<>> /\ \A i \in DOMAIN git[t].prs : git[t].prs[i] # "open"
        /\ git' = [git EXCEPT ![t] = h]
        /\ UNCHANGED <<spine, stash, round, sweep, todo, failed, sweeps, queue, history>>
    BY <1>6 DEF PrCreate, OpenPr, driver
  <2>2. Sound(t, task[t], h, "created", round[t], t \in ready', Suffered(t, lapse), passed, bound)
    BY <1>1, <2>1, Creates
  <2>3. task' = [task EXCEPT ![t] = task[t]] /\ bound' = bound
    BY <1>1, <2>1 DEF spine
  <2> HIDE DEF h
  <2>4. QED
    BY <1>1, <2>1, <2>2, <2>3, GitStep
<1>7. CASE PrRecord(t)
  <2> DEFINE c == [task[t] EXCEPT !.pr = Len(git[t].prs), !.stage = "propen"]
  <2>1. /\ pc[t] = "created" /\ Put(t, c) /\ Goto(t, "review") /\ ready' = ready
        /\ UNCHANGED <<repo, round, sweep, todo, failed, sweeps, queue, history>>
    BY <1>7 DEF PrRecord, driver
  <2>2. Len(git[t].prs) \in Nat
    BY <1>1, LenProperties DEF Repository
  <2>3. /\ c \in Task /\ c.stage = "propen" /\ c.worktree = task[t].worktree
        /\ c.state = task[t].state /\ c.pr = Len(git[t].prs) /\ c.verdict = task[t].verdict
    BY <1>1, <2>2 DEF Task, Rank
  <2> HIDE DEF c
  <2>4. Sound(t, c, git[t], "review", round[t], t \in ready', Suffered(t, lapse), passed, bound)
    BY <1>1, <2>1, <2>3, PrRecorded
  <2>5. QED
    BY <1>1, <2>1, <2>3, <2>4, WriteStep
<1>8. CASE PrRecordUnnamed(t)
  <2> DEFINE c == [task[t] EXCEPT !.pr = 0, !.stage = "propen"]
  <2>1. /\ pc[t] = "created" /\ Put(t, c) /\ Goto(t, "review") /\ ready' = ready
        /\ Suffers("unnamed") /\ lapse' = lapse \cup {<<"unnamed", t>>}
        /\ UNCHANGED <<git, stash, round, sweep, todo, failed, sweeps, queue, passed>>
    BY <1>8 DEF PrRecordUnnamed, driver, repo
  <2>2. /\ c \in Task /\ c.stage = "propen" /\ c.worktree = task[t].worktree
        /\ c.state = task[t].state /\ c.pr = 0 /\ c.verdict = task[t].verdict
    BY <1>1 DEF Task, Rank
  <2> HIDE DEF c
  <2>3. /\ faults' \in 0..MaxFaults /\ lapse \subseteq lapse' /\ lapse' \subseteq Lapses \X Tasks
        /\ Suffered(t, lapse') = Suffered(t, lapse) \cup {"unnamed"}
    BY <2>1, FaultsStay DEF Lapses
  <2>4. Sound(t, task[t], git[t], "created", round[t], t \in ready, Suffered(t, lapse'), passed, bound)
    BY <1>1, <2>1, <2>3, SoundStays
  <2>5. Sound(t, c, git[t], "review", round[t], t \in ready, Suffered(t, lapse'), passed, bound)
    BY <2>2, <2>3, <2>4, PrRecorded
  <2>6. QED
    BY <1>1, <2>1, <2>2, <2>3, <2>5, LossStep DEF Put
<1>9. QED
  BY <1>3, <1>4, <1>5, <1>6, <1>7, <1>8

-----------------------------------------------------------------------------
(* Review, evidence, merge.                                                *)

\* Whatever the verdict comes to, the reviewer may have edited the worktree.
LEMMA ReaderEffects ==
  ASSUME PipelineInv, NEW t \in Tasks, pc[t] # "idle", NEW o, ReaderEffect(t, o),
         NEW c, NEW x, NEW m, NEW q, NEW v,
         Sound(t, c, git[t], x, m, q, Suffered(t, lapse), v, bound)
  PROVE  /\ faults' \in 0..MaxFaults /\ lapse \subseteq lapse' /\ lapse' \subseteq Lapses \X Tasks
         /\ \E h : /\ git' = [git EXCEPT ![t] = h]
                   /\ Sound(t, c, h, x, m, q, Suffered(t, lapse'), v, bound)
<1>1. CASE o.changed
  <2> DEFINE h == Edited(git[t], t)
  <2>1. /\ Suffers("reader") /\ git[t].edits < MaxRev /\ git' = [git EXCEPT ![t] = h]
        /\ lapse' = lapse \cup {<<"reader", t>>}
    BY <1>1 DEF ReaderEffect
  <2>2. /\ faults' \in 0..MaxFaults /\ lapse \subseteq lapse' /\ lapse' \subseteq Lapses \X Tasks
        /\ Suffered(t, lapse') = Suffered(t, lapse) \cup {"reader"}
    BY <2>1, FaultsStay DEF Lapses
  <2>3. Sound(t, c, h, x, m, q, Suffered(t, lapse'), v, bound)
    BY <2>1, <2>2, ReviewerEdits
  <2> HIDE DEF h
  <2>4. QED
    BY <2>1, <2>2, <2>3
<1>2. CASE UNCHANGED <<git, lapse, faults>>
  BY <1>2, InChain DEF PipelineInv, TypeOK, Lapses
<1>3. QED
  BY <1>1, <1>2 DEF ReaderEffect

\* chalk review passes
LEMMA ReviewPassStep ==
  ASSUME PipelineInv, NEW t \in Tasks, ReviewPass(t)
  PROVE  PipelineInv'
<1> DEFINE y == IF task[t].stage \in FromPropen THEN "reviewed" ELSE task[t].stage
           r == [task[t] EXCEPT !.verdict = "pass", !.stage = y]
           c == ClearReviewBlock(r)
           v == passed \cup {git[t].files}
<1>1. pc[t] \in {"review", "again"} /\ "reviewer" \in bound
  BY DEF ReviewPass, Reviewing
<1>2. /\ task[t] \in Task /\ (t \in queue => task[t].state \in Waiting) /\ t \notin ready
      /\ Sound(t, task[t], git[t], pc[t], round[t], t \in ready, Suffered(t, lapse), passed, bound)
      /\ git[t] \in Repository
  BY <1>1, InChain, Awaited
<1>3. StageDone(t, "propen") <=> task[t].stage \in FromPropen
  BY <1>2, StagesInOrder
<1>4. /\ task' = [task EXCEPT ![t] = c] /\ bound' = bound /\ passed' = v
      /\ pc' = [pc EXCEPT ![t] = "evidence"] /\ round' = [round EXCEPT ![t] = 0]
      /\ UNCHANGED <<stash, sweep, todo, ready, failed, sweeps, queue>>
  BY <1>3 DEF ReviewPass, Put, Goto, Shown, driver
<1>5. y \in DOMAIN Rank
  BY <1>2 DEF Task, Rank
<1>6. /\ c \in Task /\ c.stage = y /\ c.worktree = task[t].worktree /\ c.verdict = "pass"
      /\ (c.state = "done") = (task[t].state = "done") /\ c.pr = task[t].pr
      /\ task[t].state \in Waiting => c.state = task[t].state
  <2>1. /\ r \in Task /\ r.stage = y /\ r.worktree = task[t].worktree /\ r.verdict = "pass"
        /\ r.state = task[t].state /\ r.pr = task[t].pr
    BY <1>2, <1>5 DEF Task, Verdict
  <2> HIDE DEF r
  <2>2. CASE r.state = "blocked" /\ r.needs = "review"
    <3> DEFINE f == IF r.from = "none" THEN "in-progress" ELSE r.from
    <3>1. f \in {"specd", "in-progress", "blocked"}
      BY <2>1 DEF Task
    <3>2. c = [r EXCEPT !.state = f, !.from = "none", !.needs = "none"]
      BY <2>2 DEF ClearReviewBlock, Restored
    <3> HIDE DEF f
    <3>3. /\ c \in Task /\ c.stage = r.stage /\ c.worktree = r.worktree /\ c.verdict = r.verdict
          /\ c.state = f /\ c.pr = r.pr
      BY <2>1, <3>1, <3>2 DEF Task
    <3>4. QED
      BY <2>1, <2>2, <3>1, <3>3 DEF Waiting
  <2>3. CASE ~(r.state = "blocked" /\ r.needs = "review")
    BY <2>1, <2>3 DEF ClearReviewBlock
  <2>4. QED
    BY <2>2, <2>3
<1> HIDE DEF r, c
<1>7. Sound(t, c, git[t], "evidence", 0, t \in ready, Suffered(t, lapse), v, bound)
  BY <1>1, <1>2, <1>6, ReviewPasses
<1>8. PICK o : ReaderEffect(t, o)
  BY DEF ReviewPass
<1>9. /\ faults' \in 0..MaxFaults /\ lapse \subseteq lapse' /\ lapse' \subseteq Lapses \X Tasks
      /\ \E h : /\ git' = [git EXCEPT ![t] = h]
                /\ Sound(t, c, h, "evidence", 0, t \in ready, Suffered(t, lapse'), v, bound)
  BY <1>1, <1>7, <1>8, ReaderEffects
<1>10. PICK h : /\ git' = [git EXCEPT ![t] = h]
                /\ Sound(t, c, h, "evidence", 0, t \in ready, Suffered(t, lapse'), v, bound)
  BY <1>9
<1>11. Sound(t, c, h, "evidence", 0, t \in ready', Suffered(t, lapse'), passed', bound)
  BY <1>4, <1>10
<1>12. Recorded
  BY <1>4, <1>9 DEF Recorded
<1>13. ProbesAlone'
  BY <1>4, <1>12, ProbesStayAlone DEF PipelineInv
<1>14. failed' \subseteq Tasks /\ stash' \in Seq(Content) /\ passed' \subseteq Content
  BY <1>2, <1>4 DEF PipelineInv, TypeOK, Repository
<1>15. t \in queue => Kept(c, h, "evidence", t \in ready', t \in failed', sweep)
  BY <1>2, <1>4, <1>6 DEF Kept, Due, Finishing
<1>16. failed \subseteq failed' /\ queue' = queue
  BY <1>4
<1> HIDE DEF v, y
<1>17. QED
  BY <1>1, <1>2, <1>4, <1>6, <1>9, <1>10, <1>11, <1>12, <1>13, <1>14, <1>15, <1>16, StageStep

\* chalk review blocks or comes to no verdict
LEMMA ReviewOtherSteps ==
  ASSUME PipelineInv, NEW t \in Tasks, ReviewBlock(t) \/ ReviewError(t)
  PROVE  PipelineInv'
<1> DEFINE c == IF ReviewBlock(t) THEN [task[t] EXCEPT !.verdict = "block"] ELSE task[t]
<1>1. pc[t] \in {"review", "again"} /\ "reviewer" \in bound
  BY DEF ReviewBlock, ReviewError, Reviewing
<1>2. /\ task[t] \in Task /\ (t \in queue => task[t].state \in Waiting) /\ t \notin ready
      /\ Sound(t, task[t], git[t], pc[t], round[t], t \in ready, Suffered(t, lapse), passed, bound)
      /\ task = [task EXCEPT ![t] = task[t]] /\ round = [round EXCEPT ![t] = round[t]]
      /\ round[t] \in 0..MaxRounds
  BY <1>1, InChain, Awaited
<1>3. /\ c \in Task /\ c.stage = task[t].stage /\ c.worktree = task[t].worktree
      /\ c.state = task[t].state /\ c.pr = task[t].pr
      /\ ReviewBlock(t) => c.verdict = "block"
      /\ ~ReviewBlock(t) => c = task[t]
  BY <1>2 DEF Task, Verdict, Waiting
<1>4. Sound(t, c, git[t], pc[t], round[t], t \in ready, Suffered(t, lapse), passed, bound)
  <2>1. CASE ReviewBlock(t)
    BY <1>1, <1>2, <1>3, <2>1, VerdictStays DEF Verdict
  <2>2. CASE ~ReviewBlock(t)
    BY <1>2, <1>3, <2>2
  <2>3. QED
    BY <2>1, <2>2
<1>5. PICK o : ReaderEffect(t, o)
  BY DEF ReviewBlock, ReviewError
<1>6. passed' = passed /\ stash' = stash
  BY DEF ReviewBlock, ReviewError
\* The chain goes on: a round, or the one retry.
<1>7. ASSUME NEW x \in {"rewind", "again"}, Put(t, c), Goto(t, x), UNCHANGED <<round, driver>>,
             Sound(t, c, git[t], x, round[t], t \in ready, Suffered(t, lapse), passed, bound)
      PROVE  PipelineInv'
  <2>1. /\ faults' \in 0..MaxFaults /\ lapse \subseteq lapse' /\ lapse' \subseteq Lapses \X Tasks
        /\ \E h : /\ git' = [git EXCEPT ![t] = h]
                  /\ Sound(t, c, h, x, round[t], t \in ready, Suffered(t, lapse'), passed, bound)
    BY <1>1, <1>5, <1>7, ReaderEffects
  <2>2. PICK h : /\ git' = [git EXCEPT ![t] = h]
                 /\ Sound(t, c, h, x, round[t], t \in ready, Suffered(t, lapse'), passed, bound)
    BY <2>1
  <2>3. /\ task' = [task EXCEPT ![t] = c] /\ bound' = bound /\ pc' = [pc EXCEPT ![t] = x]
        /\ round' = [round EXCEPT ![t] = round[t]] /\ x # "idle" /\ x # "probe"
        /\ UNCHANGED <<sweep, todo, ready, failed, sweeps, queue>>
    BY <1>2, <1>7 DEF Put, Goto, driver
  <2>4. Sound(t, c, h, x, round[t], t \in ready', Suffered(t, lapse'), passed', bound)
    BY <1>6, <2>2, <2>3
  <2>5. Recorded
    BY <1>6, <2>1 DEF Recorded
  <2>6. ProbesAlone'
    BY <1>6, <2>3, <2>5, ProbesStayAlone DEF PipelineInv
  <2>7. failed' \subseteq Tasks /\ stash' \in Seq(Content) /\ passed' \subseteq Content
    BY <1>6, <2>3 DEF PipelineInv, TypeOK
  <2>8. t \in queue => Kept(c, h, x, t \in ready', t \in failed', sweep)
    BY <1>2, <1>3, <1>7, <2>3 DEF Kept, Due, Finishing
  <2>9. failed \subseteq failed' /\ queue' = queue
    BY <2>3
  <2> HIDE DEF c
  <2>10. QED
    BY <1>1, <1>2, <1>3, <2>1, <2>2, <2>3, <2>4, <2>5, <2>6, <2>7, <2>8, <2>9, StageStep
\* The chain ends.
<1>8. ASSUME NEW needs \in {"review", "human-input"}, Fail(t, c, needs)
      PROVE  PipelineInv'
  <2>1. /\ faults' \in 0..MaxFaults /\ lapse \subseteq lapse' /\ lapse' \subseteq Lapses \X Tasks
        /\ \E h : /\ git' = [git EXCEPT ![t] = h]
                  /\ Sound(t, c, h, pc[t], round[t], t \in ready, Suffered(t, lapse'), passed, bound)
    BY <1>1, <1>4, <1>5, ReaderEffects
  <2>2. PICK h : /\ git' = [git EXCEPT ![t] = h]
                 /\ Sound(t, c, h, pc[t], round[t], t \in ready, Suffered(t, lapse'), passed, bound)
    BY <2>1
  <2>3. Recorded /\ stash' \in Seq(Content)
    BY <1>6, <2>1 DEF Recorded, PipelineInv, TypeOK
  <2> HIDE DEF c
  <2>4. /\ t \in queue => c.state \in Waiting
        /\ pc[t] \notin {"idle", "teardown", "merged"} /\ passed' = passed /\ stash' = stash
    BY <1>1, <1>2, <1>3, <1>6
  <2>5. QED
    BY <1>8, <2>1, <2>2, <2>3, <2>4, FailStep
<1>9. CASE ReviewBlock(t)
  <2>1. c = [task[t] EXCEPT !.verdict = "block"]
    BY <1>9
  <2>2. CASE pc[t] = "review" /\ round[t] < MaxRounds
    <3>1. Put(t, c) /\ Goto(t, "rewind") /\ UNCHANGED <<round, driver>>
      BY <1>9, <2>1, <2>2 DEF ReviewBlock
    <3>2. Sound(t, c, git[t], "rewind", round[t], t \in ready, Suffered(t, lapse), passed, bound)
      BY <1>1, <1>2, <1>3, <1>9, <2>2, ReviewBlocks
    <3>3. QED
      BY <1>7, <3>1, <3>2
  <2>3. CASE ~(pc[t] = "review" /\ round[t] < MaxRounds)
    <3>1. PICK needs \in {"review", "human-input"} : Fail(t, c, needs)
      BY <1>9, <2>1, <2>3 DEF ReviewBlock
    <3>2. QED
      BY <1>8, <3>1
  <2>4. QED
    BY <2>2, <2>3
<1>10. CASE ReviewError(t) /\ ~ReviewBlock(t)
  <2>1. c = task[t]
    BY <1>10
  <2>2. CASE pc[t] = "review" /\ (round[t] = 0 \/ round[t] < MaxRounds)
    <3> DEFINE x == IF round[t] = 0 THEN "again" ELSE "rewind"
    <3>1. Goto(t, x) /\ UNCHANGED <<spine, round, driver>>
      BY <1>10, <2>2 DEF ReviewError
    <3>2. Put(t, c) /\ x \in {"rewind", "again"}
      BY <1>2, <2>1, <3>1 DEF Put, spine
    <3>3. Sound(t, c, git[t], x, round[t], t \in ready, Suffered(t, lapse), passed, bound)
      BY <1>1, <1>2, <2>1, <2>2, ChainMoves
    <3> HIDE DEF x
    <3>4. QED
      BY <1>7, <3>1, <3>2, <3>3
  <2>3. CASE ~(pc[t] = "review" /\ (round[t] = 0 \/ round[t] < MaxRounds))
    <3>1. PICK needs \in {"review", "human-input"} : Fail(t, c, needs)
      BY <1>10, <2>1, <2>3 DEF ReviewError, StageFailed
    <3>2. QED
      BY <1>8, <3>1
  <2>4. QED
    BY <2>2, <2>3
<1>11. QED
  BY <1>9, <1>10

\* chalk review that stands, or is not configured
LEMMA ReviewAlreadyStep ==
  ASSUME PipelineInv, NEW t \in Tasks, ReviewAlready(t)
  PROVE  PipelineInv'
<1>1. /\ pc[t] = "review" /\ Goto(t, "evidence") /\ ready' = ready
      /\ "reviewer" \in bound => StageDone(t, "reviewed")
      /\ UNCHANGED <<spine, repo, round, sweep, todo, failed, sweeps, queue, history>>
  BY DEF ReviewAlready, ReviewStands, driver
<1>2. "reviewer" \in bound => task[t].stage \in FromReviewed
  BY <1>1, InChain, StagesInOrder
<1>3. Sound(t, task[t], git[t], "evidence", round[t], t \in ready', Suffered(t, lapse), passed, bound)
  BY <1>1, <1>2, InChain, ChainMoves
<1>4. QED
  BY <1>1, <1>3, MoveStep

\* A round of the fix loop begins.
LEMMA RewindStep ==
  ASSUME PipelineInv, NEW t \in Tasks, Rewind(t)
  PROVE  PipelineInv'
<1> DEFINE c == [task[t] EXCEPT !.stage = "branched"]
<1>1. /\ pc[t] = "rewind" /\ task' = [task EXCEPT ![t] = c] /\ bound' = bound
      /\ pc' = [pc EXCEPT ![t] = "work"] /\ round' = [round EXCEPT ![t] = round[t] + 1]
      /\ UNCHANGED <<git, stash, sweep, todo, ready, failed, sweeps, queue, passed, lapse, faults>>
  BY DEF Rewind, Put, Goto, repo, driver, history
<1>2. /\ task[t] \in Task /\ (t \in queue => task[t].state \in Waiting) /\ git = [git EXCEPT ![t] = git[t]]
      /\ Sound(t, task[t], git[t], "rewind", round[t], t \in ready, Suffered(t, lapse), passed, bound)
  BY <1>1, InChain, Awaited
<1>3. /\ c \in Task /\ c.stage = "branched" /\ c.worktree = task[t].worktree
      /\ c.state = task[t].state /\ c.pr = task[t].pr /\ c.verdict = task[t].verdict
     
  BY <1>2 DEF Task, Rank, Waiting
<1> HIDE DEF c
<1>4. Sound(t, c, git[t], "work", round[t] + 1, t \in ready', Suffered(t, lapse), passed, bound)
  BY <1>1, <1>2, <1>3, Rewinds
<1>5. failed' \subseteq Tasks /\ git' = [git EXCEPT ![t] = git[t]]
  BY <1>1, <1>2 DEF PipelineInv, TypeOK
<1>6. /\ t \in queue => Kept(c, git[t], "work", t \in ready', t \in failed', sweep)
      /\ failed \subseteq failed'
  BY <1>1, <1>2, <1>3, Awaited DEF Kept, Due, Finishing
<1>7. QED
  BY <1>1, <1>2, <1>3, <1>4, <1>5, <1>6, QuietStep

\* The chain goes on to merge, or, in a parallel sweep, ends and waits for it.
LEMMA EvidenceLeads ==
  ASSUME NEW t \in Tasks, NEW c, NEW h, NEW n, NEW k, NEW s, NEW b, t \notin ready,
         Sound(t, c, h, "evidence", n, t \in ready, k, s, b), AfterEvidence(t)
  PROVE  \E x \in {"idle", "merge"} :
            /\ Goto(t, x) /\ Sound(t, c, h, x, n, t \in ready', k, s, b)
            /\ (x # "idle" /\ ready' = ready) \/ (x = "idle" /\ ready' = ready \cup {t})
<1>1. CASE Goto(t, "idle") /\ ready' = ready \cup {t}
  <2>1. Sound(t, c, h, "idle", n, t \in ready', k, s, b)
    BY ChainMoves
  <2>2. QED
    BY <1>1, <2>1
<1>2. CASE Goto(t, "merge") /\ ready' = ready
  <2>1. Sound(t, c, h, "merge", n, t \in ready', k, s, b)
    BY <1>2, ChainMoves
  <2>2. QED
    BY <1>2, <2>1
<1>3. QED
  BY <1>1, <1>2 DEF AfterEvidence

\* chalk evidence
LEMMA EvidenceSteps ==
  ASSUME PipelineInv, NEW t \in Tasks, EvidenceAlready(t) \/ Evidence(t) \/ EvidenceFailed(t)
  PROVE  PipelineInv'
<1>0. pc[t] = "evidence"
  BY DEF EvidenceAlready, Evidence, EvidenceFailed, EvidenceNeeded
<1>1. /\ task[t] \in Task /\ (t \in queue => task[t].state \in Waiting) /\ t \notin ready
      /\ Sound(t, task[t], git[t], "evidence", round[t], t \in ready, Suffered(t, lapse), passed, bound)
      /\ git = [git EXCEPT ![t] = git[t]] /\ task[t].stage # "cleaned"
  <2>1. Sound(t, task[t], git[t], "evidence", round[t], t \in ready, Suffered(t, lapse), passed, bound)
    BY <1>0, InChain
  <2>2. task[t].stage # "cleaned"
    BY <2>1 DEF Sound, HasWorktree, InWorktree, Stages
  <2>3. QED
    BY <1>0, <2>1, <2>2, InChain, Awaited
<1> DEFINE p == [git[t] EXCEPT !.remote = git[t].local]
<1>2. Pushable(t) =>
        Sound(t, task[t], p, "evidence", round[t], t \in ready, Suffered(t, lapse), passed, bound)
  BY <1>1, Pushes DEF Pushable
<1> HIDE DEF p
<1>3. CASE EvidenceAlready(t)
  <2>1. /\ AfterEvidence(t)
        /\ UNCHANGED <<spine, repo, round, sweep, todo, failed, sweeps, queue, history>>
    BY <1>3 DEF EvidenceAlready
  <2>2. PICK x \in {"idle", "merge"} :
            /\ Goto(t, x)
            /\ Sound(t, task[t], git[t], x, round[t], t \in ready', Suffered(t, lapse), passed, bound)
            /\ (x # "idle" /\ ready' = ready) \/ (x = "idle" /\ ready' = ready \cup {t})
    BY <1>1, <2>1, EvidenceLeads
  <2>3. QED
    BY <1>0, <1>1, <2>1, <2>2, MoveStep
<1>4. CASE Evidence(t)
  <2> DEFINE c == [task[t] EXCEPT !.stage = "tested"]
  <2>1. /\ task' = [task EXCEPT ![t] = c] /\ AfterEvidence(t)
        /\ UNCHANGED <<bound, stash, round, sweep, todo, failed, sweeps, queue, history>>
    BY <1>4 DEF Evidence, Put
  <2>2. /\ c \in Task /\ c.stage = "tested" /\ c.worktree = task[t].worktree
        /\ c.state = task[t].state /\ c.pr = task[t].pr /\ c.verdict = task[t].verdict
    BY <1>1 DEF Task, Rank
  <2> HIDE DEF c
  <2>3. PICK h : /\ git' = [git EXCEPT ![t] = h]
                 /\ Sound(t, task[t], h, "evidence", round[t], t \in ready,
                          Suffered(t, lapse), passed, bound)
    <3>1. CASE Pushable(t) /\ git' = [git EXCEPT ![t].remote = git[t].local]
      <4>1. git' = [git EXCEPT ![t] = p]
        BY <3>1 DEF p
      <4>2. QED
        BY <1>2, <3>1, <4>1
    <3>2. CASE git' = git
      BY <1>1, <3>2
    <3>3. QED
      BY <1>4, <3>1, <3>2 DEF Evidence
  <2>4. Sound(t, c, h, "evidence", round[t], t \in ready, Suffered(t, lapse), passed, bound)
    BY <2>2, <2>3, EvidenceTaken
  <2>5. PICK x \in {"idle", "merge"} :
            /\ Goto(t, x)
            /\ Sound(t, c, h, x, round[t], t \in ready', Suffered(t, lapse), passed, bound)
            /\ (x # "idle" /\ ready' = ready) \/ (x = "idle" /\ ready' = ready \cup {t})
    BY <1>1, <2>1, <2>4, EvidenceLeads
  <2>6. QED
    BY <1>0, <1>1, <2>1, <2>2, <2>3, <2>5, GitStep
<1>5. CASE EvidenceFailed(t)
  <2>1. StageFailed(t) /\ UNCHANGED <<stash, history>>
    BY <1>5 DEF EvidenceFailed
  <2>2. CASE git' = git
    BY <1>0, <1>1, <2>1, <2>2, QuietFail
  <2>3. CASE Pushable(t) /\ git' = [git EXCEPT ![t] = p]
    BY <1>0, <1>2, <2>1, <2>3, QuietFail
  <2>4. QED
    BY <1>5, <2>2, <2>3 DEF EvidenceFailed, p
<1>6. QED
  BY <1>3, <1>4, <1>5

\* chalk merge
LEMMA MergeSteps ==
  ASSUME PipelineInv, NEW t \in Tasks,
         MergeAlready(t) \/ MergeRefused(t) \/ MergePr(t) \/ Teardown(t) \/ MergeRecord(t)
  PROVE  PipelineInv'
<1>0. pc[t] \in {"merge", "teardown", "merged"}
  BY DEF MergeAlready, MergeRefused, MergePr, Teardown, MergeRecord, MergeNeeded
<1>1. /\ task[t] \in Task /\ (t \in queue => task[t].state \in Waiting) /\ t \notin ready
      /\ Sound(t, task[t], git[t], pc[t], round[t], t \in ready, Suffered(t, lapse), passed, bound)
      /\ git = [git EXCEPT ![t] = git[t]] /\ task = [task EXCEPT ![t] = task[t]]
      /\ t \in queue => task[t].stage # "cleaned"
  BY <1>0, InChain, Awaited DEF Finishing
<1>2. CASE MergeRefused(t)
  <2>1. CASE sweep = "parallel"
    <3>1. /\ pc[t] = "merge" /\ pc' = [pc EXCEPT ![t] = "idle"] /\ round' = [round EXCEPT ![t] = 0]
          /\ failed' = failed \cup {t}
          /\ UNCHANGED <<bound, task, git, stash, sweep, todo, ready, sweeps, queue, passed, lapse, faults>>
      BY <1>2, <2>1 DEF MergeRefused, MergeNeeded, Leave, Goto, spine, repo, history
    <3>2. Sound(t, task[t], git[t], "idle", 0, t \in ready', Suffered(t, lapse), passed, bound)
      BY <1>1, <3>1, ChainEnds
    <3>3. /\ failed' \subseteq Tasks /\ git' = [git EXCEPT ![t] = git[t]]
          /\ task' = [task EXCEPT ![t] = task[t]]
      BY <1>1, <3>1 DEF PipelineInv, TypeOK
    <3>4. t \in queue => Kept(task[t], git[t], "idle", t \in ready', t \in failed', sweep)
      BY <1>1, <2>1, <3>1 DEF Kept, Settled
    <3>5. failed \subseteq failed' /\ queue' = queue
      BY <3>1
    <3>6. QED
      BY <1>1, <3>1, <3>2, <3>3, <3>4, <3>5, QuietStep
  <2>2. CASE sweep # "parallel"
    <3>1. pc[t] = "merge" /\ git' = git /\ StageFailed(t) /\ UNCHANGED <<stash, history>>
      BY <1>2, <2>2 DEF MergeRefused, MergeNeeded, repo
    <3>2. QED
      BY <1>1, <3>1, QuietFail
  <2>3. QED
    BY <2>1, <2>2
<1>3. CASE MergePr(t)
  <2>1. /\ pc[t] = "merge" /\ Goto(t, "teardown") /\ ready' = ready
        /\ UNCHANGED <<spine, stash, round, sweep, todo, failed, sweeps, queue, history>>
    BY <1>3 DEF MergePr, MergeNeeded, driver
  <2>2. task[t].state = "in-progress" /\ task[t].pr # 0 /\ (ReviewRequired => task[t].verdict = "pass")
    <3>1. PICK ci \in CiStatus, green \in BOOLEAN : MergeBlockers(t, ci, green) = {}
      BY <1>3 DEF MergePr
    <3>2. QED
      BY <3>1 DEF MergeBlockers
  <2>3. PICK rest : /\ rest = git[t].remote \/ (rest = <<>> /\ task[t].pr = Len(git[t].prs))
                    /\ git' = [git EXCEPT ![t] = [Squash(git[t], task[t].pr) EXCEPT !.remote = rest]]
    BY <1>3 DEF MergePr
  <2> DEFINE h == [Squash(git[t], task[t].pr) EXCEPT !.remote = rest]
  <2>4. Sound(t, task[t], h, "teardown", round[t], t \in ready', Suffered(t, lapse), passed, bound)
    BY <1>1, <2>1, <2>2, <2>3, Merges
  <2>5. task' = [task EXCEPT ![t] = task[t]] /\ bound' = bound /\ git' = [git EXCEPT ![t] = h]
    BY <1>1, <2>1, <2>3 DEF spine
  <2> HIDE DEF h
  <2>6. QED
    BY <1>1, <2>1, <2>4, <2>5, GitStep
<1>4. CASE Teardown(t)
  <2> DEFINE h == WorktreeRemove(git[t])
  <2>1. /\ pc[t] = "teardown" /\ Goto(t, "merged") /\ ready' = ready
        /\ git' = [git EXCEPT ![t] = h]
        /\ UNCHANGED <<spine, stash, round, sweep, todo, failed, sweeps, queue, history>>
    BY <1>4 DEF Teardown, driver
  <2>2. Sound(t, task[t], h, "merged", round[t], t \in ready', Suffered(t, lapse), passed, bound)
    BY <1>1, <2>1, TearsDown
  <2>3. task' = [task EXCEPT ![t] = task[t]] /\ bound' = bound
    BY <1>1, <2>1 DEF spine
  <2> HIDE DEF h
  <2>4. QED
    BY <1>1, <2>1, <2>2, <2>3, GitStep
<1>5. CASE MergeRecord(t)
  <2> DEFINE c == [task[t] EXCEPT !.state = "done", !.stage = "cleaned", !.worktree = FALSE]
  <2>1. /\ pc[t] = "merged" /\ task' = [task EXCEPT ![t] = c] /\ bound' = bound
        /\ pc' = [pc EXCEPT ![t] = "idle"] /\ round' = [round EXCEPT ![t] = 0]
        /\ UNCHANGED <<git, stash, sweep, todo, ready, failed, sweeps, queue, passed, lapse, faults>>
    BY <1>5 DEF MergeRecord, Put, Leave, Goto, repo, driver, history
  <2>2. /\ c \in Task /\ c.stage = "cleaned" /\ ~c.worktree /\ c.state = "done"
        /\ c.pr = task[t].pr /\ c.verdict = task[t].verdict
    BY <1>1 DEF Task, Rank
  <2> HIDE DEF c
  <2>3. Sound(t, c, git[t], "idle", 0, t \in ready', Suffered(t, lapse), passed, bound)
    BY <1>1, <2>1, <2>2, MergeRecorded
  <2>4. /\ failed' \subseteq Tasks /\ git' = [git EXCEPT ![t] = git[t]] /\ t \notin ready'
        /\ failed \subseteq failed' /\ queue' = queue
    BY <1>1, <2>1 DEF PipelineInv, TypeOK
  <2>5. git[t].merged # <<>>
    BY <1>1, <2>1 DEF Sound, Requests
  <2>6. t \in queue => Kept(c, git[t], "idle", t \in ready', t \in failed', sweep)
    BY <2>2, <2>4, <2>5 DEF Kept, Settled
  <2>7. QED
    BY <1>1, <2>1, <2>2, <2>3, <2>4, <2>6, QuietStep
<1>6. CASE MergeAlready(t)
  <2>1. /\ pc[t] = "merge" /\ StageDone(t, "cleaned")
        /\ pc' = [pc EXCEPT ![t] = "idle"] /\ round' = [round EXCEPT ![t] = 0]
        /\ UNCHANGED <<bound, task, git, stash, sweep, todo, ready, failed, sweeps, queue, passed, lapse, faults>>
    BY <1>6 DEF MergeAlready, Leave, Goto, spine, repo, driver, history
  <2>2. t \notin queue
    BY <1>1, <2>1, StagesInOrder
  <2>3. Sound(t, task[t], git[t], "idle", 0, t \in ready', Suffered(t, lapse), passed, bound)
    BY <1>1, <2>1, ChainEnds
  <2>4. /\ failed' \subseteq Tasks /\ git' = [git EXCEPT ![t] = git[t]] /\ failed \subseteq failed'
        /\ task' = [task EXCEPT ![t] = task[t]] /\ queue' = queue
    BY <1>1, <2>1 DEF PipelineInv, TypeOK
  <2>5. QED
    BY <1>1, <2>1, <2>2, <2>3, <2>4, QuietStep
<1>7. QED
  BY <1>2, <1>3, <1>4, <1>5, <1>6

-----------------------------------------------------------------------------
(* The drivers, humans and faults.                                         *)

\* A step that moves no chain.
LEMMA AsideStep ==
  ASSUME PipelineInv, Recorded, NEW t \in Tasks, NEW c, NEW h,
         Sound(t, c, h, pc[t], round[t], t \in ready, Suffered(t, lapse'), passed, bound),
         task' = [task EXCEPT ![t] = c], git' = [git EXCEPT ![t] = h],
         UNCHANGED <<bound, stash, pc, round, sweep, todo, ready, failed, sweeps, passed>>,
         faults' \in 0..MaxFaults, lapse' \subseteq Lapses \X Tasks,
         \/ queue' = queue \ {t}
         \/ /\ queue' = queue /\ c.state = task[t].state /\ h.merged = git[t].merged
            /\ c.stage = task[t].stage \/ c.stage # "cleaned"
  PROVE  PipelineInv'
<1> USE DEF PipelineInv
<1>1. pc' = [pc EXCEPT ![t] = pc[t]] /\ round' = [round EXCEPT ![t] = round[t]]
  BY DEF TypeOK
<1>2. Sound(t, c, h, pc[t], round[t], t \in ready', Suffered(t, lapse'), passed', bound)
  OBVIOUS
<1>3. /\ Soundness'
      /\ task' \in [Tasks -> Task] /\ git' \in [Tasks -> Repository]
  <2>1. ready \ {t} \subseteq ready' /\ ready' \subseteq ready \cup {t} /\ bound' = bound
    OBVIOUS
  <2>2. TypeOK /\ Soundness
    OBVIOUS
  <2> HIDE DEF PipelineInv
  <2>3. PICK x, m : /\ pc' = [pc EXCEPT ![t] = x] /\ round' = [round EXCEPT ![t] = m]
                    /\ Sound(t, c, h, x, m, t \in ready', Suffered(t, lapse'), passed', bound)
    BY <1>1, <1>2
  <2>4. QED
    BY <2>1, <2>2, <2>3, OneTask
<1>4. TypeOK'
  BY <1>3 DEF TypeOK, Lapses
<1>5. Scheduled'
  <2> SUFFICES ASSUME NEW u \in Tasks
               PROVE  /\ pc[u] # "idle" => u \notin todo \cup ready
                      /\ u \notin todo \cap ready
                      /\ pc[u] # "idle" \/ u \in todo \cup ready => sweep # "off"
                      /\ u \in queue' /\ sweep # "off" =>
                            IF pc[u] # "idle" \/ u \in todo \cup ready
                            THEN Due(task'[u], pc[u], u \in ready)
                            ELSE Settled(task'[u], git'[u], u \in failed, sweep)
    BY DEF Scheduled
  <2>1. CASE u # t
    <3>1. task'[u] = task[u] /\ git'[u] = git[u] /\ (u \in queue' => u \in queue)
      BY <2>1 DEF TypeOK
    <3>2. QED
      BY <3>1 DEF Scheduled
  <2>2. CASE u = t
    <3>1. task'[t] = c /\ git'[t] = h
      BY DEF TypeOK
    <3>2. CASE queue' = queue \ {t}
      BY <2>2, <3>2 DEF Scheduled
    <3>3. CASE /\ queue' = queue /\ c.state = task[t].state /\ h.merged = git[t].merged
               /\ c.stage = task[t].stage \/ c.stage # "cleaned"
      BY <2>2, <3>1, <3>3 DEF Scheduled, Due, Settled
    <3>4. QED
      BY <3>2, <3>3
  <2>3. QED
    BY <2>1, <2>2
<1>6. ProbesAlone'
  BY DEF ProbesAlone, Recorded
<1>7. QED
  BY <1>3, <1>4, <1>5, <1>6

LEMMA HumanSteps ==
  ASSUME PipelineInv, NEW t \in Tasks, ApprovePlan(t) \/ Cleanup(t)
  PROVE  PipelineInv'
<1>1. /\ task[t] \in Task /\ git = [git EXCEPT ![t] = git[t]]
      /\ Sound(t, task[t], git[t], pc[t], round[t], t \in ready, Suffered(t, lapse), passed, bound)
      /\ faults \in 0..MaxFaults /\ lapse \subseteq Lapses \X Tasks
  BY DEF PipelineInv, TypeOK, Soundness
<1>2. CASE ApprovePlan(t)
  <2> DEFINE c == [task[t] EXCEPT !.approved = TRUE]
  <2>1. /\ task' = [task EXCEPT ![t] = c] /\ git' = [git EXCEPT ![t] = git[t]]
        /\ UNCHANGED <<bound, stash, pc, round, sweep, todo, ready, failed, sweeps, queue, passed>>
        /\ UNCHANGED <<lapse, faults>>
    BY <1>1, <1>2 DEF ApprovePlan, Put, repo, chain, driver, history
  <2>2. /\ c \in Task /\ c.stage = task[t].stage /\ c.worktree = task[t].worktree
        /\ c.state = task[t].state /\ c.pr = task[t].pr /\ c.verdict = task[t].verdict
    BY <1>1 DEF Task
  <2> HIDE DEF c
  <2>3. Sound(t, c, git[t], pc[t], round[t], t \in ready, Suffered(t, lapse'), passed, bound)
    BY <1>1, <2>1, <2>2, StateChanges
  <2>4. Recorded
    BY <2>1 DEF Recorded
  <2>5. QED
    BY <1>1, <2>1, <2>2, <2>3, <2>4, AsideStep
<1>3. CASE Cleanup(t)
  <2> DEFINE c == [task[t] EXCEPT !.worktree = FALSE, !.stage = "selected"]
             h == WorktreeRemove(git[t])
  <2>1. /\ task' = [task EXCEPT ![t] = c] /\ git' = [git EXCEPT ![t] = h]
        /\ UNCHANGED <<bound, stash, pc, round, sweep, todo, ready, failed, sweeps, queue, passed>>
        /\ UNCHANGED <<lapse, faults>> /\ pc[t] = "idle" /\ t \notin ready
    BY <1>1, <1>3 DEF Cleanup, Put, chain, driver, history
  <2>2. /\ c \in Task /\ c.stage = "selected" /\ ~c.worktree
        /\ c.state = task[t].state /\ c.pr = task[t].pr /\ c.verdict = task[t].verdict
    BY <1>1 DEF Task, Rank
  <2> HIDE DEF c
  <2>3. Sound(t, c, h, pc[t], round[t], t \in ready, Suffered(t, lapse'), passed, bound)
    BY <1>1, <2>1, <2>2, Cleaned
  <2>4. git[t] \in Repository
    BY DEF PipelineInv, TypeOK
  <2>5. h.merged = git[t].merged
    BY <2>4, Removed
  <2> HIDE DEF h
  <2>6. Recorded
    BY <2>1 DEF Recorded
  <2>7. QED
    BY <1>1, <2>1, <2>2, <2>3, <2>5, <2>6, AsideStep
<1>4. QED
  BY <1>2, <1>3

\* A human moves the task, whatever the sweep does with it.
LEMMA MovedStep ==
  ASSUME PipelineInv, NEW t \in Tasks, NEW c, MovedByHand(t, c),
         Sound(t, c, git[t], pc[t], round[t], t \in ready, Suffered(t, lapse'), passed, bound),
         faults' \in 0..MaxFaults, lapse \subseteq lapse', lapse' \subseteq Lapses \X Tasks
  PROVE  PipelineInv'
<1>1. /\ task' = [task EXCEPT ![t] = c] /\ git' = [git EXCEPT ![t] = git[t]]
      /\ UNCHANGED <<bound, stash, pc, round, sweep, todo, ready, failed, sweeps, passed>>
      /\ queue' = queue \ {t}
  BY DEF MovedByHand, Put, repo, chain, PipelineInv, TypeOK
<1>2. Recorded
  BY <1>1 DEF Recorded
<1>3. QED
  BY <1>1, <1>2, AsideStep

\* chalk block, unblock, done, pending redirect
LEMMA MovingSteps ==
  ASSUME PipelineInv, NEW t \in Tasks, Unblock(t) \/ Block(t) \/ Done(t) \/ Reopen(t)
  PROVE  PipelineInv'
<1>1. /\ task[t] \in Task
      /\ Sound(t, task[t], git[t], pc[t], round[t], t \in ready, Suffered(t, lapse), passed, bound)
      /\ faults \in 0..MaxFaults /\ lapse \subseteq Lapses \X Tasks
  BY DEF PipelineInv, TypeOK, Soundness
<1>2. CASE Unblock(t)
  <2> DEFINE f == IF task[t].from = "none" THEN "specd" ELSE task[t].from
             c == [task[t] EXCEPT !.state = f, !.from = "none", !.needs = "none"]
  <2>1. /\ MovedByHand(t, c) /\ UNCHANGED <<lapse, faults>> /\ task[t].state = "blocked"
    BY <1>2 DEF Unblock, Restored
  <2>2. f \in {"specd", "in-progress", "blocked"}
    BY <1>1 DEF Task
  <2> HIDE DEF f
  <2>3. /\ c \in Task /\ c.stage = task[t].stage /\ c.worktree = task[t].worktree
        /\ c.pr = task[t].pr /\ c.verdict = task[t].verdict
        /\ c.state # "done" /\ task[t].state # "done"
    BY <1>1, <2>1, <2>2 DEF Task
  <2> HIDE DEF c
  <2>4. Sound(t, c, git[t], pc[t], round[t], t \in ready, Suffered(t, lapse'), passed, bound)
    BY <1>1, <2>1, <2>3, StateChanges
  <2>5. QED
    BY <1>1, <2>1, <2>4, MovedStep
<1>3. CASE Block(t)
  <2>1. PICK needs \in {"review", "human-input"} : MovedByHand(t, Blocked(task[t], needs))
    BY <1>3 DEF Block
  <2> DEFINE c == Blocked(task[t], needs)
  <2>2. lapse' = lapse /\ faults' \in 0..MaxFaults /\ task[t].state # "done"
    BY <1>1, <1>3, PipelineAssumption DEF Block, Suffers
  <2>3. task[t].state \in {"specd", "in-progress", "blocked"}
    BY <1>1, <2>2 DEF Task
  <2>4. /\ c \in Task /\ c.stage = task[t].stage /\ c.worktree = task[t].worktree
        /\ c.pr = task[t].pr /\ c.verdict = task[t].verdict
        /\ c.state # "done" /\ task[t].state # "done"
    BY <1>1, <2>3 DEF Task, Blocked
  <2> HIDE DEF c
  <2>5. Sound(t, c, git[t], pc[t], round[t], t \in ready, Suffered(t, lapse'), passed, bound)
    BY <1>1, <2>2, <2>4, StateChanges
  <2>6. MovedByHand(t, c)
    BY <2>1 DEF c
  <2>7. QED
    BY <1>1, <2>2, <2>5, <2>6, MovedStep
<1>4. CASE Done(t)
  <2> DEFINE c == [task[t] EXCEPT !.state = "done"]
  <2>1. MovedByHand(t, c) /\ Suffers("done") /\ lapse' = lapse \cup {<<"done", t>>}
    BY <1>4 DEF Done
  <2>2. /\ c \in Task /\ c.stage = task[t].stage /\ c.worktree = task[t].worktree
        /\ c.pr = task[t].pr /\ c.verdict = task[t].verdict /\ c.state = "done"
    BY <1>1 DEF Task
  <2> HIDE DEF c
  <2>3. /\ faults' \in 0..MaxFaults /\ lapse \subseteq lapse' /\ lapse' \subseteq Lapses \X Tasks
        /\ Suffered(t, lapse') = Suffered(t, lapse) \cup {"done"}
    BY <2>1, FaultsStay DEF Lapses
  <2>4. Sound(t, c, git[t], pc[t], round[t], t \in ready, Suffered(t, lapse'), passed, bound)
    BY <1>1, <2>2, <2>3, Completes
  <2>5. QED
    BY <2>1, <2>3, <2>4, MovedStep
<1>5. CASE Reopen(t)
  <2> DEFINE c == [task[t] EXCEPT !.state = "in-progress"]
  <2>1. /\ MovedByHand(t, c) /\ faults' = faults /\ task[t].state = "done"
        /\ lapse' = lapse \cup {<<"reopened", t>>}
    BY <1>5 DEF Reopen
  <2>2. /\ c \in Task /\ c.stage = task[t].stage /\ c.worktree = task[t].worktree
        /\ c.state = "in-progress" /\ c.pr = task[t].pr /\ c.verdict = task[t].verdict
    BY <1>1 DEF Task
  <2> HIDE DEF c
  <2>3. Suffered(t, lapse') = Suffered(t, lapse) \cup {"reopened"}
    BY <2>1 DEF Suffered, Lapses
  <2>4. Sound(t, c, git[t], pc[t], round[t], t \in ready, Suffered(t, lapse'), passed, bound)
    BY <1>1, <2>1, <2>2, <2>3, Reopens
  <2>5. lapse \subseteq lapse' /\ lapse' \subseteq Lapses \X Tasks
    BY <1>1, <2>1 DEF Lapses
  <2>6. QED
    BY <1>1, <2>1, <2>4, <2>5, MovedStep
<1>6. QED
  BY <1>2, <1>3, <1>4, <1>5

\* A worktree is removed by hand.
LEMMA VanishStep ==
  ASSUME PipelineInv, NEW t \in Tasks, Vanish(t)
  PROVE  PipelineInv'
<1> DEFINE h == [git[t] EXCEPT !.dir = FALSE, !.files = Base]
<1>1. /\ task = [task EXCEPT ![t] = task[t]]
      /\ Sound(t, task[t], git[t], pc[t], round[t], t \in ready, Suffered(t, lapse), passed, bound)
      /\ faults \in 0..MaxFaults /\ lapse \subseteq Lapses \X Tasks
  BY DEF PipelineInv, TypeOK, Soundness, Lapses
<1>2. h.merged = git[t].merged
  BY DEF PipelineInv, TypeOK, Repository
<1>3. /\ pc[t] = "idle" /\ git' = [git EXCEPT ![t] = h] /\ Suffers("vanish")
      /\ UNCHANGED <<bound, stash, pc, round, sweep, todo, ready, failed, sweeps, queue, passed>>
      /\ task' = task /\ lapse' = lapse
  BY DEF Vanish, spine, chain, driver
<1>4. Sound(t, task[t], h, pc[t], round[t], t \in ready, Suffered(t, lapse), passed, bound)
  <2>1. pc[t] = "idle" /\ h = [git[t] EXCEPT !.dir = FALSE, !.files = Base]
    BY <1>3
  <2> HIDE DEF h
  <2>2. Sound(t, task[t], git[t], pc[t], round[t], t \in ready, Suffered(t, lapse), passed, bound)
    BY <1>1
  <2>3. QED
    BY <2>1, <2>2, Vanishes
<1>5. faults' \in 0..MaxFaults
  BY <1>1, <1>3, PipelineAssumption DEF Suffers
<1>6. Recorded
  BY <1>3 DEF Recorded
<1> HIDE DEF h
<1>7. /\ task' = [task EXCEPT ![t] = task[t]] /\ lapse' \subseteq Lapses \X Tasks
      /\ Sound(t, task[t], h, pc[t], round[t], t \in ready, Suffered(t, lapse'), passed, bound)
  BY <1>1, <1>3, <1>4
<1>8. QED
  BY <1>2, <1>3, <1>5, <1>6, <1>7, AsideStep

\* A sweep starts or ends: the queue changes, no task does.
LEMMA SweepSteps ==
  ASSUME PipelineInv, (\E mode \in Modes : StartSweep(mode)) \/ EndSweep
  PROVE  PipelineInv'
<1>1. /\ UNCHANGED <<bound, task, git, stash, pc, round, passed, lapse, faults>>
      /\ ready' = {} \/ ready' = ready
  BY DEF StartSweep, EndSweep, spine, repo, chain, history
<1>2. sweep' \in {"off", "sequential", "parallel"} /\ ready' \subseteq Tasks
  BY <1>1 DEF StartSweep, EndSweep, Modes, PipelineInv, TypeOK
<1>3. /\ todo' \subseteq Tasks /\ failed' \subseteq Tasks /\ queue' \subseteq Tasks /\ sweeps' \in 0..MaxSweeps
  <2>1. CASE EndSweep
    BY <2>1 DEF EndSweep, PipelineInv, TypeOK
  <2>2. CASE \E mode \in Modes : StartSweep(mode)
    <3>1. sweeps < MaxSweeps /\ sweeps' = sweeps + 1 /\ sweeps \in 0..MaxSweeps
      BY <2>2 DEF StartSweep, PipelineInv, TypeOK
    <3>2. sweeps' \in 0..MaxSweeps
      BY <3>1, PipelineAssumption
    <3>3. QED
      BY <2>2, <3>2 DEF StartSweep
  <2>3. QED
    BY <2>1, <2>2
<1>4. TypeOK'
  BY <1>1, <1>2, <1>3 DEF PipelineInv, TypeOK
<1>5. Soundness'
  <2>1. \A t \in Tasks : Sound(t, task'[t], git'[t], pc'[t], round'[t], t \in ready',
                               Suffered(t, lapse'), passed', bound')
    <3> SUFFICES ASSUME NEW t \in Tasks
                 PROVE  Sound(t, task'[t], git'[t], pc'[t], round'[t], t \in ready',
                              Suffered(t, lapse'), passed', bound')
      OBVIOUS
    <3>1. Sound(t, task[t], git[t], pc[t], round[t], t \in ready, Suffered(t, lapse), passed, bound)
      BY DEF PipelineInv, Soundness
    <3>2. Sound(t, task[t], git[t], pc[t], round[t], t \in ready', Suffered(t, lapse), passed, bound)
      BY <1>1, <3>1, SoundForgets
    <3>3. QED
      BY <1>1, <3>2
  <2>2. QED
    BY <2>1 DEF Soundness
<1>6. Scheduled'
  <2>1. CASE EndSweep
    BY <2>1, <1>1 DEF EndSweep, PipelineInv, Scheduled, Active
  <2>2. CASE \E mode \in Modes : StartSweep(mode)
    <3>1. /\ sweep = "off" /\ sweep' # "off" /\ ready' = {}
          /\ todo' = {t \in Tasks : task[t].state \notin {"done", "blocked"}} /\ queue' = todo'
      BY <2>2 DEF StartSweep, Modes
    <3>2. \A t \in Tasks : pc[t] = "idle" /\ task[t].state \in {"specd", "in-progress", "blocked", "done"}
      BY <3>1 DEF PipelineInv, Scheduled, TypeOK, Task
    <3>3. ASSUME NEW t \in Tasks, t \in queue'
          PROVE  t \in todo' /\ Due(task'[t], pc'[t], t \in ready')
      BY <1>1, <3>1, <3>2, <3>3 DEF Due, Waiting, Finishing
    <3>4. QED
      BY <1>1, <3>1, <3>2, <3>3 DEF Scheduled
  <2>3. QED
    BY <2>1, <2>2
<1>7. ProbesAlone'
  BY <1>1 DEF PipelineInv, ProbesAlone
<1>8. QED
  BY <1>4, <1>5, <1>6, <1>7 DEF PipelineInv

\* A chain starts, or the merge of one that waits for it.
LEMMA ChainSteps ==
  ASSUME PipelineInv, NEW t \in Tasks, StartChain(t) \/ StartMerge(t)
  PROVE  PipelineInv'
<1> DEFINE x == IF t \in todo THEN "branch" ELSE "merge"
<1>1. /\ t \in todo => ready' = ready /\ todo' = todo \ {t}
      /\ t \notin todo => t \in ready /\ ready' = ready \ {t} /\ todo' = todo
      /\ pc' = [pc EXCEPT ![t] = x]
      /\ UNCHANGED <<bound, task, git, stash, round, sweep, failed, sweeps, queue, passed, lapse, faults>>
  <2>1. CASE StartChain(t)
    BY <2>1 DEF StartChain, MayStart, Goto, spine, repo, history
  <2>2. CASE StartMerge(t)
    BY <2>2 DEF StartMerge, Goto, spine, repo, history
  <2>3. QED
    BY <2>1, <2>2
<1>2. /\ pc[t] = "idle" /\ sweep # "off" /\ (t \in queue => Due(task[t], "idle", t \in ready))
      /\ t \in todo => t \notin ready
  BY <1>1 DEF PipelineInv, Scheduled
<1>3. Sound(t, task[t], git[t], "idle", round[t], t \in ready, Suffered(t, lapse), passed, bound)
  BY <1>2 DEF PipelineInv, Soundness
<1>4. Sound(t, task[t], git[t], x, round[t], t \in ready', Suffered(t, lapse), passed, bound)
  <2>1. CASE t \in todo
    BY <1>1, <1>3, <2>1, ChainMoves
  <2>2. CASE t \notin todo
    <3>1. t \in ready /\ t \notin ready' /\ x = "merge"
      BY <1>1, <2>2
    <3>2. QED
      BY <1>3, <3>1, ChainMoves
  <2>3. QED
    BY <2>1, <2>2
<1>5. /\ task' = [task EXCEPT ![t] = task[t]] /\ git' = [git EXCEPT ![t] = git[t]]
      /\ round' = [round EXCEPT ![t] = round[t]] /\ x # "probe" /\ x # "idle"
  BY <1>1 DEF PipelineInv, TypeOK
<1> HIDE DEF x
<1>6. Recorded /\ ready \ {t} \subseteq ready' /\ ready' \subseteq ready \cup {t}
  BY <1>1 DEF Recorded
<1>7. Sound(t, task[t], git[t], x, round[t], t \in ready', Suffered(t, lapse'), passed', bound)
  BY <1>1, <1>4
<1>8. /\ Soundness'
      /\ task' \in [Tasks -> Task] /\ git' \in [Tasks -> Repository]
      /\ pc' \in [Tasks -> Stages] /\ round' \in [Tasks -> 0..MaxRounds]
  BY <1>1, <1>5, <1>6, <1>7, OneTask DEF PipelineInv
<1>9. TypeOK'
  BY <1>1, <1>8 DEF PipelineInv, TypeOK
<1>10. Scheduled'
  <2> SUFFICES ASSUME NEW u \in Tasks
               PROVE  /\ pc'[u] # "idle" => u \notin todo' \cup ready'
                      /\ u \notin todo' \cap ready'
                      /\ pc'[u] # "idle" \/ u \in todo' \cup ready' => sweep' # "off"
                      /\ u \in queue' /\ sweep' # "off" =>
                            IF pc'[u] # "idle" \/ u \in todo' \cup ready'
                            THEN Due(task'[u], pc'[u], u \in ready')
                            ELSE Settled(task'[u], git'[u], u \in failed', sweep')
    BY DEF Scheduled
  <2>1. CASE u # t
    <3>1. /\ task'[u] = task[u] /\ git'[u] = git[u] /\ pc'[u] = pc[u] /\ (u \in ready' <=> u \in ready)
          /\ (u \in todo' <=> u \in todo) /\ sweep' = sweep /\ queue' = queue /\ failed' = failed
      BY <1>1, <2>1 DEF PipelineInv, TypeOK
    <3>2. QED
      BY <3>1 DEF PipelineInv, Scheduled
  <2>2. CASE u = t
    <3>1. /\ t \notin todo' /\ t \notin ready' /\ task'[t] = task[t] /\ sweep' # "off"
          /\ pc'[t] = x /\ queue' = queue
      BY <1>1, <1>2 DEF PipelineInv, TypeOK
    <3>2. t \in queue => Due(task[t], x, FALSE)
      BY <1>1, <1>2 DEF Due, Finishing, x
    <3>3. t \in queue => Due(task'[t], pc'[t], t \in ready')
      <4>1. (t \in ready') = FALSE
        BY <3>1
      <4>2. QED
        BY <3>1, <3>2, <4>1
    <3>4. QED
      BY <1>5, <2>2, <3>1, <3>3
  <2>3. QED
    BY <2>1, <2>2
<1>11. ProbesAlone'
  BY <1>1, <1>5, <1>6, ProbesStayAlone DEF PipelineInv
<1>12. QED
  BY <1>8, <1>9, <1>10, <1>11 DEF PipelineInv

\* The chain of a task that was parked or completed meanwhile is skipped.
LEMMA SkipStep ==
  ASSUME PipelineInv, NEW t \in Tasks, SkipChain(t)
  PROVE  PipelineInv'
<1>1. /\ t \in todo /\ sweep = "parallel" /\ task[t].state \in {"done", "blocked"}
      /\ todo' = todo \ {t} /\ ready' = ready \cup {t} /\ lapse' = lapse \cup {<<"skipped", t>>}
      /\ UNCHANGED <<bound, task, git, stash, pc, round, sweep, failed, sweeps, queue, passed, faults>>
  BY DEF SkipChain, MayStart, Idles, spine, repo, chain
<1>2. pc[t] = "idle" /\ t \notin ready /\ t \notin queue
  BY <1>1 DEF PipelineInv, Scheduled, Due, Waiting
<1>3. Recorded /\ ready \ {t} \subseteq ready' /\ ready' \subseteq ready \cup {t}
  BY <1>1 DEF Recorded
<1>4. Sound(t, task[t], git[t], "idle", round[t], t \in ready', Suffered(t, lapse'), passed', bound)
  <2>1. Sound(t, task[t], git[t], "idle", round[t], t \in ready, Suffered(t, lapse), passed, bound)
    BY <1>2 DEF PipelineInv, Soundness
  <2>2. Sound(t, task[t], git[t], "idle", round[t], t \in ready, Suffered(t, lapse'), passed', bound)
    BY <1>1, <1>3, <2>1, SoundStays, SufferedStays
  <2>3. "skipped" \in Suffered(t, lapse')
    BY <1>1 DEF Suffered, Lapses
  <2>4. QED
    BY <2>2, <2>3, ChainMoves
<1>5. /\ task' = [task EXCEPT ![t] = task[t]] /\ git' = [git EXCEPT ![t] = git[t]]
      /\ round' = [round EXCEPT ![t] = round[t]] /\ pc' = [pc EXCEPT ![t] = "idle"] /\ bound' = bound
  BY <1>1, <1>2 DEF PipelineInv, TypeOK
<1>6. /\ Soundness'
      /\ task' \in [Tasks -> Task] /\ git' \in [Tasks -> Repository]
      /\ pc' \in [Tasks -> Stages] /\ round' \in [Tasks -> 0..MaxRounds]
  BY <1>3, <1>4, <1>5, OneTask DEF PipelineInv
<1>7. lapse' \subseteq Lapses \X Tasks
  <2>1. <<"skipped", t>> \in Lapses \X Tasks
    BY DEF Lapses
  <2>2. QED
    BY <1>1, <2>1 DEF PipelineInv, TypeOK
<1>8. TypeOK'
  BY <1>1, <1>6, <1>7 DEF PipelineInv, TypeOK
<1>9. Scheduled'
  BY <1>1, <1>2 DEF PipelineInv, Scheduled
<1>10. ProbesAlone'
  BY <1>1, <1>3 DEF PipelineInv, ProbesAlone, Recorded
<1>11. QED
  BY <1>6, <1>8, <1>9, <1>10 DEF PipelineInv

\* The host goes down: every chain ends where it is.
LEMMA CrashStep ==
  ASSUME PipelineInv, Crash
  PROVE  PipelineInv'
<1>1. /\ Suffers("crash") /\ sweep' = "off" /\ todo' = {} /\ ready' = {}
      /\ pc' = [t \in Tasks |-> "idle"] /\ round' = [t \in Tasks |-> 0]
      /\ lapse' = lapse \cup {<<"torn", t>> : t \in {u \in Tasks : pc[u] \in {"teardown", "merged"}}}
      /\ UNCHANGED <<bound, task, git, stash, failed, sweeps, queue, passed>>
  BY DEF Crash, spine, repo
<1>2. faults' \in 0..MaxFaults /\ lapse' \subseteq Lapses \X Tasks
  <2>1. faults \in 0..MaxFaults /\ lapse \subseteq Lapses \X Tasks
    BY DEF PipelineInv, TypeOK, Lapses
  <2>2. \A t \in Tasks : <<"torn", t>> \in Lapses \X Tasks
    BY DEF Lapses
  <2>3. QED
    BY <1>1, <2>1, <2>2, PipelineAssumption DEF Suffers
<1>3. TypeOK'
  BY <1>1, <1>2, PipelineAssumption DEF PipelineInv, TypeOK, Lapses, Stages
<1>4. Soundness'
  <2>1. \A t \in Tasks : Sound(t, task'[t], git'[t], pc'[t], round'[t], t \in ready',
                               Suffered(t, lapse'), passed', bound')
    <3> SUFFICES ASSUME NEW t \in Tasks
                 PROVE  Sound(t, task'[t], git'[t], pc'[t], round'[t], t \in ready',
                              Suffered(t, lapse'), passed', bound')
      OBVIOUS
    <3>1. Sound(t, task[t], git[t], pc[t], round[t], t \in ready, Suffered(t, lapse), passed, bound)
      BY DEF PipelineInv, Soundness
    <3>2. Suffered(t, lapse) \subseteq Suffered(t, lapse')
      BY <1>1 DEF Suffered
    <3>3. pc[t] \in {"teardown", "merged"} => "torn" \in Suffered(t, lapse')
      BY <1>1 DEF Suffered, Lapses
    <3>4. Sound(t, task[t], git[t], "idle", 0, t \in ready', Suffered(t, lapse'), passed, bound)
      BY <1>1, <3>1, <3>2, <3>3, ChainEnds
    <3>5. QED
      BY <1>1, <3>4
  <2>2. QED
    BY <2>1 DEF Soundness
<1>5. Scheduled' /\ ProbesAlone'
  BY <1>1 DEF PipelineInv, Scheduled, ProbesAlone
<1>6. QED
  BY <1>3, <1>4, <1>5 DEF PipelineInv

-----------------------------------------------------------------------------
(* The invariant.                                                          *)

LEMMA InitSound == Init => PipelineInv
<1> SUFFICES ASSUME Init PROVE PipelineInv
  OBVIOUS
<1>1. Imported \in Task
  BY DEF Imported, Task, Rank
<1>2. /\ Untouched \in Repository /\ Untouched.prs = <<>> /\ Untouched.merged = <<>>
      /\ ~Untouched.dir /\ Untouched.local = <<>> /\ Untouched.remote = <<>>
  <2>1. Base \in Content /\ 0 \in 0..MaxRev
    BY PipelineAssumption DEF Content
  <2>2. <<>> \in Seq(Content) /\ <<>> \in Seq({"open", "merged"})
    BY EmptySeq
  <2>3. QED
    BY <2>1, <2>2 DEF Untouched, Repository
<1>3. TypeOK
  BY <1>1, <1>2, EmptySeq, PipelineAssumption DEF Init, TypeOK, Stages
<1>4. ASSUME NEW t \in Tasks, NEW q, ~q, NEW k, NEW s, NEW b
      PROVE  Sound(t, Imported, Untouched, "idle", 0, q, k, s, b)
  <2> DEFINE g == Untouched
             r == Imported
  <2>1. /\ r \in Task /\ r.stage = "selected" /\ r.state = "specd" /\ r.verdict = "none"
        /\ ~r.worktree /\ r.pr = 0
    BY <1>1 DEF Imported
  <2>2. /\ g \in Repository /\ g.prs = <<>> /\ g.merged = <<>> /\ ~g.dir
        /\ g.local = <<>> /\ g.remote = <<>>
    BY <1>2
  <2> HIDE DEF g, r
  <2>3. Typed(r, g, "idle", 0) /\ Rounds(r, "idle", 0, b) /\ HasWorktree(r, g, "idle")
    BY <2>1, <2>2, PipelineAssumption
       DEF Typed, Rounds, HasWorktree, Stages, FromPropen, FromReviewed, InWorktree
  <2>4. Requests(r, g, "idle", 0, q, k) /\ Commits(r, g, "idle", 0, k)
    BY <1>4, <2>1, <2>2, EmptyRange
       DEF Requests, Commits, Landed, FromPropen, FromReviewed, FromCommitted, AfterPropen, AfterLocal
  <2>5. Delivers(r, g, "idle", k) /\ Synced(r, g, "idle", q, k)
    BY <1>4, <2>1, <2>2 DEF Delivers, Synced, FromPropen, FromReviewed, FromCommitted, AfterPush
  <2>6. Judged(r, g, "idle", q, k, s, b) /\ Own(t, g, k)
    BY <1>4, <2>1, <2>2, EmptyRange DEF Judged, Own, FromReviewed
  <2>7. QED
    BY <2>3, <2>4, <2>5, <2>6 DEF Sound, g, r
<1>5. Soundness
  <2> SUFFICES ASSUME NEW t \in Tasks
               PROVE  Sound(t, task[t], git[t], pc[t], round[t], t \in ready,
                            Suffered(t, lapse), passed, bound)
    BY DEF Soundness
  <2>1. /\ task[t] = Imported /\ git[t] = Untouched /\ pc[t] = "idle" /\ round[t] = 0
        /\ t \notin ready
    BY DEF Init
  <2>2. QED
    BY <1>4, <2>1
<1>6. Scheduled /\ ProbesAlone
  BY DEF Init, Scheduled, ProbesAlone, Imported
<1>7. QED
  BY <1>3, <1>5, <1>6 DEF PipelineInv

LEMMA StageSteps ==
  ASSUME PipelineInv, NEW t \in Tasks, Stage(t)
  PROVE  PipelineInv'
BY BranchSteps, PlanSteps, WorkSteps, ProbeStep, ProbeEnds, CommitSteps, PushSteps, PrSteps,
   ReviewPassStep, ReviewOtherSteps, RewindStep, EvidenceSteps, MergeSteps, ReviewAlreadyStep DEF Stage

LEMMA NextSound == PipelineInv /\ [Next]_vars => PipelineInv'
<1> SUFFICES ASSUME PipelineInv, [Next]_vars PROVE PipelineInv'
  OBVIOUS
<1>1. CASE \E mode \in Modes : StartSweep(mode)
  BY <1>1, SweepSteps
<1>2. CASE DriverStep
  BY <1>2, SweepSteps, ChainSteps, SkipStep, StageSteps DEF DriverStep
<1>3. CASE Human
  BY <1>3, HumanSteps, MovingSteps DEF Human
<1>4. CASE Crash
  BY <1>4, CrashStep
<1>5. CASE \E t \in Tasks : Vanish(t)
  BY <1>5, VanishStep
<1>6. CASE UNCHANGED vars
  BY <1>6 DEF vars, spine, repo, chain, driver, history, PipelineInv, TypeOK, Soundness,
              Scheduled, ProbesAlone
<1>7. QED
  BY <1>1, <1>2, <1>3, <1>4, <1>5, <1>6 DEF Next

\* The invariant holds at every step of every sweep, whatever the faults.
THEOREM PipelineInvariant == Spec => []PipelineInv
<1>1. QED
  BY InitSound, NextSound, PTL DEF Spec

-----------------------------------------------------------------------------
(* What the runs check, for every value of the constants.                  *)

\* Every variable keeps its type.
THEOREM PipelineTypeCorrect == Spec => []TypeOK
<1>1. PipelineInv => TypeOK
  BY DEF PipelineInv
<1>2. QED
  BY <1>1, PipelineInvariant, PTL

\* The stage a sweep resumes from tells the truth about git and GitHub.
THEOREM StagesAreHonest == Spec => []StageIsHonest
<1>1. ASSUME PipelineInv PROVE StageIsHonest
  <2> SUFFICES ASSUME NEW t \in Tasks
               PROVE  /\ StageDone(t, "committed") /\ task[t].worktree /\ git[t].dir =>
                            git[t].local # <<>> \/ <<"torn", t>> \in lapse
                      /\ StageDone(t, "propen") =>
                            task[t].pr \in DOMAIN git[t].prs \/ <<"unnamed", t>> \in lapse
                      /\ task[t].state = "done" => git[t].merged # <<>> \/ <<"done", t>> \in lapse
    BY DEF StageIsHonest
  <2>1. /\ task[t] \in Task /\ git[t].prs \in Seq({"open", "merged"})
        /\ Sound(t, task[t], git[t], pc[t], round[t], t \in ready, Suffered(t, lapse), passed, bound)
    BY <1>1 DEF PipelineInv, TypeOK, Soundness, Repository
  <2>2. /\ StageDone(t, "committed") <=> task[t].stage \in FromCommitted
        /\ StageDone(t, "propen") <=> task[t].stage \in FromPropen
    BY <2>1, StagesInOrder
  <2>3. StageDone(t, "committed") /\ task[t].worktree /\ git[t].dir =>
           git[t].local # <<>> \/ <<"torn", t>> \in lapse
    BY <2>1, <2>2 DEF Sound, HasWorktree, Commits, Suffered
  <2>4. StageDone(t, "propen") => task[t].pr \in DOMAIN git[t].prs \/ <<"unnamed", t>> \in lapse
    BY <2>1, <2>2, LastIsIn DEF Sound, Requests, Named, Suffered
  <2>5. task[t].state = "done" => git[t].merged # <<>> \/ <<"done", t>> \in lapse
    BY <2>1 DEF Sound, Delivers, Suffered
  <2>6. QED
    BY <2>3, <2>4, <2>5
<1>2. QED
  BY <1>1, PipelineInvariant, PTL

\* What is squashed onto the base branch is what a reviewer has passed.
THEOREM MergedWorkIsReviewed == Spec => []MergedIsReviewed
<1>1. ASSUME PipelineInv PROVE MergedIsReviewed
  <2> SUFFICES ASSUME ReviewRequired, NEW t \in Tasks
               PROVE  \/ Range(git[t].merged) \subseteq passed
                      \/ lapse \cap ({"push", "commit", "reader", "skipped"} \X {t}) # {}
    BY DEF MergedIsReviewed
  <2>1. Range(git[t].merged) \subseteq passed \/ Excused(Suffered(t, lapse))
    BY <1>1 DEF PipelineInv, Soundness, Sound, Judged
  <2>2. Excused(Suffered(t, lapse)) => lapse \cap ({"push", "commit", "reader", "skipped"} \X {t}) # {}
    <3> SUFFICES ASSUME NEW kind \in {"push", "commit", "reader", "skipped"}, <<kind, t>> \in lapse
                 PROVE  lapse \cap ({"push", "commit", "reader", "skipped"} \X {t}) # {}
      BY DEF Excused, Suffered
    <3>1. <<kind, t>> \in {"push", "commit", "reader", "skipped"} \X {t}
      OBVIOUS
    <3>2. QED
      BY <3>1
  <2>3. QED
    BY <2>1, <2>2
<1>2. QED
  BY <1>1, PipelineInvariant, PTL

\* A task is merged once, unless it was re-opened or its merge was torn by a crash.
THEOREM TasksAreMergedOnce == Spec => []MergedOnce
<1>1. ASSUME PipelineInv PROVE MergedOnce
  <2> SUFFICES ASSUME NEW t \in Tasks, Len(git[t].merged) > 1
               PROVE  lapse \cap ({"torn", "reopened"} \X {t}) # {}
    BY DEF MergedOnce
  <2>1. Again(Suffered(t, lapse))
    BY <1>1 DEF PipelineInv, Soundness, Sound, Delivers
  <2>2. PICK kind \in {"torn", "reopened"} : <<kind, t>> \in lapse
    BY <2>1 DEF Again, Suffered
  <2>3. <<kind, t>> \in {"torn", "reopened"} \X {t}
    OBVIOUS
  <2>4. QED
    BY <2>2, <2>3
<1>2. QED
  BY <1>1, PipelineInvariant, PTL

\* A branch holds no work of another task, unless two probes overlapped.
THEOREM BranchesHoldTheirOwn == Spec => []NoWorkOfOthersUnlessProbed
<1>1. ASSUME PipelineInv PROVE NoWorkOfOthersUnlessProbed
  BY <1>1 DEF PipelineInv, Soundness, Sound, Own, Suffered, NoWorkOfOthersUnlessProbed, Work
<1>2. QED
  BY <1>1, PipelineInvariant, PTL

\* What a sweep is through with is done and merged, or counted as blocked and parked.
THEOREM SweepsSettle == Spec => []SweepSettles
<1>1. ASSUME PipelineInv PROVE SweepSettles
  <2> SUFFICES ASSUME NEW t \in queue, sweep # "off", pc[t] = "idle", t \notin todo \cup ready
               PROVE  \/ task[t].state = "done" /\ git[t].merged # <<>>
                      \/ t \in failed /\ (task[t].state = "blocked" \/ sweep = "parallel")
    BY DEF SweepSettles
  <2>1. t \in Tasks
    BY <1>1 DEF PipelineInv, TypeOK
  <2>2. Settled(task[t], git[t], t \in failed, sweep)
    BY <1>1, <2>1 DEF PipelineInv, Scheduled
  <2>3. QED
    BY <2>2 DEF Settled
<1>2. QED
  BY <1>1, PipelineInvariant, PTL
=============================================================================
