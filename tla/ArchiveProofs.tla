----------------------------- MODULE ArchiveProofs -----------------------------
(***************************************************************************)
(* Proofs about Archive, for any tasks, archives and bounds.               *)
(***************************************************************************)
EXTENDS Archive, SequenceTheorems, FiniteSetTheorems, TLAPS

-----------------------------------------------------------------------------
(* Sequences made of sets.                                                 *)

\* The first n numbers.
LEMMA UpTo ==
  ASSUME NEW n \in Nat
  PROVE  IsFiniteSet(1..n) /\ Cardinality(1..n) = n
<1>1. 1 \in Int /\ n \in Int
  OBVIOUS
<1>2. IsFiniteSet(1..n) /\ Cardinality(1..n) = IF 1 > n THEN 0 ELSE n - 1 + 1
  BY <1>1, FS_Interval
<1>3. QED
  BY <1>2

LEMMA SetAsSequence ==
  ASSUME NEW S, IsFiniteSet(S)
  PROVE  /\ SetToSeq(S) \in Seq(S) /\ Range(SetToSeq(S)) = S
         /\ IsInjective(SetToSeq(S)) /\ Len(SetToSeq(S)) = Cardinality(S)
<1> DEFINE n == Cardinality(S)
           f == SetToSeq(S)
<1>1. n \in Nat /\ ExistsBijection(1..n, S)
  BY FS_CardinalityType
<1>2. \E g \in [1..n -> S] : IsInjective(g)
  BY <1>1 DEF ExistsBijection, Bijection, Injection
<1>3. f \in [1..n -> S] /\ IsInjective(f)
  BY <1>2 DEF SetToSeq
<1>4. f \in Injection(1..n, S)
  BY <1>3 DEF Injection
<1>5. IsFiniteSet(1..n) /\ Cardinality(1..n) = n
  BY <1>1, UpTo
<1>6. f \in Surjection(1..n, S)
  BY <1>4, <1>5, FS_Injection
<1>7. Range(f) = S
  BY <1>3, <1>6 DEF Surjection, Range
<1>8. f \in Seq(S) /\ Len(f) = n
  BY <1>1, <1>3
<1>9. QED
  BY <1>3, <1>7, <1>8

LEMMA ConcatRange ==
  ASSUME NEW S, NEW s \in Seq(S), NEW t \in Seq(S)
  PROVE  /\ s \o t \in Seq(S) /\ Range(s \o t) = Range(s) \cup Range(t)
         /\ IsInjective(s) /\ IsInjective(t) /\ Range(s) \cap Range(t) = {} => IsInjective(s \o t)
<1>1. /\ s \o t \in Seq(S) /\ Len(s \o t) = Len(s) + Len(t)
      /\ \A i \in 1..Len(s) + Len(t) : (s \o t)[i] = IF i <= Len(s) THEN s[i] ELSE t[i - Len(s)]
  BY ConcatProperties
<1>2. /\ DOMAIN s = 1..Len(s) /\ DOMAIN t = 1..Len(t) /\ DOMAIN (s \o t) = 1..(Len(s) + Len(t))
      /\ Len(s) \in Nat /\ Len(t) \in Nat
  BY <1>1, LenProperties
<1>3. \A i \in DOMAIN s : i \in DOMAIN (s \o t) /\ (s \o t)[i] = s[i]
  BY <1>1, <1>2
<1>4. \A i \in DOMAIN t : Len(s) + i \in DOMAIN (s \o t) /\ (s \o t)[Len(s) + i] = t[i]
  BY <1>1, <1>2
<1>5. \A i \in DOMAIN (s \o t) : \/ i \in DOMAIN s /\ (s \o t)[i] = s[i]
                                 \/ /\ i - Len(s) \in DOMAIN t
                                    /\ (s \o t)[i] = t[i - Len(s)]
  BY <1>1, <1>2
<1>6. Range(s \o t) \subseteq Range(s) \cup Range(t)
  BY <1>5 DEF Range
<1>7. Range(s) \cup Range(t) \subseteq Range(s \o t)
  BY <1>3, <1>4 DEF Range
<1>8. ASSUME IsInjective(s), IsInjective(t), Range(s) \cap Range(t) = {}
      PROVE  IsInjective(s \o t)
  <2> SUFFICES ASSUME NEW i \in DOMAIN (s \o t), NEW j \in DOMAIN (s \o t),
                      (s \o t)[i] = (s \o t)[j]
               PROVE  i = j
    BY DEF IsInjective
  <2>1. CASE i \in DOMAIN s /\ j \in DOMAIN s
    BY <1>3, <1>8, <2>1 DEF IsInjective
  <2>2. CASE i \notin DOMAIN s /\ j \notin DOMAIN s
    <3>1. i - Len(s) = j - Len(s)
      BY <1>5, <1>8, <2>2 DEF IsInjective
    <3>2. QED
      BY <1>2, <3>1
  <2>3. CASE i \in DOMAIN s /\ j \notin DOMAIN s
    <3>1. (s \o t)[i] \in Range(s) /\ (s \o t)[j] \in Range(t)
      BY <1>3, <1>5, <2>3 DEF Range
    <3>2. QED
      BY <1>8, <3>1
  <2>4. CASE i \notin DOMAIN s /\ j \in DOMAIN s
    <3>1. (s \o t)[j] \in Range(s) /\ (s \o t)[i] \in Range(t)
      BY <1>3, <1>5, <2>4 DEF Range
    <3>2. QED
      BY <1>8, <3>1
  <2>5. QED
    BY <2>1, <2>2, <2>3, <2>4
<1>9. QED
  BY <1>1, <1>6, <1>7, <1>8

\* A sequence without repetitions is as long as its set of elements is large.
LEMMA InjectiveLength ==
  ASSUME NEW S, NEW s \in Seq(S), IsInjective(s)
  PROVE  Cardinality(Range(s)) = Len(s)
<1>1. s \in Bijection(1..Len(s), Range(s)) /\ Len(s) \in Nat
  BY LenProperties DEF Range, Bijection, Injection, Surjection
<1>2. IsFiniteSet(1..Len(s)) /\ Cardinality(1..Len(s)) = Len(s)
  <2>1. Len(s) \in Nat
    BY <1>1
  <2>2. QED
    BY <2>1, UpTo
<1>3. ExistsBijection(1..Len(s), Range(s))
  BY <1>1 DEF ExistsBijection
<1> DEFINE D == 1..Len(s)
           R == Range(s)
<1>4. IsFiniteSet(D) /\ Cardinality(D) = Len(s) /\ ExistsBijection(D, R)
  BY <1>2, <1>3
<1> HIDE DEF D, R
<1>5. Cardinality(R) = Len(s)
  BY <1>4, FS_Bijection
<1>6. QED
  BY <1>5 DEF R

-----------------------------------------------------------------------------
(* Types.                                                                  *)

LEMMA OffIsAnArchive == Off \in Archive
BY DEF Off, Archive

LEMMA InitTypes == Init => TypeOK
BY OffIsAnArchive, ArchiveAssumption DEF Init, TypeOK, NoRecord, Off

\* An archive that becomes `c`.
LEMMA ArchiveBecomes ==
  ASSUME TypeOK, NEW a \in Archives, NEW c \in Archive, proc' = [proc EXCEPT ![a] = c],
         c.go \cup c.stay \subseteq DOMAIN about'
  PROVE  /\ proc' \in [Archives -> Archive] /\ proc'[a] = c
         /\ \A b \in Archives \ {a} : proc'[b] = proc[b]
         /\ DOMAIN about \subseteq DOMAIN about' =>
               \A b \in Archives : proc'[b].go \cup proc'[b].stay \subseteq DOMAIN about'
BY DEF TypeOK

\* A logged event.
LEMMA EmitTypes ==
  ASSUME TypeOK, NEW t \in Tasks \cup {NoTask}, Emit(t), Len(about) < MaxEvents
  PROVE  /\ about' \in Seq(Tasks \cup {NoTask}) /\ Len(about') <= MaxEvents
         /\ Len(about) + 1 \notin DOMAIN about
         /\ DOMAIN about' = DOMAIN about \cup {Len(about) + 1}
         /\ log' = log \cup {Len(about) + 1} /\ log' \subseteq DOMAIN about'
         /\ missed' \in {missed, missed \cup {Len(about) + 1}} /\ missed' \subseteq DOMAIN about'
         /\ cold \in Seq(DOMAIN about')
<1>1. /\ about' = Append(about, t) /\ log' = log \cup {Len(about) + 1}
      /\ missed' \in {missed, missed \cup {Len(about) + 1}}
  BY DEF Emit
<1>2. /\ about' \in Seq(Tasks \cup {NoTask}) /\ Len(about') = Len(about) + 1
      /\ Len(about) \in Nat
  BY <1>1, AppendProperties, LenProperties DEF TypeOK
<1>3. DOMAIN about = 1..Len(about) /\ DOMAIN about' = 1..(Len(about) + 1)
  BY <1>2, LenProperties DEF TypeOK
<1>4. DOMAIN about' = DOMAIN about \cup {Len(about) + 1} /\ Len(about) + 1 \notin DOMAIN about
  BY <1>2, <1>3
<1>5. cold \in Seq(DOMAIN about')
  <2>1. cold \in [1..Len(cold) -> DOMAIN about] /\ Len(cold) \in Nat
    BY LenProperties DEF TypeOK
  <2>2. cold \in [1..Len(cold) -> DOMAIN about']
    BY <1>4, <2>1
  <2>3. QED
    BY <2>1, <2>2
<1>6. QED
  BY <1>1, <1>2, <1>4, <1>5, ArchiveAssumption DEF TypeOK

\* The events an archive moves or leaves, as finite sets.
LEMMA EventsFinite ==
  ASSUME TypeOK, NEW a \in Archives
  PROVE  IsFiniteSet(proc[a].go) /\ SetToSeq(proc[a].go) \in Seq(DOMAIN about)
<1>1. IsFiniteSet(DOMAIN about)
  <2>1. DOMAIN about = 1..Len(about) /\ Len(about) \in Nat
    BY LenProperties DEF TypeOK
  <2>2. IsFiniteSet(1..Len(about))
    BY <2>1, UpTo
  <2>3. QED
    BY <2>1, <2>2
<1>2. proc[a].go \subseteq DOMAIN about /\ IsFiniteSet(proc[a].go)
  BY <1>1, FS_Subset DEF TypeOK
<1>3. SetToSeq(proc[a].go) \in Seq(proc[a].go)
  BY <1>2, SetAsSequence
<1>4. QED
  BY <1>2, <1>3

LEMMA UpsertTypes ==
  ASSUME TypeOK, NEW r \in Records, Upsert(r), Len(about) < MaxEvents
  PROVE  /\ live' \subseteq Records /\ \A x, y \in live' : x.id = y.id => x = y
         /\ newest' \in [Tasks -> Records \cup {NoRecord}] /\ raced' \subseteq Tasks
         /\ about' \in Seq(Tasks \cup {NoTask}) /\ Len(about') <= MaxEvents
         /\ DOMAIN about \subseteq DOMAIN about' /\ log' \subseteq DOMAIN about'
         /\ missed' \subseteq DOMAIN about' /\ cold \in Seq(DOMAIN about')
<1>1. r.id \in Tasks
  BY DEF Records
<1>2. /\ about' \in Seq(Tasks \cup {NoTask}) /\ Len(about') <= MaxEvents
      /\ DOMAIN about \subseteq DOMAIN about' /\ log' \subseteq DOMAIN about'
      /\ missed' \subseteq DOMAIN about' /\ cold \in Seq(DOMAIN about')
  BY <1>1, EmitTypes DEF Upsert
<1>3. live' \subseteq Records /\ \A x, y \in live' : x.id = y.id => x = y
  BY DEF Upsert, TypeOK
<1>4. newest' \in [Tasks -> Records \cup {NoRecord}] /\ raced' \subseteq Tasks
  BY <1>1 DEF Upsert, TypeOK
<1>5. QED
  BY <1>2, <1>3, <1>4

\* A step that writes neither tasks nor events.
LEMMA TypesKept ==
  ASSUME TypeOK, UNCHANGED <<live, about, newest, raced, missed>>,
         log' \subseteq DOMAIN about, cold' \in Seq(DOMAIN about),
         shelf' \in [ok : BOOLEAN, items : SUBSET Records],
         proc' \in [Archives -> Archive],
         \A b \in Archives : proc'[b].go \cup proc'[b].stay \subseteq DOMAIN about',
         cmd' \in {r \in Records : r.rev < MaxRev} \cup {NoRecord}, kills' \in 0..MaxKills,
         lapse' \subseteq {"overlap", "torn", "killed", "added", "resurrected"}
  PROVE  TypeOK'
BY DEF TypeOK

LEMMA NextTypes == TypeOK /\ [Next]_vars => TypeOK'
<1> SUFFICES ASSUME TypeOK, [Next]_vars PROVE TypeOK'
  OBVIOUS
<1>1. ASSUME NEW a \in Archives, Start(a) PROVE TypeOK'
  <2> DEFINE c == [Off EXCEPT !.at = "shelf", !.move = PlanArchive(live)]
  <2>1. PlanArchive(live) \subseteq Records
    BY DEF PlanArchive, TypeOK
  <2>2. c \in Archive /\ c.go = {} /\ c.stay = {} /\ proc' = [proc EXCEPT ![a] = c]
    BY <1>1, <2>1 DEF Start, Off, Archive
  <2> HIDE DEF c
  <2>3. /\ proc' \in [Archives -> Archive]
        /\ \A b \in Archives : proc'[b].go \cup proc'[b].stay \subseteq DOMAIN about'
    BY <1>1, <2>2, ArchiveBecomes DEF Start
  <2>4. lapse' \in {lapse, lapse \cup {"overlap"}} /\ UNCHANGED <<spine, cmd, about, newest, kills, raced, missed>>
    BY <1>1 DEF Start
  <2>5. QED
    BY <2>3, <2>4 DEF TypeOK, spine
<1>2. ASSUME NEW a \in Archives, ReadShelf(a) PROVE TypeOK'
  <2> DEFINE c == IF shelf.ok THEN [proc[a] EXCEPT !.at = "store", !.prior = shelf.items] ELSE Off
  <2>1. c \in Archive /\ c.go \cup c.stay \subseteq DOMAIN about
    BY OffIsAnArchive DEF TypeOK, Archive, Off
  <2>2. proc' = [proc EXCEPT ![a] = c] /\ UNCHANGED <<spine, cmd, history>>
    BY <1>2 DEF ReadShelf
  <2> HIDE DEF c
  <2>3. /\ proc' \in [Archives -> Archive]
        /\ \A b \in Archives : proc'[b].go \cup proc'[b].stay \subseteq DOMAIN about'
    BY <2>1, <2>2, ArchiveBecomes DEF history
  <2>4. QED
    BY <2>2, <2>3 DEF TypeOK, spine, history
<1>3. ASSUME NEW a \in Archives, NEW at \in {"log", "rewrite", "shrink"}, Now(a, at),
             UNCHANGED about
      PROVE  /\ proc' \in [Archives -> Archive]
             /\ \A b \in Archives : proc'[b].go \cup proc'[b].stay \subseteq DOMAIN about'
  <2> DEFINE c == [proc[a] EXCEPT !.at = at]
  <2>1. proc[a] \in Archive /\ proc[a].go \cup proc[a].stay \subseteq DOMAIN about
    BY DEF TypeOK
  <2>2. c \in Archive /\ c.go = proc[a].go /\ c.stay = proc[a].stay
    BY <2>1 DEF Archive
  <2>3. proc' = [proc EXCEPT ![a] = c]
    BY <1>3 DEF Now
  <2> HIDE DEF c
  <2>4. QED
    BY <1>3, <2>1, <2>2, <2>3, ArchiveBecomes
<1>4. ASSUME NEW a \in Archives, Shelve(a) PROVE TypeOK'
  <2>1. shelf' \in [ok : BOOLEAN, items : SUBSET Records]
    BY <1>4 DEF Shelve, TypeOK, Archive
  <2>2. Now(a, "log") /\ UNCHANGED <<live, log, cold, cmd, history>>
    BY <1>4 DEF Shelve
  <2>3. QED
    BY <1>3, <2>1, <2>2 DEF TypeOK, history
<1>5. ASSUME NEW a \in Archives, Split(a) PROVE TypeOK'
  <2> DEFINE go == {n \in log : about[n] \in Ids(proc[a].move)}
             c == [proc[a] EXCEPT !.at = "append", !.go = go, !.stay = log \ go]
  <2>1. log \subseteq Nat
    BY LenProperties DEF TypeOK
  <2>2. proc' = [proc EXCEPT ![a] = c] /\ UNCHANGED <<spine, cmd, history>>
    BY <1>5 DEF Split
  <2>3. c \in Archive /\ c.go \cup c.stay \subseteq DOMAIN about
    <3>1. proc[a] \in Archive /\ go \subseteq log /\ log \subseteq DOMAIN about
      BY DEF TypeOK
    <3> HIDE DEF go
    <3>2. QED
      BY <2>1, <3>1 DEF Archive
  <2> HIDE DEF c
  <2>4. /\ proc' \in [Archives -> Archive]
        /\ \A b \in Archives : proc'[b].go \cup proc'[b].stay \subseteq DOMAIN about'
    BY <2>2, <2>3, ArchiveBecomes DEF history
  <2> HIDE DEF go
  <2>5. QED
    BY <2>2, <2>4, TypesKept DEF TypeOK, spine, history
<1>6. ASSUME NEW a \in Archives, AppendEvents(a) PROVE TypeOK'
  <2>1. cold' \in Seq(DOMAIN about)
    BY <1>6, EventsFinite, ConcatProperties DEF AppendEvents, TypeOK
  <2>2. Now(a, "rewrite") /\ UNCHANGED <<live, log, shelf, cmd, history>>
    BY <1>6 DEF AppendEvents
  <2>3. QED
    BY <1>3, <2>1, <2>2 DEF TypeOK, history
<1>7. ASSUME NEW a \in Archives, RewriteLog(a) PROVE TypeOK'
  <2>1. log' \subseteq DOMAIN about
    BY <1>7 DEF RewriteLog, TypeOK
  <2>2. Now(a, "shrink") /\ UNCHANGED <<live, shelf, cold, cmd, history>>
    BY <1>7 DEF RewriteLog
  <2>3. QED
    BY <1>3, <2>1, <2>2 DEF TypeOK, history
<1>8. ASSUME NEW a \in Archives, Shrink(a) PROVE TypeOK'
  <2>1. /\ about' \in Seq(Tasks \cup {NoTask}) /\ Len(about') <= MaxEvents
        /\ DOMAIN about \subseteq DOMAIN about' /\ log' \subseteq DOMAIN about'
        /\ missed' \subseteq DOMAIN about' /\ cold \in Seq(DOMAIN about')
    BY <1>8, EmitTypes DEF Shrink
  <2>2. proc' = [proc EXCEPT ![a] = Off] /\ UNCHANGED <<shelf, cold, cmd, newest, kills, raced, lapse>>
    BY <1>8 DEF Shrink
  <2>3. /\ proc' \in [Archives -> Archive]
        /\ \A b \in Archives : proc'[b].go \cup proc'[b].stay \subseteq DOMAIN about'
    BY <2>1, <2>2, OffIsAnArchive, ArchiveBecomes DEF Off
  <2>4. live' \subseteq live
    BY <1>8 DEF Shrink
  <2>5. QED
    BY <2>1, <2>2, <2>3, <2>4 DEF TypeOK
<1>9. ASSUME NEW t \in Tasks, Add(t) PROVE TypeOK'
  <2>1. PICK deps \in SUBSET Ids(live) :
          Upsert([id |-> t, rev |-> 1, released |-> FALSE, after |-> deps])
    BY <1>9 DEF Add
  <2> DEFINE r == [id |-> t, rev |-> 1, released |-> FALSE, after |-> deps]
  <2>2. Ids(live) \subseteq Tasks
    BY DEF Ids, TypeOK, Records
  <2>3. r \in Records /\ Upsert(r) /\ Len(about) < MaxEvents
    BY <1>9, <2>1, <2>2, ArchiveAssumption DEF Records, Add
  <2>4. lapse' \in {lapse, lapse \cup {"added"}} /\ UNCHANGED <<shelf, cold, proc, cmd, kills>>
    BY <1>9 DEF Add
  <2>5. QED
    BY <2>3, <2>4, UpsertTypes DEF TypeOK
<1>10. CASE Read
  BY <1>10 DEF Read, TypeOK, spine, history
<1>11. CASE Write
  <2> DEFINE r == [cmd EXCEPT !.rev = @ + 1, !.released = ~@]
  <2>1. cmd \in Records /\ cmd.rev < MaxRev
    BY <1>11 DEF Write, TypeOK
  <2>2. r \in Records /\ Upsert(r) /\ Len(about) < MaxEvents
    <3>1. cmd.rev \in 1..MaxRev /\ cmd.rev < MaxRev /\ MaxRev \in Nat
      BY <2>1, ArchiveAssumption DEF Records
    <3>2. cmd.rev + 1 \in 1..MaxRev
      BY <3>1
    <3>3. r \in Records
      BY <2>1, <3>2 DEF Records
    <3>4. QED
      BY <1>11, <3>3 DEF Write
  <2>3. /\ lapse' \in {lapse, lapse \cup {"resurrected"}} /\ cmd' = NoRecord
        /\ UNCHANGED <<shelf, cold, proc, kills>>
    BY <1>11 DEF Write
  <2>4. QED
    BY <2>2, <2>3, UpsertTypes DEF TypeOK
<1>12. ASSUME NEW a \in Archives, NEW what \in {"killed", "torn"}, Killed(a, what),
              UNCHANGED <<live, cold, cmd, about, newest, raced, missed>>,
              shelf' \in {shelf, [ok |-> FALSE, items |-> {}]}, log' \subseteq DOMAIN about
       PROVE  TypeOK'
  <2>1. /\ proc' \in [Archives -> Archive]
        /\ \A b \in Archives : proc'[b].go \cup proc'[b].stay \subseteq DOMAIN about'
    BY <1>12, OffIsAnArchive, ArchiveBecomes DEF Killed, Off
  <2>2. kills' \in 0..MaxKills /\ lapse' = lapse \cup {what}
    BY <1>12, ArchiveAssumption DEF Killed, TypeOK
  <2>3. shelf' \in [ok : BOOLEAN, items : SUBSET Records]
    <3>1. shelf \in [ok : BOOLEAN, items : SUBSET Records]
      BY DEF TypeOK
    <3>2. [ok |-> FALSE, items |-> {}] \in [ok : BOOLEAN, items : SUBSET Records]
      OBVIOUS
    <3>3. QED
      BY <1>12, <3>1, <3>2
  <2>4. /\ cold' \in Seq(DOMAIN about) /\ cmd' \in {r \in Records : r.rev < MaxRev} \cup {NoRecord}
        /\ lapse' \subseteq {"overlap", "torn", "killed", "added", "resurrected"}
    BY <1>12, <2>2 DEF TypeOK
  <2>5. QED
    BY <1>12, <2>1, <2>2, <2>3, <2>4, TypesKept
<1>13. ASSUME NEW a \in Archives, Kill(a) \/ KillInShelve(a) \/ KillInRewrite(a) PROVE TypeOK'
  <2>1. CASE Kill(a)
    BY <1>12, <2>1 DEF Kill, spine, TypeOK
  <2>2. CASE KillInShelve(a)
    BY <1>12, <2>2 DEF KillInShelve, TypeOK
  <2>3. CASE KillInRewrite(a)
    BY <1>12, <2>3 DEF KillInRewrite, TypeOK
  <2>4. QED
    BY <1>13, <2>1, <2>2, <2>3
<1>14. CASE UNCHANGED vars
  BY <1>14 DEF vars, spine, history, TypeOK
<1>15. QED
  BY <1>1, <1>2, <1>4, <1>5, <1>6, <1>7, <1>8, <1>9, <1>10, <1>11, <1>13, <1>14
     DEF Next, Archiving

\* Records, events, files and archives keep their types in every reachable state.
THEOREM ArchiveTypeCorrect == Spec => []TypeOK
BY InitTypes, NextTypes, PTL DEF Spec

-----------------------------------------------------------------------------
(* Who runs, and how far.                                                  *)

\* Until two archives overlap, at most one runs.
OneArchiveRuns == "overlap" \in lapse \/ \A a, b \in Running : a = b

LEMMA OneNext == TypeOK /\ OneArchiveRuns /\ [Next]_vars => OneArchiveRuns'
<1> SUFFICES ASSUME TypeOK, OneArchiveRuns, [Next]_vars PROVE OneArchiveRuns'
  OBVIOUS
<1>1. ASSUME NEW a \in Archives, Start(a) PROVE OneArchiveRuns'
  BY <1>1 DEF Start, OneArchiveRuns, Running, TypeOK
<1>2. ASSUME lapse \subseteq lapse', Running' \subseteq Running PROVE OneArchiveRuns'
  BY <1>2 DEF OneArchiveRuns
<1>3. ASSUME NEW a \in Archives, Archiving(a), ~Start(a) PROVE OneArchiveRuns'
  <2>1. lapse' = lapse
    BY <1>3 DEF Archiving, ReadShelf, Shelve, Split, AppendEvents, RewriteLog, Shrink, history
  <2>2. proc[a].at # "off" /\ \A b \in Archives \ {a} : proc'[b] = proc[b]
    BY <1>3 DEF Archiving, ReadShelf, Shelve, Split, AppendEvents, RewriteLog, Shrink, Now, TypeOK
  <2>3. QED
    BY <1>2, <2>1, <2>2 DEF Running
<1>4. ASSUME NEW a \in Archives, Kill(a) \/ KillInShelve(a) \/ KillInRewrite(a)
      PROVE  OneArchiveRuns'
  <2>1. lapse \subseteq lapse' /\ proc' = [proc EXCEPT ![a] = Off]
    BY <1>4 DEF Kill, KillInShelve, KillInRewrite, Killed
  <2>2. Running' \subseteq Running
    BY <2>1 DEF Running, Off, TypeOK
  <2>3. QED
    BY <1>2, <2>1, <2>2
<1>5. ASSUME NEW t \in Tasks, Add(t) PROVE OneArchiveRuns'
  BY <1>2, <1>5 DEF Add, Running
<1>6. CASE Read \/ Write \/ UNCHANGED vars
  BY <1>2, <1>6 DEF Read, Write, Running, vars, history
<1>7. QED
  BY <1>1, <1>3, <1>4, <1>5, <1>6 DEF Next

-----------------------------------------------------------------------------
(* Events.                                                                 *)

\* Every event that counts is in a log, and in the halves that a running archive
\* has made of the live one, as far as it has not written them.
EventsInv ==
    \/ "torn" \in lapse
    \/ /\ DOMAIN about \ missed \subseteq log \cup Range(cold)
       /\ \A a \in Archives :
             /\ proc[a].at = "append" =>
                   DOMAIN about \ missed \subseteq proc[a].stay \cup proc[a].go \cup Range(cold)
             /\ proc[a].at = "rewrite" =>
                   DOMAIN about \ missed \subseteq proc[a].stay \cup Range(cold)

\* A step that logs an event, and does not lead an archive to its writes.
LEMMA EventsEmit ==
  ASSUME TypeOK, EventsInv, NEW t \in Tasks \cup {NoTask}, Emit(t), Len(about) < MaxEvents,
         UNCHANGED cold, lapse \subseteq lapse',
         \A a \in Archives : proc'[a] = proc[a] \/ proc'[a] = Off
  PROVE  EventsInv'
<1> DEFINE n == Len(about) + 1
<1>1. /\ DOMAIN about' = DOMAIN about \cup {n} /\ log' = log \cup {n}
      /\ missed' \in {missed, missed \cup {n}}
  BY EmitTypes
<1>2. (\E a \in Archives : proc[a].at \in {"append", "rewrite"}) => n \in missed'
  BY DEF Emit
<1> HIDE DEF n
<1>3. CASE "torn" \in lapse
  BY <1>3 DEF EventsInv
<1>4. CASE "torn" \notin lapse
  <2>1. DOMAIN about' \ missed' \subseteq log' \cup Range(cold)
    BY <1>1, <1>4 DEF EventsInv
  <2>2. ASSUME NEW a \in Archives, proc'[a].at \in {"append", "rewrite"}
        PROVE  /\ proc'[a] = proc[a]
               /\ DOMAIN about' \ missed' \subseteq DOMAIN about \ missed
    BY <1>1, <1>2, <2>2 DEF Off
  <2>3. \A a \in Archives :
             /\ proc'[a].at = "append" =>
                   DOMAIN about' \ missed' \subseteq proc'[a].stay \cup proc'[a].go \cup Range(cold)
             /\ proc'[a].at = "rewrite" =>
                   DOMAIN about' \ missed' \subseteq proc'[a].stay \cup Range(cold)
    BY <1>4, <2>2 DEF EventsInv
  <2>4. QED
    BY <2>1, <2>3 DEF EventsInv
<1>5. QED
  BY <1>3, <1>4

\* A step that logs nothing and leads no archive to its writes.
LEMMA EventsStay ==
  ASSUME EventsInv, UNCHANGED <<about, missed, log, cold>>, lapse \subseteq lapse',
         \A a \in Archives : \/ proc'[a] = proc[a]
                             \/ proc'[a].at \notin {"append", "rewrite"}
  PROVE  EventsInv'
BY DEF EventsInv

LEMMA EventsNext == TypeOK /\ EventsInv /\ [Next]_vars => EventsInv'
<1> SUFFICES ASSUME TypeOK, EventsInv, [Next]_vars PROVE EventsInv'
  OBVIOUS
<1>1. ASSUME NEW a \in Archives, Start(a) \/ ReadShelf(a) \/ Shelve(a) PROVE EventsInv'
  <2>1. UNCHANGED <<about, missed, log, cold>> /\ lapse \subseteq lapse'
    BY <1>1 DEF Start, ReadShelf, Shelve, spine, history
  <2>2. /\ \A b \in Archives \ {a} : proc'[b] = proc[b]
        /\ proc'[a].at \notin {"append", "rewrite"}
    <3>1. CASE Start(a)
      BY <3>1 DEF Start, Off, TypeOK
    <3>2. CASE ReadShelf(a)
      BY <3>2 DEF ReadShelf, Off, TypeOK, Archive
    <3>3. CASE Shelve(a)
      BY <3>3 DEF Shelve, Now, TypeOK, Archive
    <3>4. QED
      BY <1>1, <3>1, <3>2, <3>3
  <2>3. QED
    BY <2>1, <2>2, EventsStay
<1>2. ASSUME NEW a \in Archives, Split(a) PROVE EventsInv'
  <2> DEFINE go == {n \in log : about[n] \in Ids(proc[a].move)}
  <2>1. /\ proc'[a] = [proc[a] EXCEPT !.at = "append", !.go = go, !.stay = log \ go]
        /\ \A b \in Archives \ {a} : proc'[b] = proc[b]
        /\ UNCHANGED <<about, missed, log, cold, lapse>>
    BY <1>2 DEF Split, TypeOK, spine, history
  <2>2. proc[a] \in Archive /\ go \subseteq log
    BY DEF TypeOK
  <2> HIDE DEF go
  <2>3. proc'[a].at = "append" /\ proc'[a].stay \cup proc'[a].go = log
    BY <2>1, <2>2 DEF Archive
  <2>4. QED
    BY <2>1, <2>3 DEF EventsInv
<1>3. ASSUME NEW a \in Archives, AppendEvents(a) PROVE EventsInv'
  <2>1. /\ proc[a].at = "append" /\ UNCHANGED <<about, missed, log, lapse>>
        /\ \A b \in Archives \ {a} : proc'[b] = proc[b]
    BY <1>3 DEF AppendEvents, Now, TypeOK, history
  <2>2. proc'[a].at = "rewrite" /\ proc'[a].stay = proc[a].stay
    BY <1>3 DEF AppendEvents, Now, TypeOK, Archive
  <2>3. Range(cold') = Range(cold) \cup proc[a].go
    <3>1. /\ SetToSeq(proc[a].go) \in Seq(DOMAIN about) /\ Range(SetToSeq(proc[a].go)) = proc[a].go
          /\ cold \in Seq(DOMAIN about)
      BY EventsFinite, SetAsSequence DEF TypeOK
    <3>2. Range(cold \o SetToSeq(proc[a].go)) = Range(cold) \cup Range(SetToSeq(proc[a].go))
      BY <3>1, ConcatRange
    <3>3. QED
      BY <1>3, <3>1, <3>2 DEF AppendEvents
  <2>4. QED
    BY <2>1, <2>2, <2>3 DEF EventsInv
<1>4. ASSUME NEW a \in Archives, RewriteLog(a) PROVE EventsInv'
  <2>1. /\ proc[a].at = "rewrite" /\ log' = proc[a].stay
        /\ UNCHANGED <<about, missed, cold, lapse>>
        /\ \A b \in Archives \ {a} : proc'[b] = proc[b]
    BY <1>4 DEF RewriteLog, Now, TypeOK, history
  <2>2. proc'[a].at = "shrink"
    BY <1>4 DEF RewriteLog, Now, TypeOK, Archive
  <2>3. QED
    BY <2>1, <2>2 DEF EventsInv
<1>5. ASSUME NEW a \in Archives, Shrink(a) PROVE EventsInv'
  <2>1. \A b \in Archives : proc'[b] = proc[b] \/ proc'[b] = Off
    BY <1>5 DEF Shrink, TypeOK
  <2>2. QED
    BY <1>5, <2>1, EventsEmit DEF Shrink
<1>6. ASSUME NEW t \in Tasks, Add(t) PROVE EventsInv'
  <2>1. Emit(t) /\ Len(about) < MaxEvents /\ UNCHANGED <<cold, proc>> /\ lapse \subseteq lapse'
    BY <1>6 DEF Add, Upsert
  <2>2. QED
    BY <2>1, EventsEmit
<1>7. CASE Write
  <2>1. cmd.id \in Tasks /\ [cmd EXCEPT !.rev = @ + 1, !.released = ~@].id = cmd.id
    BY <1>7 DEF Write, TypeOK, Records
  <2>2. Emit(cmd.id) /\ Len(about) < MaxEvents /\ UNCHANGED <<cold, proc>> /\ lapse \subseteq lapse'
    BY <1>7, <2>1 DEF Write, Upsert
  <2>3. QED
    BY <2>1, <2>2, EventsEmit
<1>8. ASSUME NEW a \in Archives, Kill(a) PROVE EventsInv'
  <2>1. \A b \in Archives : proc'[b] = proc[b] \/ proc'[b].at = "off"
    BY <1>8 DEF Kill, Killed, Off, TypeOK
  <2>2. QED
    BY <1>8, <2>1, EventsStay DEF Kill, Killed, spine
<1>9. ASSUME NEW a \in Archives, KillInShelve(a) \/ KillInRewrite(a) PROVE EventsInv'
  BY <1>9 DEF KillInShelve, KillInRewrite, Killed, EventsInv
<1>10. CASE Read \/ UNCHANGED vars
  BY <1>10, EventsStay DEF Read, vars, spine, history
<1>11. QED
  BY <1>1, <1>2, <1>3, <1>4, <1>5, <1>6, <1>7, <1>8, <1>9, <1>10 DEF Next, Archiving

\* For any archives at once: no event is deleted but those logged between an archive's
\* read and its rewrite of the log, until a kill tears a file.
THEOREM NoEventIsDeleted == Spec => []EventsKept
<1>1. Init => EventsInv
  BY DEF Init, EventsInv, Off
<1>2. EventsInv => EventsKept
  BY DEF EventsInv, EventsKept
<1>3. QED
  BY <1>1, <1>2, EventsNext, ArchiveTypeCorrect, PTL DEF Spec

-----------------------------------------------------------------------------
(* Every event once.                                                       *)

\* Before the rewrite of the log, no event is in both logs; an archive appends events
\* that are not archived, and rewrites the log to such events.
OnceInv ==
    \/ lapse \cap {"killed", "torn", "overlap"} # {}
    \/ /\ IsInjective(cold)
       /\ \A a \in Archives :
             /\ proc[a].at = "append" => /\ proc[a].go \cap proc[a].stay = {}
                                         /\ (proc[a].go \cup proc[a].stay) \cap Range(cold) = {}
             /\ proc[a].at = "rewrite" => proc[a].stay \cap Range(cold) = {}
       /\ (\A a \in Archives : proc[a].at # "rewrite") => log \cap Range(cold) = {}

\* A step that appends to the log at most an event that was never logged before, and leads
\* no archive to or from its writes.
LEMMA OnceStays ==
  ASSUME TypeOK, OnceInv, UNCHANGED cold, lapse \subseteq lapse',
         log' = log \/ log' = log \cup {Len(about) + 1},
         \A a \in Archives : \/ proc'[a] = proc[a]
                             \/ /\ proc[a].at # "rewrite"
                                /\ proc'[a].at \notin {"append", "rewrite"}
  PROVE  OnceInv'
<1>1. Len(about) + 1 \notin Range(cold)
  <2>1. cold \in Seq(DOMAIN about) /\ about \in Seq(Tasks \cup {NoTask})
    BY DEF TypeOK
  <2>2. Range(cold) \subseteq DOMAIN about
    BY <2>1, LenProperties DEF Range
  <2>3. Len(about) + 1 \notin DOMAIN about
    BY <2>1, LenProperties
  <2>4. QED
    BY <2>2, <2>3
<1>2. log \cap Range(cold) = {} => log' \cap Range(cold) = {}
  BY <1>1
<1>3. (\A a \in Archives : proc'[a].at # "rewrite") => \A a \in Archives : proc[a].at # "rewrite"
  OBVIOUS
<1>4. QED
  BY <1>2, <1>3 DEF OnceInv

LEMMA OnceNext == TypeOK /\ OneArchiveRuns /\ OnceInv /\ [Next]_vars => OnceInv'
<1> SUFFICES ASSUME TypeOK, OneArchiveRuns, OnceInv, [Next]_vars PROVE OnceInv'
  OBVIOUS
<1>1. CASE lapse' \cap {"killed", "torn", "overlap"} # {}
  BY <1>1 DEF OnceInv
<1>2. CASE lapse \cap {"killed", "torn", "overlap"} # {}
  <2>1. lapse \subseteq lapse'
    BY DEF Next, Archiving, Start, ReadShelf, Shelve, Split, AppendEvents, RewriteLog, Shrink, Add,
           Read, Write, Kill, KillInShelve, KillInRewrite, Killed, vars, history
  <2>2. QED
    BY <1>2, <2>1 DEF OnceInv
<1> SUFFICES ASSUME lapse \cap {"killed", "torn", "overlap"} = {},
                    lapse' \cap {"killed", "torn", "overlap"} = {}
             PROVE  OnceInv'
  BY <1>1, <1>2
<1>3. \A a, b \in Running : a = b
  BY DEF OneArchiveRuns
<1>4. ASSUME NEW a \in Archives, Start(a) \/ ReadShelf(a) \/ Shelve(a) PROVE OnceInv'
  <2>1. UNCHANGED <<log, cold>> /\ lapse \subseteq lapse' /\ proc[a].at # "rewrite"
    BY <1>4 DEF Start, ReadShelf, Shelve, Off, spine, history
  <2>2. /\ \A b \in Archives \ {a} : proc'[b] = proc[b]
        /\ proc'[a].at \notin {"append", "rewrite"}
    <3>1. CASE Start(a)
      BY <3>1 DEF Start, Off, TypeOK
    <3>2. CASE ReadShelf(a)
      BY <3>2 DEF ReadShelf, Off, TypeOK, Archive
    <3>3. CASE Shelve(a)
      BY <3>3 DEF Shelve, Now, TypeOK, Archive
    <3>4. QED
      BY <1>4, <3>1, <3>2, <3>3
  <2>3. QED
    BY <2>1, <2>2, OnceStays
<1>5. ASSUME NEW a \in Archives, Split(a) PROVE OnceInv'
  <2> DEFINE go == {n \in log : about[n] \in Ids(proc[a].move)}
  <2>1. /\ proc[a].at = "log"
        /\ proc'[a] = [proc[a] EXCEPT !.at = "append", !.go = go, !.stay = log \ go]
        /\ \A b \in Archives \ {a} : proc'[b] = proc[b]
        /\ UNCHANGED <<log, cold>>
    BY <1>5 DEF Split, TypeOK, spine
  <2>2. \A b \in Archives \ {a} : proc[b].at = "off"
    BY <1>3, <2>1 DEF Running
  <2>3. log \cap Range(cold) = {}
    BY <2>1, <2>2 DEF OnceInv
  <2>4. proc[a] \in Archive /\ go \subseteq log
    BY DEF TypeOK
  <2> HIDE DEF go
  <2>5. proc'[a].at = "append" /\ proc'[a].stay = log \ go /\ proc'[a].go = go
    BY <2>1, <2>4 DEF Archive
  <2>6. \A b \in Archives \ {a} : proc'[b].at = "off"
    BY <2>1, <2>2
  <2>7. IsInjective(cold)
    BY DEF OnceInv
  <2>8. QED
    BY <2>1, <2>3, <2>4, <2>5, <2>6, <2>7 DEF OnceInv
<1>6. ASSUME NEW a \in Archives, AppendEvents(a) PROVE OnceInv'
  <2> DEFINE s == SetToSeq(proc[a].go)
  <2>1. /\ proc[a].at = "append" /\ cold' = cold \o s
        /\ \A b \in Archives \ {a} : proc'[b] = proc[b]
    BY <1>6 DEF AppendEvents, Now, TypeOK
  <2>2. proc'[a].at = "rewrite" /\ proc'[a].stay = proc[a].stay
    BY <1>6 DEF AppendEvents, Now, TypeOK, Archive
  <2>3. /\ s \in Seq(DOMAIN about) /\ Range(s) = proc[a].go /\ IsInjective(s)
        /\ cold \in Seq(DOMAIN about)
    BY EventsFinite, SetAsSequence DEF TypeOK
  <2>4. /\ IsInjective(cold) /\ proc[a].go \cap proc[a].stay = {}
        /\ (proc[a].go \cup proc[a].stay) \cap Range(cold) = {}
    BY <2>1 DEF OnceInv
  <2> HIDE DEF s
  <2>5. IsInjective(cold \o s) /\ Range(cold \o s) = Range(cold) \cup Range(s)
    <3>1. Range(cold) \cap Range(s) = {}
      BY <2>3, <2>4
    <3>2. QED
      BY <2>3, <2>4, <3>1, ConcatRange
  <2>6. proc'[a].stay \cap Range(cold') = {} /\ IsInjective(cold')
    BY <2>1, <2>2, <2>3, <2>4, <2>5
  <2>7. \A b \in Archives \ {a} : proc'[b].at = "off"
    BY <1>3, <2>1 DEF Running
  <2>8. QED
    BY <2>2, <2>6, <2>7 DEF OnceInv
<1>7. ASSUME NEW a \in Archives, RewriteLog(a) PROVE OnceInv'
  <2>1. /\ proc[a].at = "rewrite" /\ log' = proc[a].stay /\ UNCHANGED cold
        /\ \A b \in Archives \ {a} : proc'[b] = proc[b]
    BY <1>7 DEF RewriteLog, Now, TypeOK
  <2>2. proc'[a].at = "shrink"
    BY <1>7 DEF RewriteLog, Now, TypeOK, Archive
  <2>3. QED
    BY <2>1, <2>2 DEF OnceInv
<1>8. ASSUME NEW a \in Archives, Shrink(a) PROVE OnceInv'
  <2>1. /\ proc[a].at = "shrink" /\ proc' = [proc EXCEPT ![a] = Off] /\ UNCHANGED <<cold, lapse>>
        /\ log' = log \cup {Len(about) + 1}
    BY <1>8 DEF Shrink, Emit
  <2>2. \A b \in Archives : \/ proc'[b] = proc[b]
                            \/ /\ proc[b].at # "rewrite"
                               /\ proc'[b].at \notin {"append", "rewrite"}
    BY <2>1 DEF Off, TypeOK
  <2>3. QED
    BY <2>1, <2>2, OnceStays
<1>9. ASSUME NEW t \in Tasks, Add(t) PROVE OnceInv'
  <2>1. log' = log \cup {Len(about) + 1} /\ UNCHANGED <<cold, proc>> /\ lapse \subseteq lapse'
    BY <1>9 DEF Add, Upsert, Emit
  <2>2. QED
    BY <2>1, OnceStays
<1>10. CASE Write
  <2>1. log' = log \cup {Len(about) + 1} /\ UNCHANGED <<cold, proc>> /\ lapse \subseteq lapse'
    BY <1>10 DEF Write, Upsert, Emit
  <2>2. QED
    BY <2>1, OnceStays
<1>11. ASSUME NEW a \in Archives, Kill(a) \/ KillInShelve(a) \/ KillInRewrite(a) PROVE FALSE
  BY <1>11 DEF Kill, KillInShelve, KillInRewrite, Killed
<1>12. CASE Read \/ UNCHANGED vars
  <2>1. UNCHANGED <<log, cold, proc, lapse>>
    BY <1>12 DEF Read, vars, spine, history
  <2>2. QED
    BY <2>1, OnceStays
<1>13. QED
  BY <1>4, <1>5, <1>6, <1>7, <1>8, <1>9, <1>10, <1>11, <1>12 DEF Next, Archiving

\* No event is archived twice, nor archived and live once nothing runs, until a run is
\* killed or two overlap.
THEOREM NoEventIsDoubled == Spec => []EventsOnce
<1>1. Init => OnceInv /\ OneArchiveRuns
  BY DEF Init, OnceInv, OneArchiveRuns, Running, Off, IsInjective, Range
<1>2. TypeOK /\ OnceInv => EventsOnce
  <2> SUFFICES ASSUME TypeOK, OnceInv, lapse \cap {"killed", "torn", "overlap"} = {}
               PROVE  /\ Cardinality(Range(cold)) = Len(cold)
                      /\ Running = {} => log \cap Range(cold) = {}
    BY DEF EventsOnce
  <2>1. cold \in Seq(DOMAIN about) /\ IsInjective(cold)
    BY DEF TypeOK, OnceInv
  <2>2. Running = {} => \A a \in Archives : proc[a].at # "rewrite"
    BY DEF Running
  <2>3. QED
    BY <2>1, <2>2, InjectiveLength DEF OnceInv
<1>3. QED
  BY <1>1, <1>2, OneNext, OnceNext, ArchiveTypeCorrect, PTL DEF Spec

-----------------------------------------------------------------------------
(* Edges.                                                                  *)

\* An archive that is off moves nothing, and a record in its first revision was not
\* released.  What such a record depends on is in the spine, and no archive moves it.
EdgesInv ==
    /\ \A a \in Archives \ Running : proc[a].move = {}
    /\ \A r \in live : r.rev = 1 => ~r.released
    /\ \/ "added" \in lapse
       \/ \A r \in live : r.rev = 1 =>
             \A t \in r.after : t \in Ids(live) /\ \A a \in Archives : t \notin Ids(proc[a].move)

\* An upsert adds the id of its record and takes none away.
LEMMA UpsertIds ==
  ASSUME NEW r, live' = {x \in live : x.id # r.id} \cup {r}
  PROVE  Ids(live') = Ids(live) \cup {r.id}
<1>1. Ids(live') \subseteq Ids(live) \cup {r.id}
  BY DEF Ids
<1>2. ASSUME NEW x \in live PROVE x.id \in Ids(live')
  BY DEF Ids
<1>3. r.id \in Ids(live')
  BY DEF Ids
<1>4. QED
  BY <1>1, <1>2, <1>3 DEF Ids

\* Tasks that a step does not touch.
LEMMA EdgesStay ==
  ASSUME EdgesInv, lapse \subseteq lapse',
         \A a \in Archives \ Running' : proc'[a].move = {},
         \A a \in Archives : proc'[a].move \subseteq proc[a].move,
         \A r \in live' : r.rev = 1 => r \in live,
         Ids(live) \subseteq Ids(live')
  PROVE  EdgesInv'
<1>1. \A a \in Archives : Ids(proc'[a].move) \subseteq Ids(proc[a].move)
  BY DEF Ids
<1> DEFINE I == Ids(live)
           J == Ids(live')
           M(a) == Ids(proc[a].move)
           N(a) == Ids(proc'[a].move)
<1>2. I \subseteq J /\ \A a \in Archives : N(a) \subseteq M(a)
  BY <1>1
<1>3. \/ "added" \in lapse
      \/ \A r \in live : r.rev = 1 => \A t \in r.after : t \in I /\ \A a \in Archives : t \notin M(a)
  BY DEF EdgesInv
<1> HIDE DEF I, J, M, N
<1>4. \/ "added" \in lapse'
      \/ \A r \in live' : r.rev = 1 => \A t \in r.after : t \in J /\ \A a \in Archives : t \notin N(a)
  BY <1>2, <1>3
<1> USE DEF I, J, M, N
<1>5. QED
  BY <1>4 DEF EdgesInv

LEMMA EdgesNext == TypeOK /\ EdgesInv /\ [Next]_vars => EdgesInv'
<1> SUFFICES ASSUME TypeOK, EdgesInv, [Next]_vars PROVE EdgesInv'
  OBVIOUS
<1>1. ASSUME NEW a \in Archives, Start(a) PROVE EdgesInv'
  <2>1. /\ proc'[a].move = PlanArchive(live) /\ proc'[a].at = "shelf"
        /\ \A b \in Archives \ {a} : proc'[b] = proc[b]
        /\ live' = live /\ lapse \subseteq lapse'
    BY <1>1 DEF Start, TypeOK, spine, Off
  <2>2. \A r \in live : r.rev = 1 => \A t \in r.after : t \notin Ids(PlanArchive(live))
    <3> SUFFICES ASSUME NEW r \in live, r.rev = 1, NEW c \in PlanArchive(live), c.id \in r.after
                 PROVE  FALSE
      BY DEF Ids
    <3>1. ~r.released
      BY DEF EdgesInv
    <3>2. QED
      BY <3>1 DEF PlanArchive
  <2>3. \A b \in Archives \ Running' : b # a /\ b \notin Running
    BY <2>1 DEF Running
  <2>4. \A b \in Archives \ Running' : proc'[b].move = {}
    BY <2>1, <2>3 DEF EdgesInv
  <2>5. QED
    BY <2>1, <2>2, <2>4 DEF EdgesInv
<1>2. ASSUME NEW a \in Archives,
             ReadShelf(a) \/ Shelve(a) \/ Split(a) \/ AppendEvents(a) \/ RewriteLog(a)
      PROVE  EdgesInv'
  <2>1. live' = live /\ lapse' = lapse /\ proc[a].at # "off"
    BY <1>2 DEF ReadShelf, Shelve, Split, AppendEvents, RewriteLog, spine, history
  <2>2. /\ \A b \in Archives \ {a} : proc'[b] = proc[b]
        /\ \/ proc'[a].at # "off" /\ proc'[a].move = proc[a].move
           \/ proc'[a] = Off
    <3>1. CASE ReadShelf(a)
      BY <3>1 DEF ReadShelf, TypeOK, Archive
    <3>2. CASE Shelve(a) \/ AppendEvents(a) \/ RewriteLog(a)
      BY <3>2 DEF Shelve, AppendEvents, RewriteLog, Now, TypeOK, Archive
    <3>3. CASE Split(a)
      <4> DEFINE go == {n \in log : about[n] \in Ids(proc[a].move)}
      <4>1. proc' = [proc EXCEPT ![a] = [@ EXCEPT !.at = "append", !.go = go, !.stay = log \ go]]
        BY <3>3 DEF Split
      <4> HIDE DEF go
      <4>2. QED
        BY <4>1 DEF TypeOK, Archive
    <3>4. QED
      BY <1>2, <3>1, <3>2, <3>3
  <2>3. /\ \A b \in Archives : proc'[b].move \subseteq proc[b].move
        /\ \A b \in Archives \ Running' : proc'[b].move = {}
    BY <2>2 DEF Off, Running, EdgesInv
  <2>4. QED
    BY <2>1, <2>3, EdgesStay
<1>3. ASSUME NEW a \in Archives, proc' = [proc EXCEPT ![a] = Off]
      PROVE  /\ \A b \in Archives : proc'[b].move \subseteq proc[b].move
             /\ \A b \in Archives \ Running' : proc'[b].move = {}
  BY <1>3 DEF Off, Running, EdgesInv, TypeOK
<1>4. ASSUME NEW a \in Archives, Shrink(a) PROVE EdgesInv'
  <2>1. /\ live' = {r \in live : r.id \notin Ids(proc[a].move)} /\ lapse' = lapse
        /\ proc' = [proc EXCEPT ![a] = Off]
    BY <1>4 DEF Shrink
  <2>2. /\ \A b \in Archives : proc'[b].move \subseteq proc[b].move
        /\ \A b \in Archives \ Running' : proc'[b].move = {}
    BY <1>3, <2>1
  <2>3. ASSUME NEW r \in live', r.rev = 1, NEW t \in r.after, "added" \notin lapse
        PROVE  t \in Ids(live') /\ \A b \in Archives : t \notin Ids(proc'[b].move)
    <3>1. r \in live /\ t \in Ids(live) /\ \A b \in Archives : t \notin Ids(proc[b].move)
      BY <2>1, <2>3 DEF EdgesInv
    <3>2. PICK x \in live : x.id = t
      BY <3>1 DEF Ids
    <3>3. x \in live'
      BY <2>1, <3>1, <3>2
    <3>4. t \in Ids(live')
      BY <3>2, <3>3 DEF Ids
    <3>5. \A b \in Archives : Ids(proc'[b].move) \subseteq Ids(proc[b].move)
      BY <2>2 DEF Ids
    <3>6. QED
      BY <3>1, <3>4, <3>5
  <2>4. QED
    BY <2>1, <2>2, <2>3 DEF EdgesInv
<1>5. ASSUME NEW t \in Tasks, Add(t) PROVE EdgesInv'
  <2>1. PICK deps \in SUBSET Ids(live) :
          Upsert([id |-> t, rev |-> 1, released |-> FALSE, after |-> deps])
    BY <1>5 DEF Add
  <2> DEFINE r == [id |-> t, rev |-> 1, released |-> FALSE, after |-> deps]
  <2>2. live' = {x \in live : x.id # r.id} \cup {r} /\ proc' = proc /\ lapse \subseteq lapse'
    BY <1>5, <2>1 DEF Add, Upsert
  <2>3. Ids(live) \subseteq Ids(live')
    <3> HIDE DEF r
    <3>1. QED
      BY <2>2, UpsertIds
  <2>4. r.after \subseteq Ids(live) /\ r.released = FALSE
    OBVIOUS
  <2>5. CASE Running # {}
    BY <1>5, <2>2, <2>4, <2>5 DEF Add, EdgesInv, Running
  <2>6. CASE Running = {}
    <3>1. \A a \in Archives : proc[a].move = {} /\ Ids(proc[a].move) = {}
      BY <2>6 DEF EdgesInv, Ids
    <3> HIDE DEF r
    <3>2. QED
      BY <2>2, <2>3, <2>4, <3>1 DEF EdgesInv
  <2>7. QED
    BY <2>5, <2>6
<1>6. CASE Write
  <2> DEFINE r == [cmd EXCEPT !.rev = @ + 1, !.released = ~@]
  <2>1. cmd \in Records
    BY <1>6 DEF Write, TypeOK
  <2>2. r.rev # 1 /\ r.id = cmd.id
    <3>1. cmd.rev \in 1..MaxRev /\ r.rev = cmd.rev + 1 /\ r.id = cmd.id
      BY <2>1 DEF Records
    <3> HIDE DEF r
    <3>2. QED
      BY <3>1, ArchiveAssumption
  <2>3. live' = {x \in live : x.id # r.id} \cup {r} /\ proc' = proc /\ lapse \subseteq lapse'
    BY <1>6 DEF Write, Upsert
  <2> HIDE DEF r
  <2>4. Ids(live) \subseteq Ids(live') /\ \A x \in live' : x.rev = 1 => x \in live
    BY <2>2, <2>3 DEF Ids
  <2>5. /\ \A b \in Archives : proc'[b].move \subseteq proc[b].move
        /\ \A b \in Archives \ Running' : proc'[b].move = {}
    BY <2>3 DEF EdgesInv, Running
  <2>6. QED
    BY <2>3, <2>4, <2>5, EdgesStay
<1>7. ASSUME NEW a \in Archives, Kill(a) \/ KillInShelve(a) \/ KillInRewrite(a) PROVE EdgesInv'
  <2>1. live' = live /\ lapse \subseteq lapse' /\ proc' = [proc EXCEPT ![a] = Off]
    BY <1>7 DEF Kill, KillInShelve, KillInRewrite, Killed, spine
  <2>2. QED
    BY <1>3, <2>1, EdgesStay
<1>8. CASE Read \/ UNCHANGED vars
  <2>1. UNCHANGED <<live, proc, lapse>>
    BY <1>8 DEF Read, vars, spine, history
  <2>2. QED
    BY <2>1 DEF EdgesInv, Running
<1>9. QED
  BY <1>1, <1>2, <1>4, <1>5, <1>6, <1>7, <1>8 DEF Next, Archiving

\* For any archives at once, killed or not: what a task that was never released depends on
\* stays in the spine, unless a task was added while an archive ran.
THEOREM EdgesOfOpenTasksAreKept == Spec => []NoDanglingEdges
<1>1. Init => EdgesInv
  BY DEF Init, EdgesInv, Off
<1>2. EdgesInv => NoDanglingEdges
  BY DEF EdgesInv, NoDanglingEdges
<1>3. QED
  BY <1>1, <1>2, EdgesNext, ArchiveTypeCorrect, PTL DEF Spec

-----------------------------------------------------------------------------
(* Tasks.                                                                  *)

\* The steps of an archive whose tasks are on the shelf.
Shelved == {"log", "append", "rewrite", "shrink"}

\* The spine holds the last record of each of its tasks; so does an archive of each
\* task it moves, if the task was not written since.
WrittenInv ==
    /\ \A t \in Tasks : newest[t] # NoRecord => newest[t].id = t
    /\ \A r \in live : newest[r.id] = r
    /\ \A a \in Archives : \A r \in proc[a].move :
          newest[r.id] # NoRecord /\ (r.id \in raced \/ newest[r.id] = r)

\* What an archive is to replace the shelf by holds all of it, and what it is to take
\* from the spine is on the shelf.
ShelfInv ==
    \/ Torn
    \/ /\ \A a \in Archives : proc[a].at = "store" => proc[a].prior = shelf.items
       /\ \A a \in Archives : proc[a].at \in Shelved => Ids(proc[a].move) \subseteq Ids(shelf.items)
       /\ \A t \in Tasks : newest[t] # NoRecord => t \in Ids(live) \cup Ids(shelf.items)
       /\ \A x \in shelf.items : newest[x.id] # NoRecord

\* No task is in the spine and on the shelf but those an archive is to take: so the record
\* it shelves is new there.
LastInv ==
    \/ Torn \/ lapse \cap {"killed", "resurrected"} # {}
    \/ /\ \A a \in Archives : proc[a].at \in {"shelf", "store"} => Ids(proc[a].move) \subseteq Ids(live)
       /\ \A a \in Archives : proc[a].at \in Shelved =>
             \A r \in proc[a].move : r.id \in raced \/ r \in shelf.items
       /\ \A t \in Ids(live) \cap Ids(shelf.items) :
             \E a \in Archives : proc[a].at \in Shelved /\ t \in Ids(proc[a].move)
       /\ \A t \in Tasks : newest[t] # NoRecord => t \in raced \/ newest[t] \in live \cup shelf.items

RecordsInv == WrittenInv /\ ShelfInv /\ LastInv

\* Archive a goes on to `at`, the others stay where they are.
GoesOn(a, at) ==
    /\ proc'[a].at = at /\ proc'[a].move = proc[a].move
    /\ \A b \in Archives \ {a} : proc'[b] = proc[b]

LEMMA Steps ==
  ASSUME TypeOK, NEW a \in Archives
  PROVE  /\ \A at \in {"log", "rewrite", "shrink"} : Now(a, at) => GoesOn(a, at)
         /\ Split(a) => GoesOn(a, "append")
         /\ ReadShelf(a) => \/ proc' = [proc EXCEPT ![a] = Off]
                            \/ GoesOn(a, "store") /\ proc'[a].prior = shelf.items
<1>1. \A at \in {"log", "rewrite", "shrink"} : Now(a, at) => GoesOn(a, at)
  BY DEF Now, GoesOn, TypeOK, Archive
<1>2. ASSUME Split(a) PROVE GoesOn(a, "append")
  <2> DEFINE go == {n \in log : about[n] \in Ids(proc[a].move)}
  <2>1. proc' = [proc EXCEPT ![a] = [@ EXCEPT !.at = "append", !.go = go, !.stay = log \ go]]
    BY <1>2 DEF Split
  <2> HIDE DEF go
  <2>2. QED
    BY <2>1 DEF GoesOn, TypeOK, Archive
<1>3. ASSUME ReadShelf(a)
      PROVE  \/ proc' = [proc EXCEPT ![a] = Off]
             \/ GoesOn(a, "store") /\ proc'[a].prior = shelf.items
  <2>1. CASE shelf.ok
    <3>1. proc' = [proc EXCEPT ![a] = [@ EXCEPT !.at = "store", !.prior = shelf.items]]
      BY <1>3, <2>1 DEF ReadShelf
    <3>2. QED
      BY <3>1 DEF GoesOn, TypeOK, Archive
  <2>2. CASE ~shelf.ok
    BY <1>3, <2>2 DEF ReadShelf
  <2>3. QED
    BY <2>1, <2>2
<1>4. QED
  BY <1>1, <1>2, <1>3

\* A step that writes no task and no shelf: archives on the way go on, or end.
LEMMA RecordsStay ==
  ASSUME RecordsInv, UNCHANGED <<live, shelf, newest, raced>>, lapse \subseteq lapse',
         \A a \in Archives :
            \/ proc'[a] = proc[a]
            \/ /\ proc'[a] = Off
               /\ proc[a].at \notin Shelved \/ lapse' \cap {"killed", "torn"} # {}
            \/ /\ {proc[a].at, proc'[a].at} \subseteq Shelved
               /\ proc'[a].move = proc[a].move
  PROVE  RecordsInv'
<1>1. WrittenInv'
  <2>1. \A a \in Archives : proc'[a].move \subseteq proc[a].move
    BY DEF Off
  <2>2. QED
    BY <2>1 DEF RecordsInv, WrittenInv
<1>2. ShelfInv'
  BY DEF RecordsInv, ShelfInv, Torn, Off, Shelved
<1>3. LastInv'
  <2>1. CASE lapse \cap {"overlap", "torn", "killed", "resurrected"} # {}
             \/ lapse' \cap {"overlap", "torn", "killed", "resurrected"} # {}
    BY <2>1 DEF LastInv, Torn
  <2>2. CASE lapse \cap {"overlap", "torn", "killed", "resurrected"} = {}
             /\ lapse' \cap {"overlap", "torn", "killed", "resurrected"} = {}
    <3>1. \A a \in Archives : \/ proc'[a] = proc[a]
                              \/ proc'[a] = Off /\ proc[a].at \notin Shelved
                              \/ /\ {proc[a].at, proc'[a].at} \subseteq Shelved
                                 /\ proc'[a].move = proc[a].move
      BY <2>2
    <3>2. \A a \in Archives : proc[a].at \in Shelved =>
             proc'[a].at \in Shelved /\ proc'[a].move = proc[a].move
      BY <3>1
    <3>3. \A a \in Archives : proc'[a].at \in Shelved =>
             proc[a].at \in Shelved /\ proc'[a].move = proc[a].move
      BY <3>1 DEF Off, Shelved
    <3>4. \A a \in Archives : proc'[a].at \in {"shelf", "store"} => proc'[a] = proc[a]
      BY <3>1 DEF Off, Shelved
    <3>5. QED
      BY <2>2, <3>2, <3>3, <3>4 DEF RecordsInv, LastInv, Torn
  <2>3. QED
    BY <2>1, <2>2
<1>4. QED
  BY <1>1, <1>2, <1>3 DEF RecordsInv

\* One record is written; the others stay.
LEMMA RecordsUpsert ==
  ASSUME TypeOK, RecordsInv, NEW r \in Records, Upsert(r), UNCHANGED <<shelf, proc>>,
         lapse \subseteq lapse',
         \/ newest[r.id] = NoRecord \/ r.id \in Ids(live) \/ "resurrected" \in lapse'
  PROVE  RecordsInv'
<1>1. /\ live' = {x \in live : x.id # r.id} \cup {r}
      /\ newest' = [newest EXCEPT ![r.id] = r]
      /\ raced \subseteq raced'
      /\ \A a \in Archives : r.id \in Ids(proc[a].move) => r.id \in raced'
  BY DEF Upsert
<1>2. Ids(live') = Ids(live) \cup {r.id}
  BY <1>1, UpsertIds
<1>3. /\ r.id \in Tasks /\ r # NoRecord /\ newest'[r.id] = r
      /\ \A t \in Tasks \ {r.id} : newest'[t] = newest[t]
  BY <1>1, ArchiveAssumption DEF Records, NoRecord, TypeOK
<1>4. /\ \A x \in live : x.id \in Tasks
      /\ \A a \in Archives : \A x \in proc[a].move : x.id \in Tasks
      /\ \A x \in shelf.items : x.id \in Tasks
  BY DEF TypeOK, Records, Archive
<1>5. \A a \in Archives : \A x \in proc[a].move : x.id \in Ids(proc[a].move)
  BY DEF Ids
<1>6. WrittenInv'
  <2>1. \A x \in live' : newest'[x.id] = x
    BY <1>1, <1>3, <1>4 DEF RecordsInv, WrittenInv
  <2>2. ASSUME NEW a \in Archives, NEW x \in proc[a].move
        PROVE  newest'[x.id] # NoRecord /\ (x.id \in raced' \/ newest'[x.id] = x)
    BY <1>1, <1>3, <1>4, <1>5 DEF RecordsInv, WrittenInv
  <2>3. \A t \in Tasks : newest'[t] # NoRecord => newest'[t].id = t
    BY <1>3 DEF RecordsInv, WrittenInv
  <2>4. QED
    BY <2>1, <2>2, <2>3 DEF WrittenInv
<1>7. ShelfInv'
  <2>1. CASE Torn
    BY <2>1 DEF ShelfInv, Torn
  <2>2. CASE ~Torn
    <3>1. \A t \in Tasks : newest'[t] # NoRecord => t \in Ids(live') \cup Ids(shelf.items)
      BY <1>2, <1>3, <2>2 DEF RecordsInv, ShelfInv
    <3>2. \A x \in shelf.items : newest'[x.id] # NoRecord
      BY <1>3, <1>4, <2>2 DEF RecordsInv, ShelfInv
    <3>3. QED
      BY <2>2, <3>1, <3>2 DEF RecordsInv, ShelfInv
  <2>3. QED
    BY <2>1, <2>2
<1>8. LastInv'
  <2>1. CASE Torn \/ lapse' \cap {"killed", "resurrected"} # {}
    BY <2>1 DEF LastInv, Torn
  <2>2. CASE ~Torn /\ lapse' \cap {"killed", "resurrected"} = {}
    <3>1. lapse \cap {"killed", "resurrected"} = {}
      BY <2>2
    <3>2. r.id \notin Ids(live) => r.id \notin Ids(shelf.items)
      BY <2>2 DEF RecordsInv, ShelfInv, Ids
    <3>3. \A t \in Ids(live') \cap Ids(shelf.items) :
             \E a \in Archives : proc[a].at \in Shelved /\ t \in Ids(proc[a].move)
      BY <1>2, <2>2, <3>1, <3>2 DEF RecordsInv, LastInv
    <3>4. ASSUME NEW t \in Tasks, newest'[t] # NoRecord
          PROVE  t \in raced' \/ newest'[t] \in live' \cup shelf.items
      <4>1. CASE t = r.id
        BY <1>1, <1>3, <4>1
      <4>2. CASE t # r.id
        <5>1. t \in raced \/ newest[t] \in live \cup shelf.items
          BY <1>3, <2>2, <3>1, <3>4, <4>2 DEF RecordsInv, LastInv
        <5>2. newest[t].id = t
          BY <1>3, <3>4, <4>2 DEF RecordsInv, WrittenInv
        <5>3. QED
          BY <1>1, <1>3, <4>2, <5>1, <5>2
      <4>3. QED
        BY <4>1, <4>2
    <3>5. \A a \in Archives : /\ proc[a].at \in {"shelf", "store"} => Ids(proc[a].move) \subseteq Ids(live')
                              /\ proc[a].at \in Shelved =>
                                    \A x \in proc[a].move : x.id \in raced' \/ x \in shelf.items
      BY <1>1, <1>2, <2>2, <3>1 DEF RecordsInv, LastInv
    <3>6. QED
      BY <2>2, <3>3, <3>4, <3>5 DEF LastInv
  <2>3. QED
    BY <2>1, <2>2
<1>9. QED
  BY <1>6, <1>7, <1>8 DEF RecordsInv

\* With one archive under way, the others move nothing.
LEMMA OthersAreOff ==
  ASSUME OneArchiveRuns, ~Torn, NEW a \in Running
  PROVE  \A b \in Archives \ {a} : proc[b].at = "off"
BY DEF OneArchiveRuns, Torn, Running

LEMMA RecordsStart ==
  ASSUME TypeOK, RecordsInv, NEW a \in Archives, Start(a)
  PROVE  RecordsInv'
<1>1. /\ proc'[a].at = "shelf" /\ proc'[a].move = PlanArchive(live) /\ proc[a].at = "off"
      /\ \A b \in Archives \ {a} : proc'[b] = proc[b]
      /\ UNCHANGED <<live, shelf, newest, raced>> /\ lapse \subseteq lapse'
  BY DEF Start, Off, TypeOK, spine
<1>2. PlanArchive(live) \subseteq live /\ Ids(PlanArchive(live)) \subseteq Ids(live)
  BY DEF PlanArchive, Ids
<1>3. \A r \in live : r # NoRecord
  BY ArchiveAssumption DEF TypeOK, Records, NoRecord
<1>4. WrittenInv'
  BY <1>1, <1>2, <1>3 DEF RecordsInv, WrittenInv
<1>5. ShelfInv'
  BY <1>1 DEF RecordsInv, ShelfInv, Torn, Shelved
<1>6. LastInv'
  <2>1. CASE Torn \/ lapse' \cap {"killed", "resurrected"} # {}
    BY <1>1, <2>1 DEF LastInv, Torn
  <2>2. CASE ~Torn /\ lapse' \cap {"killed", "resurrected"} = {}
    <3>1. lapse \cap {"killed", "resurrected"} = {}
      BY <1>1, <2>2
    <3>2. \A t : (\E b \in Archives : proc[b].at \in Shelved /\ t \in Ids(proc[b].move))
                 => \E b \in Archives : proc'[b].at \in Shelved /\ t \in Ids(proc'[b].move)
      BY <1>1 DEF Shelved
    <3>3. \A t \in Ids(live) \cap Ids(shelf.items) :
             \E b \in Archives : proc'[b].at \in Shelved /\ t \in Ids(proc'[b].move)
      BY <2>2, <3>1, <3>2 DEF RecordsInv, LastInv
    <3>4. \A b \in Archives : proc'[b].at \in {"shelf", "store"} => Ids(proc'[b].move) \subseteq Ids(live)
      BY <1>1, <1>2, <2>2, <3>1 DEF RecordsInv, LastInv
    <3>5. \A b \in Archives : proc'[b].at \in Shelved =>
             \A r \in proc'[b].move : r.id \in raced \/ r \in shelf.items
      BY <1>1, <2>2, <3>1 DEF RecordsInv, LastInv, Shelved
    <3>6. \A t \in Tasks : newest[t] # NoRecord => t \in raced \/ newest[t] \in live \cup shelf.items
      BY <2>2, <3>1 DEF RecordsInv, LastInv
    <3>7. QED
      BY <1>1, <3>3, <3>4, <3>5, <3>6 DEF LastInv
  <2>3. QED
    BY <2>1, <2>2
<1>7. QED
  BY <1>4, <1>5, <1>6 DEF RecordsInv

LEMMA RecordsReadShelf ==
  ASSUME TypeOK, RecordsInv, NEW a \in Archives, ReadShelf(a)
  PROVE  RecordsInv'
<1>1. UNCHANGED <<live, shelf, newest, raced, lapse>> /\ proc[a].at = "shelf"
  BY DEF ReadShelf, spine, history
<1>2. CASE proc' = [proc EXCEPT ![a] = Off]
  <2>1. proc'[a] = Off /\ \A b \in Archives \ {a} : proc'[b] = proc[b]
    BY <1>2 DEF TypeOK
  <2>2. proc[a].at \notin Shelved
    BY <1>1 DEF Shelved
  <2>3. QED
    BY <1>1, <2>1, <2>2, RecordsStay
<1>3. CASE GoesOn(a, "store") /\ proc'[a].prior = shelf.items
  <2>1. /\ proc'[a].at = "store" /\ proc'[a].move = proc[a].move /\ proc'[a].prior = shelf.items
        /\ \A b \in Archives \ {a} : proc'[b] = proc[b]
    BY <1>3 DEF GoesOn
  <2>2. WrittenInv'
    BY <1>1, <2>1 DEF RecordsInv, WrittenInv
  <2>3. ShelfInv'
    <3>1. /\ \A b \in Archives : proc'[b].at \in Shelved => proc'[b] = proc[b]
          /\ \A b \in Archives : proc'[b].at = "store" => b = a \/ proc'[b] = proc[b]
      BY <2>1 DEF Shelved
    <3>2. QED
      BY <1>1, <2>1, <3>1 DEF RecordsInv, ShelfInv, Torn
  <2>4. LastInv'
    <3>1. \A b \in Archives : proc'[b].at \in Shelved <=> proc[b].at \in Shelved
      BY <1>1, <2>1 DEF Shelved
    <3>2. \A b \in Archives : proc'[b].move = proc[b].move
      BY <2>1
    <3>3. \A b \in Archives : proc'[b].at \in {"shelf", "store"} <=> proc[b].at \in {"shelf", "store"}
      BY <1>1, <2>1
    <3>4. QED
      BY <1>1, <3>1, <3>2, <3>3 DEF RecordsInv, LastInv, Torn
  <2>5. QED
    BY <2>2, <2>3, <2>4 DEF RecordsInv
<1>4. QED
  BY <1>2, <1>3, Steps

LEMMA RecordsShelve ==
  ASSUME TypeOK, OneArchiveRuns, RecordsInv, NEW a \in Archives, Shelve(a)
  PROVE  RecordsInv'
<1>1. /\ proc[a].at = "store" /\ proc'[a].at = "log" /\ proc'[a].move = proc[a].move
      /\ \A b \in Archives \ {a} : proc'[b] = proc[b]
      /\ UNCHANGED <<live, newest, raced, lapse>>
      /\ shelf'.items = proc[a].prior \cup {r \in proc[a].move : r.id \notin Ids(proc[a].prior)}
  BY Steps DEF Shelve, GoesOn, history
<1>2. WrittenInv'
  BY <1>1 DEF RecordsInv, WrittenInv
<1>3. CASE Torn
  BY <1>1, <1>2, <1>3 DEF RecordsInv, ShelfInv, LastInv, Torn
<1>4. CASE ~Torn
  <2>1. \A b \in Archives \ {a} : proc[b].at = "off" /\ proc'[b].at = "off"
    BY <1>1, <1>4, OthersAreOff DEF Running
  <2>2. shelf'.items = shelf.items \cup {r \in proc[a].move : r.id \notin Ids(shelf.items)}
    BY <1>1, <1>4 DEF RecordsInv, ShelfInv
  <2>3. Ids(shelf'.items) = Ids(shelf.items) \cup Ids(proc[a].move)
    <3>1. Ids(shelf'.items) \subseteq Ids(shelf.items) \cup Ids(proc[a].move)
      BY <2>2 DEF Ids
    <3>2. Ids(shelf.items) \subseteq Ids(shelf'.items)
      BY <2>2 DEF Ids
    <3>3. ASSUME NEW r \in proc[a].move PROVE r.id \in Ids(shelf'.items)
      <4>1. CASE r.id \in Ids(shelf.items)
        BY <3>2, <4>1
      <4>2. CASE r.id \notin Ids(shelf.items)
        BY <2>2, <4>2 DEF Ids
      <4>3. QED
        BY <4>1, <4>2
    <3>4. QED
      BY <3>1, <3>2, <3>3 DEF Ids
  <2>4. ShelfInv'
    <3>1. \A x \in shelf'.items : newest[x.id] # NoRecord
      BY <1>4, <2>2 DEF RecordsInv, ShelfInv, WrittenInv
    <3>2. \A t \in Tasks : newest[t] # NoRecord => t \in Ids(live) \cup Ids(shelf'.items)
      BY <1>4, <2>3 DEF RecordsInv, ShelfInv
    <3>3. QED
      BY <1>1, <2>1, <2>3, <3>1, <3>2 DEF ShelfInv, Shelved
  <2>5. LastInv'
    <3>1. CASE lapse \cap {"killed", "resurrected"} # {}
      BY <1>1, <3>1 DEF LastInv
    <3>2. CASE lapse \cap {"killed", "resurrected"} = {}
      <4>1. Ids(proc[a].move) \cap Ids(shelf.items) = {} /\ Ids(live) \cap Ids(shelf.items) = {}
        BY <1>1, <1>4, <2>1, <3>2 DEF RecordsInv, LastInv, Shelved
      <4>2. proc[a].move \subseteq shelf'.items
        BY <2>2, <4>1 DEF Ids
      <4>3. \A t \in Ids(live) \cap Ids(shelf'.items) : t \in Ids(proc'[a].move)
        BY <1>1, <2>3, <4>1
      <4>4. \A t \in Tasks : newest[t] # NoRecord => t \in raced \/ newest[t] \in live \cup shelf'.items
        BY <1>4, <2>2, <3>2 DEF RecordsInv, LastInv
      <4>5. QED
        BY <1>1, <2>1, <4>2, <4>3, <4>4 DEF LastInv, Shelved
    <3>3. QED
      BY <3>1, <3>2
  <2>6. QED
    BY <1>2, <2>4, <2>5 DEF RecordsInv
<1>5. QED
  BY <1>3, <1>4

LEMMA RecordsShrink ==
  ASSUME TypeOK, OneArchiveRuns, RecordsInv, NEW a \in Archives, Shrink(a)
  PROVE  RecordsInv'
<1>1. /\ proc[a].at = "shrink" /\ proc' = [proc EXCEPT ![a] = Off]
      /\ live' = {r \in live : r.id \notin Ids(proc[a].move)}
      /\ UNCHANGED <<shelf, newest, raced, lapse>>
  BY DEF Shrink
<1>2. proc'[a] = Off /\ \A b \in Archives \ {a} : proc'[b] = proc[b]
  BY <1>1 DEF TypeOK
<1>3. WrittenInv'
  BY <1>1, <1>2 DEF RecordsInv, WrittenInv, Off
<1>4. CASE Torn
  BY <1>1, <1>3, <1>4 DEF RecordsInv, ShelfInv, LastInv, Torn
<1>5. CASE ~Torn
  <2>1. \A b \in Archives \ {a} : proc[b].at = "off"
    BY <1>1, <1>5, OthersAreOff DEF Running
  <2>2. \A b \in Archives : proc'[b].at = "off"
    BY <1>2, <2>1 DEF Off
  <2>3. Ids(live') = Ids(live) \ Ids(proc[a].move)
    BY <1>1 DEF Ids
  <2>4. Ids(proc[a].move) \subseteq Ids(shelf.items)
    BY <1>1, <1>5 DEF RecordsInv, ShelfInv, Shelved
  <2>5. ShelfInv'
    BY <1>1, <1>5, <2>2, <2>3, <2>4 DEF RecordsInv, ShelfInv, Torn, Shelved
  <2>6. LastInv'
    <3>1. CASE lapse \cap {"killed", "resurrected"} # {}
      BY <1>1, <3>1 DEF LastInv
    <3>2. CASE lapse \cap {"killed", "resurrected"} = {}
      <4>1. \A t \in Ids(live) \cap Ids(shelf.items) : t \in Ids(proc[a].move)
        BY <1>5, <2>1, <3>2 DEF RecordsInv, LastInv, Shelved
      <4>2. Ids(live') \cap Ids(shelf.items) = {}
        BY <2>3, <4>1
      <4>3. ASSUME NEW t \in Tasks, newest[t] # NoRecord, t \notin raced
            PROVE  newest[t] \in live' \cup shelf.items
        <5>1. newest[t] \in live \cup shelf.items
          BY <1>5, <3>2, <4>3 DEF RecordsInv, LastInv
        <5>2. newest[t].id = t
          BY <4>3 DEF RecordsInv, WrittenInv
        <5>3. CASE t \notin Ids(proc[a].move)
          BY <1>1, <5>1, <5>2, <5>3
        <5>4. CASE t \in Ids(proc[a].move)
          <6>1. PICK r \in proc[a].move : r.id = t
            BY <5>4 DEF Ids
          <6>2. newest[t] = r
            BY <4>3, <6>1 DEF RecordsInv, WrittenInv
          <6>3. r \in shelf.items
            BY <1>1, <1>5, <3>2, <4>3, <6>1 DEF RecordsInv, LastInv, Shelved
          <6>4. QED
            BY <6>2, <6>3
        <5>5. QED
          BY <5>3, <5>4
      <4>4. QED
        BY <1>1, <2>2, <4>2, <4>3 DEF LastInv, Shelved
    <3>3. QED
      BY <3>1, <3>2
  <2>7. QED
    BY <1>3, <2>5, <2>6 DEF RecordsInv
<1>6. QED
  BY <1>4, <1>5

LEMMA RecordsNext == TypeOK /\ OneArchiveRuns /\ RecordsInv /\ [Next]_vars => RecordsInv'
<1> SUFFICES ASSUME TypeOK, OneArchiveRuns, RecordsInv, [Next]_vars PROVE RecordsInv'
  OBVIOUS
<1>1. ASSUME NEW a \in Archives, Archiving(a) PROVE RecordsInv'
  <2>1. CASE Split(a) \/ AppendEvents(a) \/ RewriteLog(a)
    <3>1. UNCHANGED <<live, shelf, newest, raced, lapse>>
      BY <2>1 DEF Split, AppendEvents, RewriteLog, spine, history
    <3>2. proc[a].at \in Shelved
      BY <2>1 DEF Split, AppendEvents, RewriteLog, Shelved
    <3>3. \E at \in Shelved : GoesOn(a, at)
      BY <2>1, Steps DEF AppendEvents, RewriteLog, Shelved
    <3>4. QED
      BY <3>1, <3>2, <3>3, RecordsStay DEF GoesOn
  <2>2. QED
    BY <1>1, <2>1, RecordsStart, RecordsReadShelf, RecordsShelve, RecordsShrink DEF Archiving
<1>2. ASSUME NEW a \in Archives, Kill(a) \/ KillInRewrite(a) PROVE RecordsInv'
  <2>1. /\ UNCHANGED <<live, shelf, newest, raced>> /\ lapse \subseteq lapse'
        /\ lapse' \cap {"killed", "torn"} # {} /\ proc' = [proc EXCEPT ![a] = Off]
    BY <1>2 DEF Kill, KillInRewrite, Killed, spine
  <2>2. \A b \in Archives : proc'[b] = proc[b] \/ proc'[b] = Off
    BY <2>1 DEF TypeOK
  <2>3. QED
    BY <2>1, <2>2, RecordsStay
<1>3. ASSUME NEW a \in Archives, KillInShelve(a) PROVE RecordsInv'
  <2>1. /\ UNCHANGED <<live, newest, raced>> /\ "torn" \in lapse'
        /\ proc' = [proc EXCEPT ![a] = Off]
    BY <1>3 DEF KillInShelve, Killed
  <2>2. \A b \in Archives : proc'[b].move \subseteq proc[b].move
    BY <2>1 DEF TypeOK, Off
  <2>3. WrittenInv'
    BY <2>1, <2>2 DEF RecordsInv, WrittenInv
  <2>4. QED
    BY <2>1, <2>3 DEF RecordsInv, ShelfInv, LastInv, Torn
<1>4. ASSUME NEW t \in Tasks, Add(t) PROVE RecordsInv'
  <2>1. PICK deps \in SUBSET Ids(live) :
          Upsert([id |-> t, rev |-> 1, released |-> FALSE, after |-> deps])
    BY <1>4 DEF Add
  <2> DEFINE r == [id |-> t, rev |-> 1, released |-> FALSE, after |-> deps]
  <2>2. Ids(live) \subseteq Tasks
    BY DEF Ids, TypeOK, Records
  <2>3. r \in Records /\ Upsert(r) /\ r.id = t
    BY <1>4, <2>1, <2>2, ArchiveAssumption DEF Records
  <2>4. UNCHANGED <<shelf, proc>> /\ lapse \subseteq lapse' /\ newest[t] = NoRecord
    BY <1>4 DEF Add
  <2> HIDE DEF r
  <2>5. QED
    BY <2>3, <2>4, RecordsUpsert
<1>5. CASE Write
  <2> DEFINE r == [cmd EXCEPT !.rev = @ + 1, !.released = ~@]
  <2>1. cmd \in Records /\ cmd.rev < MaxRev
    BY <1>5 DEF Write, TypeOK
  <2>2. r \in Records /\ r.id = cmd.id
    <3>1. cmd.rev \in 1..MaxRev /\ cmd.rev < MaxRev /\ MaxRev \in Nat
      BY <2>1, ArchiveAssumption DEF Records
    <3>2. cmd.rev + 1 \in 1..MaxRev
      BY <3>1
    <3>3. QED
      BY <2>1, <3>2 DEF Records
  <2>3. /\ Upsert(r) /\ UNCHANGED <<shelf, proc>> /\ lapse \subseteq lapse'
        /\ cmd.id \in Ids(live) \/ "resurrected" \in lapse'
    BY <1>5 DEF Write
  <2> HIDE DEF r
  <2>4. QED
    BY <2>2, <2>3, RecordsUpsert
<1>6. CASE Read \/ UNCHANGED vars
  <2>1. UNCHANGED <<live, shelf, newest, raced, lapse, proc>>
    BY <1>6 DEF Read, vars, spine, history
  <2>2. QED
    BY <2>1, RecordsStay
<1>7. QED
  BY <1>1, <1>2, <1>3, <1>4, <1>5, <1>6 DEF Next

\* No task is lost to an archive that nothing overlaps and that is not killed within a
\* write; nor is its last record, unless it was written while the archive was at work.
THEOREM NoTaskIsDeleted == Spec => []RecordsKept
<1>1. Init => RecordsInv /\ OneArchiveRuns
  BY DEF Init, RecordsInv, WrittenInv, ShelfInv, LastInv, OneArchiveRuns, Running, Off, Shelved, Ids
<1>2. RecordsInv => RecordsKept
  <2>1. Ids(live \cup shelf.items) = Ids(live) \cup Ids(shelf.items)
    BY DEF Ids
  <2>2. QED
    BY <2>1 DEF RecordsInv, ShelfInv, LastInv, RecordsKept
<1>3. QED
  BY <1>1, <1>2, OneNext, RecordsNext, ArchiveTypeCorrect, PTL DEF Spec

=============================================================================
