------------------------------ MODULE SpineLock ------------------------------
(***************************************************************************)
(* The advisory lock over the spine: Store.withLock of lib/store.mjs.      *)
(*                                                                         *)
(* Several chalk processes share one directory .chalk/ and serialise their *)
(* read-modify-write of tasks.json with the file .chalk/.lock, created by  *)
(* an exclusive open.  A process that finds the file looks at its age and, *)
(* in a LATER system call, renames it away when it judged it stale.  The   *)
(* module keeps every system call a step of its own, so that the other     *)
(* processes may act between the open, the stat, the rename and the unlink.*)
(*                                                                         *)
(* Time is counted in ticks.  StaleAfter and WaitLimit stand for           *)
(* LOCK_STALE_MS and LOCK_WAIT_MS; HoldLimit is the number of ticks a live *)
(* process stays in the body of withLock (a read and a write of one file). *)
(***************************************************************************)
EXTENDS Naturals

CONSTANTS
    Procs,       \* the chalk processes
    None,        \* no lock file, no owner
    StaleAfter,  \* LOCK_STALE_MS: an older lock file is judged stale
    WaitLimit,   \* LOCK_WAIT_MS: a longer wait ends without the lock
    HoldLimit,   \* ticks a live process may spend in the body
    MaxCalls,    \* bound: calls of withLock by one process
    MaxCrashes   \* bound: processes killed at any point

ASSUME LockAssumption ==
    /\ None \notin Procs
    /\ StaleAfter \in Nat /\ WaitLimit \in Nat /\ HoldLimit \in Nat
    /\ MaxCalls \in Nat /\ MaxCrashes \in Nat

VARIABLES
    pc,       \* where each process is in withLock
    fd,       \* fd[p]: p created the lock file it is working under
    owner,    \* creator of the file now at .chalk/.lock, None if there is none
    age,      \* its age in ticks (now - mtime)
    timer,    \* ticks since p entered withLock, then since it entered the body
    calls,    \* calls of withLock p has begun
    crashes,  \* processes killed so far
    breaches  \* history: the ways the lock's protection has been lost

lockVars == <<pc, fd, owner, age, timer, calls, crashes, breaches>>

Waiting == {"open", "stat", "steal"}
Breaches == {"captured", "unlinked", "unlocked"}

LockTypeOK ==
    /\ pc \in [Procs -> Waiting \cup {"idle", "body"}]
    /\ fd \in [Procs -> BOOLEAN]
    /\ owner \in Procs \cup {None}
    /\ age \in 0..(StaleAfter + 1)
    /\ timer \in [Procs -> 0..(WaitLimit + HoldLimit + 1)]
    /\ calls \in [Procs -> 0..MaxCalls]
    /\ crashes \in 0..MaxCrashes
    /\ breaches \subseteq Breaches

LockInit ==
    /\ pc = [p \in Procs |-> "idle"]
    /\ fd = [p \in Procs |-> FALSE]
    /\ owner = None
    /\ age = 0
    /\ timer = [p \in Procs |-> 0]
    /\ calls = [p \in Procs |-> 0]
    /\ crashes = 0
    /\ breaches = {}

Live(p) == p # None /\ fd[p]

-----------------------------------------------------------------------------

\* withLock(fn) is called: start = Date.now().
Enter(p) ==
    /\ pc[p] = "idle"
    /\ calls[p] < MaxCalls
    /\ pc' = [pc EXCEPT ![p] = "open"]
    /\ timer' = [timer EXCEPT ![p] = 0]
    /\ calls' = [calls EXCEPT ![p] = @ + 1]
    /\ UNCHANGED <<fd, owner, age, crashes, breaches>>

\* Mutant: the flag 'w' for 'wx', which opens an existing file as well.
OpenCreatesAnyway(p) ==
    /\ pc[p] = "open"
    /\ owner' = p
    /\ age' = 0
    /\ fd' = [fd EXCEPT ![p] = TRUE]
    /\ pc' = [pc EXCEPT ![p] = "body"]
    /\ timer' = [timer EXCEPT ![p] = 0]
    /\ UNCHANGED <<calls, crashes, breaches>>

\* openSync(lockPath, 'wx') created the file: p holds the lock.
OpenCreates(p) ==
    /\ pc[p] = "open"
    /\ owner = None
    /\ owner' = p
    /\ age' = 0
    /\ fd' = [fd EXCEPT ![p] = TRUE]
    /\ pc' = [pc EXCEPT ![p] = "body"]
    /\ timer' = [timer EXCEPT ![p] = 0]
    /\ UNCHANGED <<calls, crashes, breaches>>

\* openSync threw EEXIST: look at the file next.
OpenExists(p) ==
    /\ pc[p] = "open"
    /\ owner # None
    /\ pc' = [pc EXCEPT ![p] = "stat"]
    /\ UNCHANGED <<fd, owner, age, timer, calls, crashes, breaches>>

\* What the stat says: a file that vanished leaves `stale` at its initial true.
JudgedStale == owner = None \/ age > StaleAfter

\* The file is stale (or gone): rename it away next.
StatStale(p) ==
    /\ pc[p] = "stat"
    /\ JudgedStale
    /\ pc' = [pc EXCEPT ![p] = "steal"]
    /\ UNCHANGED <<fd, owner, age, timer, calls, crashes, breaches>>

\* The file is fresh and the wait is not over: sleep, then open again.
StatFresh(p) ==
    /\ pc[p] = "stat"
    /\ ~JudgedStale
    /\ timer[p] <= WaitLimit
    /\ pc' = [pc EXCEPT ![p] = "open"]
    /\ UNCHANGED <<fd, owner, age, timer, calls, crashes, breaches>>

\* The file is fresh and the wait is over: run the body without the lock.
GiveUp(p) ==
    /\ pc[p] = "stat"
    /\ ~JudgedStale
    /\ timer[p] > WaitLimit
    /\ pc' = [pc EXCEPT ![p] = "body"]
    /\ timer' = [timer EXCEPT ![p] = 0]
    /\ breaches' = breaches \cup {"unlocked"}
    /\ UNCHANGED <<fd, owner, age, calls, crashes>>

\* Mutant: the rename fails and the error is swallowed, the file stays.
StealNothing(p) ==
    /\ pc[p] = "steal"
    /\ pc' = [pc EXCEPT ![p] = "open"]
    /\ UNCHANGED <<fd, owner, age, timer, calls, crashes, breaches>>

\* renameSync(lockPath, captured) takes whatever file is at lockPath by now;
\* with no file there it throws ENOENT.  Either way the open is retried.
Steal(p) ==
    /\ pc[p] = "steal"
    /\ owner' = None
    /\ age' = 0
    /\ pc' = [pc EXCEPT ![p] = "open"]
    /\ breaches' = breaches \cup (IF Live(owner) THEN {"captured"} ELSE {})
    /\ UNCHANGED <<fd, timer, calls, crashes>>

\* Mutant: the finally block unlinks without looking at the descriptor.
ReleaseAlwaysUnlinks(p) ==
    /\ pc[p] = "body"
    /\ owner' = None
    /\ age' = 0
    /\ breaches' = breaches \cup
           (IF owner # p /\ Live(owner) THEN {"unlinked"} ELSE {})
    /\ fd' = [fd EXCEPT ![p] = FALSE]
    /\ pc' = [pc EXCEPT ![p] = "idle"]
    /\ timer' = [timer EXCEPT ![p] = 0]
    /\ UNCHANGED <<calls, crashes>>

\* The body has returned.  With a descriptor, unlinkSync(lockPath) removes the
\* file at lockPath, whoever created it; without one nothing is removed.
Release(p) ==
    /\ pc[p] = "body"
    /\ owner' = IF fd[p] THEN None ELSE owner
    /\ age' = IF fd[p] THEN 0 ELSE age
    /\ breaches' = breaches \cup
           (IF fd[p] /\ owner # p /\ Live(owner) THEN {"unlinked"} ELSE {})
    /\ fd' = [fd EXCEPT ![p] = FALSE]
    /\ pc' = [pc EXCEPT ![p] = "idle"]
    /\ timer' = [timer EXCEPT ![p] = 0]
    /\ UNCHANGED <<calls, crashes>>

\* The process is killed: the finally block does not run, the file stays.
Crash(p) ==
    /\ pc[p] # "idle"
    /\ crashes < MaxCrashes
    /\ crashes' = crashes + 1
    /\ pc' = [pc EXCEPT ![p] = "idle"]
    /\ fd' = [fd EXCEPT ![p] = FALSE]
    /\ timer' = [timer EXCEPT ![p] = 0]
    /\ UNCHANGED <<owner, age, calls, breaches>>

Lesser(m, n) == IF m < n THEN m ELSE n

\* Mutant: a clock that does not stop for a process past its HoldLimit.
TickPastHold ==
    /\ age' = IF owner = None THEN age ELSE Lesser(age + 1, StaleAfter + 1)
    /\ timer' = [p \in Procs |-> IF pc[p] = "idle" THEN 0 ELSE timer[p] + 1]
    /\ UNCHANGED <<pc, fd, owner, calls, crashes, breaches>>

\* A tick of the clock.  No live process is still in a body HoldLimit ticks
\* after it entered it.
Tick ==
    /\ \A p \in Procs : pc[p] = "body" => timer[p] < HoldLimit
    /\ age' = IF owner = None THEN age ELSE Lesser(age + 1, StaleAfter + 1)
    /\ timer' = [p \in Procs |->
           IF pc[p] = "idle" THEN 0
           ELSE IF pc[p] = "body" THEN timer[p] + 1
           ELSE Lesser(timer[p] + 1, WaitLimit + 1)]
    /\ UNCHANGED <<pc, fd, owner, calls, crashes, breaches>>

-----------------------------------------------------------------------------

\* One turn of the acquisition loop of withLock.
Acquire(p) ==
    \/ OpenCreates(p)
    \/ OpenExists(p)
    \/ StatStale(p)
    \/ StatFresh(p)
    \/ GiveUp(p)
    \/ Steal(p)

LockNext ==
    \/ \E p \in Procs : Enter(p) \/ Acquire(p) \/ Release(p) \/ Crash(p)
    \/ Tick

LockSpec == LockInit /\ [][LockNext]_lockVars

-----------------------------------------------------------------------------

InBody(p) == pc[p] = "body"

\* Two processes are in the body of withLock together only after the lock was
\* lost in one of three ways: a live lock file was renamed away, a robbed
\* holder unlinked a successor's file, or a waiter ran out of patience.
DoubleHoldExplained ==
    \A p, q \in Procs : InBody(p) /\ InBody(q) /\ p # q => breaches # {}

\* A holder's unlink in the finally block removes another live holder's file
\* only as a consequence of an earlier capture of a live file: the unlink is
\* never the first thing to go wrong, however long a waiter's patience.
UnlinkNeverFirst == "unlinked" \in breaches => "captured" \in breaches

\* While no live file has been renamed away, every process that created a lock
\* file and is still in its body finds its own file at .chalk/.lock: stealing a
\* crashed process's file disturbs no one.
HoldersOwnTheFile ==
    "captured" \notin breaches => \A p \in Procs : fd[p] => owner = p

\* A waiter is never wedged: whoever has called withLock and is not killed
\* enters the body, whatever crashed before it.
NeverWedged ==
    \A p \in Procs : pc[p] = "open" ~> pc[p] \in {"body", "idle"}
=============================================================================
