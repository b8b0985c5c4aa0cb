-------------------------- MODULE SpineStoreProofs ---------------------------
(***************************************************************************)
(* Proofs about SpineLock and SpineStore, for any set of processes, any    *)
(* limits and any number of crashes: a double hold has a cause, no update  *)
(* is lost until the lock is, and while the lock is not lost the store     *)
(* implements AtomicStore.                                                 *)
(***************************************************************************)
EXTENDS SpineStore, TLAPS

-----------------------------------------------------------------------------
(* The lock.                                                               *)

\* The inductive invariant.  A descriptor is held only in the body; the body is
\* run without one only after a waiter gave up; a holder's file is displaced
\* only after a capture; a foreign unlink is preceded by a capture.
LockInv ==
    /\ LockTypeOK
    /\ \A p \in Procs : fd[p] => pc[p] = "body"
    /\ "unlocked" \notin breaches => \A p \in Procs : pc[p] = "body" => fd[p]
    /\ HoldersOwnTheFile
    /\ UnlinkNeverFirst

-----------------------------------------------------------------------------

LEMMA LockInitInv == LockInit => LockInv
BY LockAssumption DEF LockInit, LockInv, LockTypeOK, HoldersOwnTheFile,
                      UnlinkNeverFirst, Waiting, Breaches

LEMMA LockNextInv == LockInv /\ [LockNext]_lockVars => LockInv'
<1> SUFFICES ASSUME LockInv, [LockNext]_lockVars
             PROVE  LockInv'
  OBVIOUS
<1> USE LockAssumption DEF LockInv, LockTypeOK, HoldersOwnTheFile,
                           UnlinkNeverFirst, Waiting, Breaches
<1>1. ASSUME NEW p \in Procs, Enter(p)
      PROVE  LockInv'
  BY <1>1 DEF Enter
<1>2. ASSUME NEW p \in Procs, OpenCreates(p)
      PROVE  LockInv'
  BY <1>2 DEF OpenCreates
<1>3. ASSUME NEW p \in Procs, OpenExists(p)
      PROVE  LockInv'
  BY <1>3 DEF OpenExists
<1>4. ASSUME NEW p \in Procs, StatStale(p)
      PROVE  LockInv'
  BY <1>4 DEF StatStale
<1>5. ASSUME NEW p \in Procs, StatFresh(p)
      PROVE  LockInv'
  BY <1>5 DEF StatFresh
<1>6. ASSUME NEW p \in Procs, GiveUp(p)
      PROVE  LockInv'
  BY <1>6 DEF GiveUp
<1>7. ASSUME NEW p \in Procs, Steal(p)
      PROVE  LockInv'
  BY <1>7 DEF Steal, Live
<1>8. ASSUME NEW p \in Procs, Release(p)
      PROVE  LockInv'
  BY <1>8 DEF Release, Live
<1>9. ASSUME NEW p \in Procs, Crash(p)
      PROVE  LockInv'
  BY <1>9 DEF Crash
<1>10. CASE Tick
  <2>1. age' \in 0..(StaleAfter + 1)
    BY <1>10 DEF Tick, Lesser
  <2>2. timer' \in [Procs -> 0..(WaitLimit + HoldLimit + 1)]
    BY <1>10 DEF Tick, Lesser
  <2>3. QED
    BY <1>10, <2>1, <2>2 DEF Tick
<1>11. CASE UNCHANGED lockVars
  BY <1>11 DEF lockVars
<1>12. QED
  BY <1>1, <1>2, <1>3, <1>4, <1>5, <1>6, <1>7, <1>8, <1>9, <1>10, <1>11
     DEF LockNext, Acquire

LEMMA LockInvExplains == LockInv => DoubleHoldExplained
BY DEF LockInv, HoldersOwnTheFile, DoubleHoldExplained, InBody

-----------------------------------------------------------------------------

THEOREM LockInvariance == LockSpec => []LockInv
BY LockInitInv, LockNextInv, PTL DEF LockSpec

\* Type correctness of the lock.
THEOREM LockTypeCorrect == LockSpec => []LockTypeOK
<1>1. LockInv => LockTypeOK
  BY DEF LockInv
<1>2. QED
  BY <1>1, LockInvariance, PTL

\* Two processes are together in the body of withLock only after a live lock
\* file was captured, a foreign file unlinked, or a waiter gave up.
THEOREM DoubleHoldIsExplained == LockSpec => []DoubleHoldExplained
BY LockInvariance, LockInvExplains, PTL

\* Stealing and crashing never displace a live holder's file by themselves.
THEOREM HoldersKeepTheFile == LockSpec => []HoldersOwnTheFile
<1>1. LockInv => HoldersOwnTheFile
  BY DEF LockInv
<1>2. QED
  BY <1>1, LockInvariance, PTL

\* A holder unlinks another's live file only after a live file was captured.
THEOREM UnlinkIsNeverFirst == LockSpec => []UnlinkNeverFirst
<1>1. LockInv => UnlinkNeverFirst
  BY DEF LockInv
<1>2. QED
  BY <1>1, LockInvariance, PTL

-----------------------------------------------------------------------------
(* The store.                                                              *)

\* The inductive invariant.  A process enters the body with nothing read; what
\* it has read there stays on disk until it renames.
StoreInv ==
    /\ LockInv
    /\ StoreTypeOK
    /\ \A p \in Procs : pc[p] \in Waiting => step[p] = "read"
    /\ FreshUntilWritten
    /\ NoLostUpdate

\* A step of the composition is a step of the lock, or leaves it alone.
LEMMA NextIsLockStep == [Next]_vars => [LockNext]_lockVars
BY DEF Next, vars, storeVars, lockVars, LockNext, Call, Acquiring, ReadTasks,
       WriteTasks, Return, Killed, Ticking

LEMMA BlankIsFile == Blank \in Files
BY DEF Blank, Files, Records

LEMMA StoreInitInv == Init => StoreInv
<1> SUFFICES ASSUME Init PROVE StoreInv
  OBVIOUS
<1>1. LockInv
  BY LockInitInv DEF Init
<1>2. StoreTypeOK
  BY <1>1, BlankIsFile DEF Init, StoreTypeOK, LockInv
<1>3. QED
  BY <1>1, <1>2 DEF Init, LockInit, StoreInv, FreshUntilWritten, NoLostUpdate

\* While the lock is not lost, whoever is in the body is there alone.
LEMMA AloneInBody ==
    ASSUME LockInv, breaches = {}, NEW p \in Procs, NEW q \in Procs,
           pc[p] = "body", pc[q] = "body"
    PROVE  p = q
BY LockInvExplains DEF DoubleHoldExplained, InBody

LEMMA BreachesGrow == LockInv /\ [LockNext]_lockVars => breaches \subseteq breaches'
BY DEF LockNext, lockVars, Enter, Acquire, OpenCreates, OpenExists, StatStale,
       StatFresh, GiveUp, Steal, Release, Crash, Tick

LEMMA StoreNextInv == StoreInv /\ [Next]_vars => StoreInv'
<1> SUFFICES ASSUME StoreInv, [Next]_vars
             PROVE  StoreInv'
  OBVIOUS
<1> USE DEF StoreInv
<1>1. LockInv' /\ LockTypeOK' /\ breaches \subseteq breaches'
  BY NextIsLockStep, LockNextInv, BreachesGrow DEF LockInv
<1>2. ASSUME NEW p \in Procs, Call(p)
      PROVE  StoreInv'
  <2>1. StoreTypeOK'
    BY <1>1, <1>2 DEF Call, StoreTypeOK
  <2>2. QED
    BY <1>1, <1>2, <2>1 DEF Call, Enter, StoreTypeOK, LockTypeOK, Waiting,
                            FreshUntilWritten, NoLostUpdate
<1>3. ASSUME NEW p \in Procs, Acquiring(p)
      PROVE  StoreInv'
  <2>1. StoreTypeOK'
    BY <1>1, <1>3 DEF Acquiring, storeVars, StoreTypeOK
  <2>2. \A q \in Procs : pc'[q] \in Waiting => step'[q] = "read"
    BY <1>3 DEF Acquiring, Acquire, storeVars, StoreTypeOK, LockTypeOK, Waiting,
                OpenCreates, OpenExists, StatStale, StatFresh, GiveUp, Steal
  <2>3. \A q \in Procs :
            pc'[q] = "body" /\ step'[q] = "write" => pc[q] = "body"
    BY <1>3 DEF Acquiring, Acquire, storeVars, StoreTypeOK, LockTypeOK, Waiting,
                OpenCreates, OpenExists, StatStale, StatFresh, GiveUp, Steal
  <2>4. QED
    BY <1>1, <1>3, <2>1, <2>2, <2>3
       DEF Acquiring, storeVars, FreshUntilWritten, NoLostUpdate
<1>4. ASSUME NEW p \in Procs, ReadTasks(p)
      PROVE  StoreInv'
  BY <1>1, <1>4 DEF ReadTasks, lockVars, StoreTypeOK, LockTypeOK, Waiting,
                    FreshUntilWritten, NoLostUpdate
<1>5. ASSUME NEW p \in Procs, WriteTasks(p)
      PROVE  StoreInv'
  <2> USE <1>5 DEF WriteTasks, lockVars
  <2>1. StoreTypeOK'
    <3>1. PICK t \in Tasks, v \in Records : Change(p, t, v)
      OBVIOUS
    <3>2. disk' \in Files /\ acked' \in Files
      BY <3>1 DEF Change, StoreTypeOK, Files
    <3>3. step' \in [Procs -> {"read", "write", "return"}] /\ buf' \in [Procs -> Files]
      BY BlankIsFile DEF StoreTypeOK
    <3>4. QED
      BY <1>1, <3>2, <3>3 DEF StoreTypeOK
  <2>2. \A q \in Procs : pc'[q] \in Waiting => step'[q] = "read"
    BY DEF StoreTypeOK, Waiting
  <2>3. FreshUntilWritten'
    BY AloneInBody DEF FreshUntilWritten, StoreTypeOK
  <2>4. NoLostUpdate'
    BY DEF FreshUntilWritten, NoLostUpdate, Change
  <2>5. QED
    BY <1>1, <2>1, <2>2, <2>3, <2>4
<1>6. ASSUME NEW p \in Procs, Return(p)
      PROVE  StoreInv'
  BY <1>1, <1>6 DEF Return, Release, storeVars, StoreTypeOK, LockTypeOK,
                    Waiting, FreshUntilWritten, NoLostUpdate
<1>7. ASSUME NEW p \in Procs, Killed(p)
      PROVE  StoreInv'
  <2>1. StoreTypeOK'
    BY <1>1, <1>7, BlankIsFile DEF Killed, StoreTypeOK
  <2>2. QED
    BY <1>1, <1>7, <2>1 DEF Killed, Crash, StoreTypeOK, LockTypeOK, Waiting,
                            FreshUntilWritten, NoLostUpdate
<1>8. CASE Ticking
  BY <1>1, <1>8 DEF Ticking, Tick, storeVars, StoreTypeOK,
                    FreshUntilWritten, NoLostUpdate
<1>9. CASE UNCHANGED vars
  BY <1>1, <1>9 DEF vars, lockVars, storeVars, StoreTypeOK,
                    FreshUntilWritten, NoLostUpdate
<1>10. QED
  BY <1>2, <1>3, <1>4, <1>5, <1>6, <1>7, <1>8, <1>9 DEF Next

-----------------------------------------------------------------------------

THEOREM StoreInvariance == Spec => []StoreInv
BY StoreInitInv, StoreNextInv, PTL DEF Spec

\* Type correctness of the store and its lock.
THEOREM StoreTypeCorrect == Spec => []StoreTypeOK
<1>1. StoreInv => StoreTypeOK
  BY DEF StoreInv
<1>2. QED
  BY <1>1, StoreInvariance, PTL

\* No update is lost before the lock is.
THEOREM NoUpdateIsLost == Spec => []NoLostUpdate
<1>1. StoreInv => NoLostUpdate
  BY DEF StoreInv
<1>2. QED
  BY <1>1, StoreInvariance, PTL

\* Until the lock is lost, tasks.json behaves as the atomic store: a write of the
\* detailed store is one mutation of the abstract one, and every other step, the
\* loss of the lock included, leaves the abstract store as it is.
THEOREM StoreImplementsAtomicStore == Spec => ImplementsAtomicStore
<1>1. Init => Atomic!StoreInit
  BY DEF Init, Atomic!StoreInit, Contents, Files, Records
<1>2. StoreInv /\ [Next]_vars => [Atomic!StoreNext]_Contents
  <2> SUFFICES ASSUME StoreInv, Next, Contents' # Contents
               PROVE  Atomic!StoreNext
    BY DEF vars, storeVars, lockVars, Contents
  <2>1. /\ breaches \subseteq breaches'
        /\ breaches = {} => disk = acked
    BY BreachesGrow, NextIsLockStep DEF StoreInv, NoLostUpdate
  <2>2. PICK p \in Procs : WriteTasks(p)
    BY <2>1 DEF Next, Call, Acquiring, ReadTasks, Return, Killed, Ticking, storeVars,
                Contents
  <2>3. breaches' = breaches
    BY <2>2 DEF WriteTasks, lockVars
  <2>4. breaches = {} => buf[p] = disk
    BY <2>2 DEF WriteTasks, lockVars, StoreInv, FreshUntilWritten
  <2>5. PICK t \in Tasks, v \in Records : Change(p, t, v)
    BY <2>2 DEF WriteTasks
  <2>6. Contents' = [Contents EXCEPT ![t] = v]
    BY <2>1, <2>3, <2>4, <2>5 DEF Change, Contents
  <2>7. QED
    BY <2>6 DEF Records, Atomic!StoreNext, Atomic!Mutate
<1>3. QED
  BY <1>1, <1>2, StoreInvariance, PTL DEF Spec, ImplementsAtomicStore, Atomic!StoreSpec
=============================================================================
