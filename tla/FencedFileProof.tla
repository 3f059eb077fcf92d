-------------------------- MODULE FencedFileProof --------------------------
(***************************************************************************)
(* Proofs, for any number of processes, that the lock has one holder, that *)
(* a completed save is never overwritten unseen and that an ousted run     *)
(* stays out; when no process ends during a steal, and for the last two    *)
(* when nothing is deleted under a run.  That the lock of another host is  *)
(* left alone needs neither.                                               *)
(***************************************************************************)
EXTENDS FencedFile, TLAPS

\* What the theorems ask: no steal guard is left by a dead process, neither at
\* first nor later.  (Where one is, the run fenced_guard shows two holders.)
NoDeadGuard == ~EndsAnyTime /\ \A s \in Starts : s.guard = Nobody

-----------------------------------------------------------------------------
(* The inductive invariant.                                                *)

\* The guard is of a process that runs, so none is ever cleared.
GuardLives ==
  /\ guard \in alive \cup {Nobody}
  /\ \A p \in Procs : pc[p] # "clear"

\* Stealers take turns: who is under the guard made it.
StealersTakeTurns ==
  \A p \in alive : pc[p] \in {"reread", "rejudge", "steal", "unguard"} => guard = p

\* Who made the lock and runs has it.
HolderMadeIt == \A p \in alive : pc[p] \in {"stamp", "held"} => lock.by = p

\* What a stealer read of a dead process is still what the lock says.
VerdictHolds ==
  \A p \in alive : pc[p] = "rejudge" =>
     /\ seen[p] # Nobody
     /\ seen[p] \notin alive \cup {Foreign, Unwritten} => lock.by = seen[p]

\* What a stealer removes is a lock, of a process that is not alive.
StealsFromTheDead ==
  \A p \in alive : pc[p] = "steal" => lock.by \notin alive \cup {Nobody}

LockInv ==
  /\ LockTypeOK
  /\ lock.by = Nobody => lock = NoLock
  /\ GuardLives
  /\ StealersTakeTurns
  /\ HolderMadeIt
  /\ VerdictHolds
  /\ StealsFromTheDead

-----------------------------------------------------------------------------
(* The proof.                                                              *)

\* What is found at first is a lock, and one that nobody made is no lock.
LEMMA FoundIsALock ==
  ASSUME NEW s \in Starts
  PROVE  s.lock \in Locks /\ (s.lock.by = Nobody => s.lock = NoLock)
<1> USE LockAssumption DEF LockAssumption
<1>1. s.lock \in {NoLock} \cup [by : {Gone, Foreign}, stamped : BOOLEAN]
  OBVIOUS
<1>2. CASE s.lock = NoLock
  BY <1>2 DEF Locks, Makers, NoLock
<1>3. CASE s.lock \in [by : {Gone, Foreign}, stamped : BOOLEAN]
  <2>1. s.lock.by \in {Gone, Foreign} /\ s.lock.by # Nobody
    BY <1>3
  <2>2. s.lock \in Locks
    BY <1>3 DEF Locks, Makers
  <2> QED
    BY <2>1, <2>2
<1> QED
  BY <1>1, <1>2, <1>3

\* The lock is at first absent, or of a process that is not one of these.
LEMMA LockInitially ==
  ASSUME NoDeadGuard PROVE LockInit => LockInv
<1> SUFFICES ASSUME LockInit PROVE LockInv
  OBVIOUS
<1> USE LockAssumption DEF LockAssumption
<1>1. PICK s \in Starts : lock = s.lock /\ guard = s.guard /\ alive = s.alive
  BY DEF LockInit
<1>2. guard = Nobody /\ alive \subseteq Procs
  BY <1>1 DEF NoDeadGuard
<1>3. lock \in Locks /\ (lock.by = Nobody => lock = NoLock)
  BY <1>1, FoundIsALock
<1>4. LockTypeOK
  BY <1>2, <1>3 DEF LockInit, LockTypeOK, LockPcs, Makers
<1> QED
  BY <1>2, <1>3, <1>4
     DEF LockInit, LockInv, GuardLives, StealersTakeTurns, HolderMadeIt,
         VerdictHolds, StealsFromTheDead

\* A step that only moves a process to where nothing is claimed of it.
LEMMA MovesOn ==
  ASSUME LockInv, NEW p \in Procs, p \in alive,
         NEW there \in {"idle", "open", "retry", "judge", "guard", "age", "read"},
         Go(p, there), UNCHANGED <<lock, guard, alive, ends>>,
         seen' \in [Procs -> Makers \cup {Unwritten}],
         \A q \in Procs \ {p} : seen'[q] = seen[q]
  PROVE  LockInv'
BY LockAssumption
   DEF LockInv, Go, LockTypeOK, LockAssumption, LockPcs, GuardLives,
       StealersTakeTurns, HolderMadeIt, VerdictHolds, StealsFromTheDead

\* What a lock file says.
LEMMA TextType ==
  ASSUME LockInv, lock # NoLock
  PROVE  /\ Text \in (Makers \ {Nobody}) \cup {Unwritten}
         /\ Text # Unwritten => lock.by = Text
BY LockAssumption
   DEF LockInv, LockTypeOK, LockAssumption, Text, Locks, Makers

\* Every step keeps the invariant.
LEMMA LockStepwise ==
  ASSUME NoDeadGuard, LockInv, [LockNext]_lockVars
  PROVE  LockInv'
<1> USE LockAssumption DEF LockAssumption
<1>1. CASE UNCHANGED lockVars
  BY <1>1 DEF lockVars, LockInv, LockTypeOK, GuardLives, StealersTakeTurns,
              HolderMadeIt, VerdictHolds, StealsFromTheDead
<1>2. ASSUME NEW p \in Procs, Begin(p) \/ Retry(p) \/ GiveUp(p)
      PROVE  LockInv'
  BY <1>2, MovesOn DEF Begin, Retry, GiveUp, At, LockInv, LockTypeOK
<1>3. ASSUME NEW p \in Procs, Open(p)
      PROVE  LockInv'
  <2>1. CASE lock = NoLock
    <3>1. /\ lock' = [by |-> p, stamped |-> FALSE] /\ lock'.by = p
          /\ lock.by = Nobody /\ p # Nobody /\ p \in alive
          /\ Go(p, "stamp") /\ UNCHANGED <<guard, alive, ends, seen>>
      BY <1>3, <2>1 DEF Open, At, NoLock
    <3>2. LockTypeOK' /\ GuardLives' /\ StealersTakeTurns'
      BY <3>1 DEF Go, LockInv, LockTypeOK, LockPcs, Locks, Makers, GuardLives,
         StealersTakeTurns
    <3>3. HolderMadeIt'
      BY <3>1 DEF Go, LockInv, LockTypeOK, HolderMadeIt
    <3>4. VerdictHolds'
      BY <3>1 DEF Go, LockInv, LockTypeOK, VerdictHolds
    <3>5. StealsFromTheDead'
      BY <3>1 DEF Go, LockInv, LockTypeOK, StealsFromTheDead
    <3> QED
      BY <3>1, <3>2, <3>3, <3>4, <3>5 DEF LockInv
  <2>2. CASE lock # NoLock
    BY <1>3, <2>2, MovesOn DEF Open, At, LockInv, LockTypeOK
  <2> QED BY <2>1, <2>2
<1>4. ASSUME NEW p \in Procs, Stamp(p)
      PROVE  LockInv'
  BY <1>4 DEF Stamp, At, Go, LockInv, LockTypeOK, LockPcs, Locks, Makers,
     NoLock, GuardLives, StealersTakeTurns, HolderMadeIt, VerdictHolds,
     StealsFromTheDead
<1>5. ASSUME NEW p \in Procs, Read(p)
      PROVE  LockInv'
  BY <1>5, MovesOn, TextType DEF Read, Reads, At, LockInv, LockTypeOK
<1>6. ASSUME NEW p \in Procs, Judge(p)
      PROVE  LockInv'
  BY <1>6, MovesOn DEF Judge, Judges, At, LockInv, LockTypeOK, Makers
<1>7. ASSUME NEW p \in Procs, Guard(p)
      PROVE  LockInv'
  <2>1. CASE guard = Nobody
    BY <1>7, <2>1 DEF Guard, At, Go, LockInv, LockTypeOK, LockPcs, Makers,
       GuardLives, StealersTakeTurns, HolderMadeIt, VerdictHolds,
       StealsFromTheDead
  <2>2. CASE guard # Nobody
    BY <1>7, <2>2, MovesOn DEF Guard, At, LockInv, LockTypeOK
  <2> QED BY <2>1, <2>2
<1>8. ASSUME NEW p \in Procs, GuardAge(p) \/ ClearGuard(p)
      PROVE  LockInv'
  BY <1>8, MovesOn DEF GuardAge, ClearGuard, At, LockInv, LockTypeOK, GuardLives
<1>9. ASSUME NEW p \in Procs, Reread(p)
      PROVE  LockInv'
  BY <1>9, TextType DEF Reread, Reads, At, Go, LockInv, LockTypeOK, LockPcs,
     GuardLives, StealersTakeTurns, HolderMadeIt, VerdictHolds,
     StealsFromTheDead
<1>10. ASSUME NEW p \in Procs, Rejudge(p)
       PROVE  LockInv'
  BY <1>10 DEF Rejudge, Judges, MayBeStale, At, Go, LockInv, LockTypeOK, LockPcs,
     Makers, GuardLives, StealersTakeTurns, HolderMadeIt, VerdictHolds,
     StealsFromTheDead
<1>11. ASSUME NEW p \in Procs, Steal(p)
       PROVE  LockInv'
  BY <1>11 DEF Steal, At, Go, LockInv, LockTypeOK, LockPcs, Locks, Makers, NoLock,
     GuardLives, StealersTakeTurns, HolderMadeIt, VerdictHolds,
     StealsFromTheDead
<1>12. ASSUME NEW p \in Procs, Unguard(p)
       PROVE  LockInv'
  BY <1>12 DEF Unguard, At, Go, LockInv, LockTypeOK, LockPcs, Makers,
     GuardLives, StealersTakeTurns, HolderMadeIt, VerdictHolds,
     StealsFromTheDead
<1>13. ASSUME NEW p \in Procs, Release(p)
       PROVE  LockInv'
  BY <1>13 DEF Release, At, Go, LockInv, LockTypeOK, LockPcs, Locks, Makers, NoLock,
     GuardLives, StealersTakeTurns, HolderMadeIt, VerdictHolds,
     StealsFromTheDead
<1>14. ASSUME NEW p \in Procs, End(p)
       PROVE  LockInv'
  BY <1>14 DEF End, NoDeadGuard, LockInv, LockTypeOK, GuardLives,
     StealersTakeTurns, HolderMadeIt, VerdictHolds, StealsFromTheDead
<1> QED
  BY <1>1, <1>2, <1>3, <1>4, <1>5, <1>6, <1>7, <1>8, <1>9, <1>10, <1>11, <1>12,
     <1>13, <1>14 DEF LockNext, Acquire

\* One process at a time is inside withFileLock, whatever the number of
\* processes, what lock they find and who ends when no steal is under way.
THEOREM OneHolder ==
  ASSUME NoDeadGuard PROVE LockSpec => []MutualExclusion
<1>1. LockInit => LockInv
  BY LockInitially
<1>2. LockInv /\ [LockNext]_lockVars => LockInv'
  BY LockStepwise
<1>3. LockInv => MutualExclusion
  BY DEF LockInv, HolderMadeIt, MutualExclusion
<1> QED
  BY <1>1, <1>2, <1>3, PTL DEF LockSpec

\* A process using a fenced file uses its lock as FileLock says: every load,
\* save and delete is a step of the lock, or leaves it alone.
LEMMA LockSteps == [Next]_vars => [LockNext]_lockVars
  BY DEF Next, vars, LockNext, Boot, Load, Leave, BeginSave, Compare, WriteBytes,
         WriteStamp, EndSave, BeginDelete, UnlinkStamp, UnlinkBytes, EndDelete,
         TimeOut, LockStep

\* So the lock of a fenced file behaves as FileLock says.
THEOREM FencedFileLocks == Spec => LockSpec
<1>1. Init => LockInit
  BY DEF Init
<1>2. [Next]_vars => [LockNext]_lockVars
  BY LockSteps
<1> QED
  BY <1>1, <1>2, PTL DEF Spec, LockSpec

\* So a fenced file's saves and deletes exclude one another.
THEOREM OneWriter ==
  ASSUME NoDeadGuard PROVE Spec => []MutualExclusion
BY OneHolder, FencedFileLocks, PTL

-----------------------------------------------------------------------------
(* What the store adds to the lock: the inductive invariant of saving.     *)

\* The numbers and sets the store computes with.
StoreTypes ==
  /\ stamp \in Nat /\ saves \in Nat /\ bytes \subseteq Nat
  /\ ousted \subseteq Procs
  /\ run \in [Procs -> Runs]
  /\ version \in [Procs -> Nat]
  /\ state \in [Procs -> SUBSET Nat]

\* Who is past its comparison is inside the lock; who is in the lock, or wants
\* it, is saving or deleting.
InsideTheLock ==
  \A p \in alive :
    /\ run[p] \in {"write", "stamp", "end", "unlink", "deleted"} => pc[p] = "held"
    /\ pc[p] # "idle" => run[p] \notin {"none", "load", "live"}

\* Nothing is deleted under a run.
DeletesAlone == Deleting = {} \/ Loaded = {}

\* A run's version is the stamp's or an older one; an ousted run's is older.
VersionsBehind ==
  \A p \in Loaded : version[p] <= stamp /\ (p \in ousted => version[p] < stamp)

\* A run at the version of the stamp has seen every completed save.
SeesTheAcked ==
  \A p \in Loaded :
    run[p] # "load" /\ version[p] = stamp => acked \subseteq state[p]

\* What was compared or written under the lock stays so under it.
StableUnderLock ==
  \A p \in alive :
    /\ run[p] \in {"write", "stamp"} => version[p] = stamp
    /\ run[p] = "stamp" => bytes = state[p]
    /\ run[p] \in {"unlink", "deleted"} => acked = {}

SaveInv ==
  /\ StoreTypes
  /\ InsideTheLock
  /\ DeletesAlone
  /\ VersionsBehind
  /\ SeesTheAcked
  /\ StableUnderLock
  /\ NothingAckedIsLost

\* Two processes that are past their comparison are one.
LEMMA OneInside ==
  ASSUME LockInv, InsideTheLock, NEW p \in alive, NEW q \in alive,
         pc[p] = "held", pc[q] = "held"
  PROVE  p = q
BY DEF LockInv, HolderMadeIt

\* A fresh store satisfies the invariant.
LEMMA SaveInitially ==
  ASSUME Init, LockInv PROVE SaveInv
BY DEF Init, LockInit, LockInv, LockTypeOK, SaveInv, StoreTypes, Runs,
       InsideTheLock, DeletesAlone, Deleting, Loaded, VersionsBehind, SeesTheAcked, StableUnderLock,
       NothingAckedIsLost

\* Every step of a host that does not delete under its runs keeps it.
LEMMA SaveStepwise ==
  ASSUME ~DeleteUnderRun, LockInv, SaveInv, [Next]_vars
  PROVE  SaveInv'
<1> USE DEF SaveInv, StoreTypes, Runs, InsideTheLock, DeletesAlone, Deleting,
            Loaded, VersionsBehind, SeesTheAcked, StableUnderLock,
            NothingAckedIsLost
<1>0. alive \subseteq Procs /\ pc \in [Procs -> LockPcs]
  BY DEF LockInv, LockTypeOK
<1>1. CASE UNCHANGED vars
  BY <1>1 DEF vars, lockVars, storeVars
<1>2. ASSUME NEW p \in Procs, Boot(p)
      PROVE  SaveInv'
  BY <1>0, <1>2 DEF Boot, In, At, Goes, TakesIn, LoadOrder, lockVars
<1>3. ASSUME NEW p \in Procs, Load(p)
      PROVE  SaveInv'
  <2>1. state' = [state EXCEPT ![p] = bytes] /\ version' = version
    BY <1>3 DEF Load, TakesIn, LoadOrder
  <2> QED
    BY <1>0, <1>3, <2>1 DEF Load, In, Goes, lockVars, fileVars
<1>4. ASSUME NEW p \in Procs, Leave(p)
      PROVE  SaveInv'
  BY <1>0, <1>4 DEF Leave, In, Goes, lockVars, fileVars, runVars
<1>5. ASSUME NEW p \in Procs, BeginSave(p)
      PROVE  SaveInv'
  BY <1>0, <1>5 DEF BeginSave, In, Begin, At, Go, Goes, fileVars, LockPcs
<1>6. ASSUME NEW p \in Procs, Compare(p)
      PROVE  SaveInv'
  BY <1>0, <1>6 DEF Compare, Held, At, Goes, lockVars, fileVars, runVars
<1>7. ASSUME NEW p \in Procs, WriteBytes(p)
      PROVE  SaveInv'
  BY <1>0, <1>7, OneInside
     DEF WriteBytes, Held, At, Goes, lockVars, runVars
<1>8. ASSUME NEW p \in Procs, WriteStamp(p)
      PROVE  SaveInv'
  <2> USE <1>0, <1>8 DEF WriteStamp, Held, At, Goes, lockVars
  <2>1. /\ p \in Loaded /\ version[p] = stamp /\ bytes = state[p]
        /\ acked \subseteq state[p] /\ stamp' = stamp + 1
    OBVIOUS
  <2>2. \A q \in alive \ {p} :
          run[q] \notin {"write", "stamp", "end", "unlink", "deleted"}
    BY OneInside
  <2>3. acked' = state[p]
    BY <2>1
  <2>4. StoreTypes' /\ InsideTheLock' /\ DeletesAlone' /\ NothingAckedIsLost'
    BY <2>1, <2>3
  <2>5. VersionsBehind'
    BY <2>1
  <2>6. SeesTheAcked'
    BY <2>1, <2>3
  <2>7. StableUnderLock'
    BY <2>2
  <2> QED
    BY <2>4, <2>5, <2>6, <2>7
<1>9. ASSUME NEW p \in Procs, EndSave(p)
      PROVE  SaveInv'
  BY <1>0, <1>9 DEF EndSave, Release, At, Go, Goes, fileVars, runVars, LockPcs
<1>10. ASSUME NEW p \in Procs, BeginDelete(p)
       PROVE  SaveInv'
  BY <1>0, <1>10 DEF BeginDelete, In, Begin, At, Go, Goes, fileVars, runVars, LockPcs
<1>11. ASSUME NEW p \in Procs, UnlinkStamp(p)
       PROVE  SaveInv'
  BY <1>0, <1>11, OneInside DEF UnlinkStamp, Held, At, Goes, lockVars, runVars
<1>12. ASSUME NEW p \in Procs, UnlinkBytes(p)
       PROVE  SaveInv'
  BY <1>0, <1>12, OneInside DEF UnlinkBytes, Held, At, Goes, lockVars, runVars
<1>13. ASSUME NEW p \in Procs, EndDelete(p)
       PROVE  SaveInv'
  BY <1>0, <1>13 DEF EndDelete, Release, At, Go, Goes, fileVars, runVars, LockPcs
<1>14. ASSUME NEW p \in Procs, TimeOut(p)
       PROVE  SaveInv'
  BY <1>0, <1>14 DEF TimeOut, GiveUp, At, Go, Goes, fileVars, runVars, LockPcs
<1>15. ASSUME NEW p \in Procs, Acquire(p), UNCHANGED storeVars
       PROVE  SaveInv'
  <2>1. /\ p \in alive /\ pc[p] \notin {"idle", "held"}
        /\ alive' = alive
        /\ \A q \in Procs \ {p} : pc'[q] = pc[q]
    BY <1>0, <1>15
       DEF Acquire, Open, Stamp, Read, Judge, Reads, Judges, Retry, Guard, GuardAge,
           ClearGuard, Reread, Rejudge, Steal, Unguard, At, Go
  <2> QED BY <1>0, <1>15, <2>1 DEF storeVars
<1>16. ASSUME NEW p \in Procs, End(p), UNCHANGED storeVars
       PROVE  SaveInv'
  BY <1>16 DEF End, storeVars
<1> QED
  BY <1>1, <1>2, <1>3, <1>4, <1>5, <1>6, <1>7, <1>8, <1>9, <1>10, <1>11, <1>12,
     <1>13, <1>14, <1>15, <1>16 DEF Next, LockStep

\* The invariant of a fenced file: of its lock, and of what is saved under it.
LEMMA SaveInvariance ==
  ASSUME NoDeadGuard, ~DeleteUnderRun PROVE Spec => [](LockInv /\ SaveInv)
<1>1. Init => LockInv /\ SaveInv
  <2>1. Init => LockInv
    BY LockInitially DEF Init
  <2> QED
    BY <2>1, SaveInitially
<1>2. [Next]_vars => [LockNext]_lockVars
  BY LockSteps
<1>3. LockInv /\ SaveInv /\ [Next]_vars => (LockInv /\ SaveInv)'
  BY <1>2, LockStepwise, SaveStepwise
<1> QED
  BY <1>1, <1>3, PTL DEF Spec

\* What a completed save wrote is in the state file from then on, until it is
\* deleted: no save overwrites one its run has not seen, however many processes
\* save and wherever they end.
THEOREM NothingIsLost ==
  ASSUME NoDeadGuard, ~DeleteUnderRun PROVE Spec => []NothingAckedIsLost
<1>1. SaveInv => NothingAckedIsLost
  BY DEF SaveInv
<1> QED
  BY <1>1, SaveInvariance, PTL

\* A run that another's completed save ousted never again gets past the
\* comparison of versions.
THEOREM OustedIsRefused ==
  ASSUME NoDeadGuard, ~DeleteUnderRun PROVE Spec => OustedStaysOut
<1> DEFINE Refused == \A p \in ousted : run[p] = "save" => run'[p] # "write"
<1>1. LockInv /\ SaveInv /\ [Next]_vars => [Refused]_vars
  <2> SUFFICES ASSUME LockInv, SaveInv, Next,
                      NEW p \in ousted, run[p] = "save", run'[p] = "write"
               PROVE  FALSE
    OBVIOUS
  <2>1. p \in Procs /\ run \in [Procs -> Runs] /\ (p \in Loaded => version[p] < stamp)
    BY DEF SaveInv, StoreTypes, VersionsBehind
  <2>2. PICK q \in Procs :
          \/ Boot(q) \/ Load(q) \/ Leave(q)
          \/ BeginSave(q) \/ Compare(q) \/ WriteBytes(q) \/ WriteStamp(q)
          \/ EndSave(q) \/ BeginDelete(q) \/ UnlinkStamp(q) \/ UnlinkBytes(q)
          \/ EndDelete(q) \/ TimeOut(q) \/ LockStep(q)
    BY DEF Next
  <2>3. Compare(q)
    BY <2>1, <2>2
       DEF Boot, Load, Leave, BeginSave, WriteBytes, WriteStamp, EndSave,
           BeginDelete, UnlinkStamp, UnlinkBytes, EndDelete, TimeOut, LockStep,
           storeVars, Goes, Runs
  <2>4. q = p /\ p \in alive /\ stamp = version[p]
    BY <2>1, <2>3 DEF Compare, Held, At, Goes, Runs
  <2> QED
    BY <2>1, <2>4 DEF Loaded, SaveInv, StoreTypes
<1> QED
  BY <1>1, SaveInvariance, PTL DEF Spec, OustedStaysOut

-----------------------------------------------------------------------------
(* A lock of another host, whatever guard is found and whoever ends when.  *)

\* A foreign lock was there first: nobody made another, and a stealer that
\* read its stamp knows it.
ForeignInv ==
  /\ LockTypeOK
  /\ lock.by = Foreign => \A p \in Procs : pc[p] \notin {"stamp", "held"}
  /\ lock.by = Foreign /\ lock.stamped =>
       \A p \in Procs :
         pc[p] # "steal" /\ (pc[p] = "rejudge" => seen[p] = Foreign)

\* At first nobody holds, stamps or steals.
LEMMA ForeignInitially ==
  LockInit => ForeignInv
<1> SUFFICES ASSUME LockInit PROVE ForeignInv
  OBVIOUS
<1> USE LockAssumption DEF LockAssumption
<1>1. PICK s \in Starts : lock = s.lock /\ guard = s.guard /\ alive = s.alive
  BY DEF LockInit
<1>2. guard \in {Nobody, Gone} /\ alive \subseteq Procs
  BY <1>1
<1>3. lock \in Locks
  BY <1>1, FoundIsALock
<1>4. LockTypeOK
  BY <1>2, <1>3 DEF LockInit, LockTypeOK, LockPcs, Makers
<1> QED
  BY <1>4 DEF LockInit, ForeignInv

\* The types of the lock hold whatever guard is left.
LEMMA LockTypeStep ==
  ASSUME LockTypeOK, [LockNext]_lockVars
  PROVE  LockTypeOK'
<1> USE LockAssumption DEF LockAssumption, LockTypeOK, Go, At, LockPcs, Makers
<1>1. CASE UNCHANGED lockVars
  BY <1>1 DEF lockVars
<1>2. ASSUME NEW p \in Procs,
             \/ Begin(p) \/ Retry(p) \/ GiveUp(p) \/ GuardAge(p)
             \/ ClearGuard(p) \/ Unguard(p) \/ Guard(p)
      PROVE  LockTypeOK'
  BY <1>2 DEF Begin, Retry, GiveUp, GuardAge, ClearGuard, Unguard, Guard
<1>3. ASSUME NEW p \in Procs,
             Open(p) \/ Stamp(p) \/ Steal(p) \/ Release(p)
      PROVE  LockTypeOK'
  <2>1. \A m \in Makers, b \in BOOLEAN : [by |-> m, stamped |-> b] \in Locks
    BY DEF Locks
  <2>2. lock' \in Locks
    <3>1. CASE Open(p)
      <4>1. lock' \in {lock, [by |-> p, stamped |-> FALSE]}
        BY <3>1 DEF Open
      <4> QED
        BY <2>1, <4>1
    <3>2. CASE Stamp(p)
      BY <3>2 DEF Stamp, Locks
    <3>3. CASE Steal(p) \/ Release(p)
      <4>1. lock' = NoLock
        BY <3>3 DEF Steal, Release
      <4> QED
        BY <2>1, <4>1 DEF NoLock
    <3> QED
      BY <1>3, <3>1, <3>2, <3>3
  <2>3. /\ UNCHANGED <<guard, alive, ends, seen>>
        /\ \E at \in LockPcs : Go(p, at)
    BY <1>3 DEF Open, Stamp, Steal, Release
  <2> QED
    BY <2>2, <2>3
<1>4. ASSUME NEW p \in Procs, Read(p) \/ Reread(p)
      PROVE  LockTypeOK'
  BY <1>4 DEF Read, Reread, Reads, Text, Locks
<1>5. ASSUME NEW p \in Procs, Judge(p) \/ Rejudge(p)
      PROVE  LockTypeOK'
  BY <1>5 DEF Judge, Rejudge, Judges
<1>6. ASSUME NEW p \in Procs, End(p)
      PROVE  LockTypeOK'
  BY <1>6 DEF End
<1> QED
  BY <1>1, <1>2, <1>3, <1>4, <1>5, <1>6 DEF LockNext, Acquire

\* Every step keeps the invariant, and a stamped foreign lock.
LEMMA ForeignStepwise ==
  ASSUME ForeignInv, [LockNext]_lockVars
  PROVE  /\ ForeignInv'
         /\ lock.by = Foreign /\ lock.stamped => lock' = lock
<1> USE LockAssumption DEF LockAssumption
<1>0. LockTypeOK /\ LockTypeOK'
  BY LockTypeStep DEF ForeignInv
<1> DEFINE Kept == lock.by = Foreign /\ lock.stamped => lock' = lock
<1>1. CASE UNCHANGED lockVars
  BY <1>0, <1>1 DEF lockVars, ForeignInv
<1>2. ASSUME NEW p \in Procs,
             \/ Begin(p) \/ Retry(p) \/ GiveUp(p) \/ GuardAge(p)
             \/ ClearGuard(p) \/ Unguard(p) \/ Guard(p) \/ End(p) \/ Read(p)
             \/ Judge(p)
      PROVE  ForeignInv' /\ Kept
  <2>1. /\ lock' = lock
        /\ \A q \in Procs \ {p} : pc'[q] = pc[q] /\ seen'[q] = seen[q]
        /\ \/ pc'[p] = pc[p] /\ seen'[p] = seen[p]
           \/ pc'[p] \notin {"stamp", "held", "steal", "rejudge"}
    BY <1>0, <1>2
       DEF Begin, Retry, GiveUp, GuardAge, ClearGuard, Unguard, Guard, End,
           Read, Reads, Judge, Judges, Go, LockTypeOK
  <2> QED
    BY <1>0, <2>1 DEF ForeignInv
<1>3. ASSUME NEW p \in Procs, Open(p)
      PROVE  ForeignInv' /\ Kept
  BY <1>0, <1>3 DEF Open, Go, NoLock, LockTypeOK, ForeignInv
<1>4. ASSUME NEW p \in Procs, Stamp(p) \/ Release(p)
      PROVE  ForeignInv' /\ Kept
  <2>1. lock.by # Foreign
    BY <1>4 DEF Stamp, Release, At, ForeignInv
  <2>2. lock'.by # Foreign
    BY <1>0, <1>4, <2>1 DEF Stamp, Release, NoLock, LockTypeOK, Locks
  <2> QED
    BY <1>0, <2>1, <2>2 DEF ForeignInv
<1>5. ASSUME NEW p \in Procs, Reread(p)
      PROVE  ForeignInv' /\ Kept
  BY <1>0, <1>5 DEF Reread, Reads, Text, Go, NoLock, LockTypeOK, ForeignInv
<1>6. ASSUME NEW p \in Procs, Rejudge(p)
      PROVE  ForeignInv' /\ Kept
  <2>1. lock.by = Foreign /\ lock.stamped => pc'[p] # "steal"
    BY <1>0, <1>6
       DEF Rejudge, Judges, MayBeStale, At, Go, NoLock, LockTypeOK, Makers,
           ForeignInv
  <2> QED
    BY <1>0, <1>6, <2>1 DEF Rejudge, Judges, Go, LockTypeOK, ForeignInv
<1>7. ASSUME NEW p \in Procs, Steal(p)
      PROVE  ForeignInv' /\ Kept
  BY <1>0, <1>7 DEF Steal, At, NoLock, ForeignInv
<1> QED
  BY <1>1, <1>2, <1>3, <1>4, <1>5, <1>6, <1>7 DEF LockNext, Acquire

\* A lock from another host is never stolen, whatever steal guards are left and
\* whoever ends in the middle of what.
THEOREM ForeignIsLeft == Spec => ForeignLockStays
<1>1. LockInit => ForeignInv
  BY ForeignInitially
<1>2. ForeignInv /\ [LockNext]_lockVars =>
        ForeignInv' /\ (lock.by = Foreign /\ lock.stamped => lock' = lock)
  BY ForeignStepwise
<1>3. LockSpec => ForeignLockStays
  BY <1>1, <1>2, PTL DEF LockSpec, ForeignLockStays
<1> QED
  BY <1>3, FencedFileLocks, PTL

-----------------------------------------------------------------------------
(* Types, with no hypothesis: guards left behind, deletes under a run.     *)

\* A run that is saving saw a version before the save it has begun; that is
\* why no version exceeds the number of saves.
StoreFits ==
  /\ bytes \subseteq Msgs /\ acked \subseteq Msgs /\ ousted \subseteq Procs
  /\ run \in [Procs -> Runs] /\ state \in [Procs -> SUBSET Msgs]
  /\ saves \in 0 .. MaxSaves /\ deletes \in 0 .. MaxDeletes
  /\ version \in [Procs -> Nat] /\ stamp \in 0 .. saves
  /\ \A p \in Procs : version[p] <= saves
  /\ \A p \in Procs : run[p] \in {"save", "write", "stamp"} => version[p] < saves

LEMMA TypesStep ==
  ASSUME LockTypeOK, StoreFits, Next
  PROVE  StoreFits'
<1> USE FencedAssumption DEF FencedAssumption, StoreFits, Msgs, Goes, Held, In, At,
        fileVars, runVars, lockVars, storeVars
<1>0. alive \subseteq Procs
  BY DEF LockTypeOK
<1>1. ASSUME NEW p \in Procs, Boot(p) \/ Load(p)
      PROVE  StoreFits'
  <2>1. /\ run' = [run EXCEPT ![p] = "load"] \/ run' = [run EXCEPT ![p] = "live"]
        /\ run[p] \in {"none", "load"} /\ ousted' \subseteq ousted
        /\ UNCHANGED <<bytes, stamp, saves, deletes, acked>>
    BY <1>1 DEF Boot, Load
  <2>2. \/ version' = [version EXCEPT ![p] = stamp] /\ state' = state
        \/ version' = version /\ state' = [state EXCEPT ![p] = bytes]
    BY <1>1 DEF Boot, Load, TakesIn
  <2>3. run' \in [Procs -> Runs]
    BY <2>1 DEF Runs
  <2>4. version' \in [Procs -> Nat] /\ state' \in [Procs -> SUBSET Msgs]
    <3> DEFINE S == SUBSET Msgs
    <3>1. stamp \in Nat /\ bytes \in S /\ version \in [Procs -> Nat] /\ state \in [Procs -> S]
      OBVIOUS
    <3> HIDE DEF S
    <3>2. version' \in [Procs -> Nat] /\ state' \in [Procs -> S]
      BY ONLY <2>2, <3>1
    <3> QED
      BY <3>2 DEF S
  <2>5. /\ \A q \in Procs : version'[q] <= saves
        /\ \A q \in Procs : run'[q] \in {"save", "write", "stamp"} => version'[q] < saves
    BY <2>1, <2>2
  <2> QED
    BY <2>1, <2>3, <2>4, <2>5
<1>2. ASSUME NEW p \in Procs, Leave(p)
      PROVE  StoreFits'
  BY <1>2 DEF Leave, Runs
<1>3. ASSUME NEW p \in Procs, BeginSave(p)
      PROVE  StoreFits'
  BY <1>3 DEF BeginSave, Runs
<1>4. ASSUME NEW p \in Procs, Compare(p)
      PROVE  StoreFits'
  BY <1>4 DEF Compare, Runs
<1>5. ASSUME NEW p \in Procs, WriteBytes(p)
      PROVE  StoreFits'
  BY <1>5 DEF WriteBytes, Runs
<1>6. ASSUME NEW p \in Procs, WriteStamp(p)
      PROVE  StoreFits'
  <2>1. Loaded \subseteq Procs
    BY <1>0 DEF Loaded
  <2>2. /\ run[p] = "stamp" /\ version[p] < saves /\ version[p] \in Nat
        /\ stamp' = version[p] + 1 /\ run' = [run EXCEPT ![p] = "end"]
        /\ version' = [version EXCEPT ![p] = stamp'] /\ acked' = acked \cup state[p]
        /\ ousted' = ousted \cup (Loaded \ {p})
        /\ UNCHANGED <<bytes, state, saves, deletes>>
    BY <1>6 DEF WriteStamp
  <2>3. stamp' \in 0 .. saves /\ run' \in [Procs -> Runs] /\ version' \in [Procs -> Nat]
    BY <2>2 DEF Runs
  <2>4. /\ \A q \in Procs : version'[q] <= saves
        /\ \A q \in Procs : run'[q] \in {"save", "write", "stamp"} => version'[q] < saves
    BY <2>2, <2>3
  <2> QED
    BY <2>1, <2>2, <2>3, <2>4
<1>7. ASSUME NEW p \in Procs, EndSave(p)
      PROVE  StoreFits'
  BY <1>7 DEF EndSave, Release, Runs
<1>8. ASSUME NEW p \in Procs, BeginDelete(p)
      PROVE  StoreFits'
  BY <1>8 DEF BeginDelete, Runs
<1>9. ASSUME NEW p \in Procs, UnlinkStamp(p)
      PROVE  StoreFits'
  <2>1. Loaded \subseteq Procs
    BY <1>0 DEF Loaded
  <2> QED
    BY <1>9, <2>1 DEF UnlinkStamp, Runs
<1>10. ASSUME NEW p \in Procs, UnlinkBytes(p)
       PROVE  StoreFits'
  BY <1>10 DEF UnlinkBytes, Runs
<1>11. ASSUME NEW p \in Procs, EndDelete(p)
       PROVE  StoreFits'
  BY <1>11 DEF EndDelete, Release, Runs
<1>12. ASSUME NEW p \in Procs, TimeOut(p)
       PROVE  StoreFits'
  BY <1>12 DEF TimeOut, Runs
<1> QED
  BY <1>1, <1>2, <1>3, <1>4, <1>5, <1>6, <1>7, <1>8, <1>9, <1>10, <1>11, <1>12
     DEF Next, LockStep

\* Whatever is left behind and whoever deletes what, every variable keeps its
\* type; in particular no version, on disk or in a run, is ahead of the saves.
THEOREM TypesHold == Spec => []TypeOK
<1>1. Init => LockTypeOK /\ StoreFits
  <2>1. Init => LockTypeOK
    BY ForeignInitially DEF Init, ForeignInv
  <2>2. Init => StoreFits
    BY FencedAssumption DEF FencedAssumption, Init, StoreFits, Runs, Msgs
  <2> QED
    BY <2>1, <2>2
<1>2. LockTypeOK /\ StoreFits /\ [Next]_vars => (LockTypeOK /\ StoreFits)'
  <2>1. LockTypeOK /\ [Next]_vars => LockTypeOK'
    BY LockSteps, LockTypeStep
  <2>2. StoreFits /\ UNCHANGED vars => StoreFits'
    BY DEF StoreFits, vars, storeVars, Msgs
  <2> QED
    BY <2>1, <2>2, TypesStep
<1>3. LockTypeOK /\ StoreFits => TypeOK
  <2> SUFFICES ASSUME LockTypeOK, StoreFits PROVE TypeOK
    OBVIOUS
  <2>1. saves \in 0 .. MaxSaves /\ stamp \in 0 .. saves /\ version \in [Procs -> Nat]
        /\ \A p \in Procs : version[p] <= saves
    BY DEF StoreFits
  <2>2. stamp \in 0 .. MaxSaves /\ version \in [Procs -> 0 .. MaxSaves]
    BY <2>1, FencedAssumption DEF FencedAssumption
  <2> QED
    BY <2>2 DEF StoreFits, TypeOK
<1> QED
  BY <1>1, <1>2, <1>3, PTL DEF Spec
=============================================================================
