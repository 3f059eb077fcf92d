------------------------------ MODULE FileLock ------------------------------
(***************************************************************************)
(* The lock file of packages/tea/src/node/file-lock.ts, over processes     *)
(* that may end (exit or crash) at any time, and what they leave behind.   *)
(*                                                                         *)
(* An action is one file operation: a process runs no other while it       *)
(* awaits one.  A lock file is abstracted to who made it and whether the   *)
(* stamp is in it; the steal guard to who made it.  Ages are judged by     *)
(* one rule: a file without a stamp can be older than graceMs only if      *)
(* whoever made it is gone.  (graceMs, 2 s, is the gap the code allows a   *)
(* live writer between two file operations.)                               *)
(***************************************************************************)
EXTENDS Naturals

CONSTANTS
  Procs,     \* the processes
  Gone,      \* an earlier process on this machine, dead before all this
  Foreign,   \* a process on another host
  Nobody,    \* nobody made it: the file is absent
  Unwritten, \* what an empty lock file says
  Starts,    \* how things may stand at first: a lock, a guard, who is alive
  MaxEnds,   \* bound: processes that end
  EndsAnyTime \* a process may end while a steal is under way

NoLock == [by |-> Nobody, stamped |-> FALSE]
Makers == Procs \cup {Gone, Foreign, Nobody}
Locks == [by : Makers, stamped : BOOLEAN]

ASSUME LockAssumption ==
  /\ Procs \cap {Gone, Foreign, Nobody, Unwritten} = {}
  /\ Gone \notin {Foreign, Nobody, Unwritten}
  /\ Foreign \notin {Nobody, Unwritten} /\ Nobody # Unwritten
  /\ Starts \subseteq
       [lock : {NoLock} \cup [by : {Gone, Foreign}, stamped : BOOLEAN],
        guard : {Nobody, Gone}, alive : SUBSET Procs]
  /\ MaxEnds \in Nat /\ EndsAnyTime \in BOOLEAN

VARIABLES
  lock,   \* the lock file
  guard,  \* who made the steal guard
  alive,  \* the processes that run
  ends,   \* how many have ended
  pc,     \* where each is in withFileLock
  seen    \* what each last read in the lock file

lockVars == <<lock, guard, alive, ends, pc, seen>>

LockInit ==
  /\ \E s \in Starts : lock = s.lock /\ guard = s.guard /\ alive = s.alive
  /\ ends = 0
  /\ pc = [p \in Procs |-> "idle"]
  /\ seen = [p \in Procs |-> Nobody]

At(p, here) == p \in alive /\ pc[p] = here
Go(p, there) == pc' = [pc EXCEPT ![p] = there]

-----------------------------------------------------------------------------
(* Judging a lock.                                                         *)

Text == IF lock.stamped THEN lock.by ELSE Unwritten

\* The lock read as text may be judged stale now: it is empty and the file of
\* that path is old, or it names a process of this machine that is not alive.
\* A lock from another host never is.
MutMayBeStale(text) ==
  IF text = Unwritten THEN lock.by \notin alive ELSE text \notin alive
MayBeStale(text) ==
  IF text = Unwritten THEN lock.by \notin alive
  ELSE text \notin alive \cup {Foreign}

\* It may be judged not stale: it is empty and still young, or live, or not of
\* this host.
MayBeHeld(text) == text = Unwritten \/ text \in alive \cup {Foreign}

\* inspectLock(), its read: the lock may have vanished.
Reads(p, judge, vanished) ==
  /\ IF lock = NoLock
     THEN Go(p, vanished) /\ UNCHANGED seen
     ELSE Go(p, judge) /\ seen' = [seen EXCEPT ![p] = Text]
  /\ UNCHANGED <<lock, guard, alive, ends>>

\* inspectLock(), its stat and the verdict.
Judges(p, stale, held, vanished) ==
  /\ IF lock = NoLock THEN Go(p, vanished)
     ELSE \/ MayBeStale(seen[p]) /\ Go(p, stale)
          \/ MayBeHeld(seen[p]) /\ Go(p, held)
  /\ seen' = [seen EXCEPT ![p] = Nobody]
  /\ UNCHANGED <<lock, guard, alive, ends>>

-----------------------------------------------------------------------------
(* acquireFileLock().                                                      *)

Begin(p) ==
  /\ At(p, "idle") /\ Go(p, "open")
  /\ UNCHANGED <<lock, guard, alive, ends, seen>>

\* open(lockPath, "wx"): the file is made, empty, or is there.
Open(p) ==
  /\ At(p, "open")
  /\ IF lock = NoLock
     THEN lock' = [by |-> p, stamped |-> FALSE] /\ Go(p, "stamp")
     ELSE UNCHANGED lock /\ Go(p, "read")
  /\ UNCHANGED <<guard, alive, ends, seen>>

\* The stamp is written through the handle: to the file this process made,
\* wherever that is by now.
Stamp(p) ==
  /\ At(p, "stamp") /\ Go(p, "held")
  /\ lock' = IF lock.by = p THEN [lock EXCEPT !.stamped = TRUE] ELSE lock
  /\ UNCHANGED <<guard, alive, ends, seen>>

Read(p) == At(p, "read") /\ Reads(p, "judge", "retry")

Judge(p) == At(p, "judge") /\ Judges(p, "guard", "retry", "retry")

\* The wait is not over, or it is and the writer rejects.
Retry(p) ==
  /\ At(p, "retry") /\ Go(p, "open")
  /\ UNCHANGED <<lock, guard, alive, ends, seen>>

GiveUp(p) ==
  /\ At(p, "retry") /\ Go(p, "idle")
  /\ UNCHANGED <<lock, guard, alive, ends, seen>>

-----------------------------------------------------------------------------
(* stealIfStillStale().                                                    *)

Guard(p) ==
  /\ At(p, "guard")
  /\ IF guard = Nobody
     THEN guard' = p /\ Go(p, "reread")
     ELSE UNCHANGED guard /\ Go(p, "age")
  /\ UNCHANGED <<lock, alive, ends, seen>>

\* The guard is there: is it old enough to be a crash?
GuardAge(p) ==
  /\ At(p, "age")
  /\ \/ guard \notin alive \cup {Nobody} /\ Go(p, "clear")
     \/ Go(p, "retry")
  /\ UNCHANGED <<lock, guard, alive, ends, seen>>

ClearGuard(p) ==
  /\ At(p, "clear") /\ Go(p, "retry")
  /\ guard' = Nobody
  /\ UNCHANGED <<lock, alive, ends, seen>>

Reread(p) == At(p, "reread") /\ Reads(p, "rejudge", "unguard")

\* The lock is judged again, under the guard.
MutUnjudged(p) ==
  At(p, "rejudge") /\ Go(p, "steal")
    /\ UNCHANGED <<lock, guard, alive, ends, seen>>
Rejudge(p) == At(p, "rejudge") /\ Judges(p, "steal", "unguard", "unguard")

Steal(p) ==
  /\ At(p, "steal") /\ Go(p, "unguard")
  /\ lock' = NoLock
  /\ UNCHANGED <<guard, alive, ends, seen>>

Unguard(p) ==
  /\ At(p, "unguard") /\ Go(p, "retry")
  /\ guard' = Nobody
  /\ UNCHANGED <<lock, alive, ends, seen>>

-----------------------------------------------------------------------------
(* The end of withFileLock(), and of a process.                            *)

\* Whatever is at lockPath goes.
Release(p) ==
  /\ At(p, "held") /\ Go(p, "idle")
  /\ lock' = NoLock
  /\ UNCHANGED <<guard, alive, ends, seen>>

\* Process p exits or crashes; its files stay.
End(p) ==
  /\ p \in alive /\ ends < MaxEnds
  /\ EndsAnyTime \/ guard = Nobody
  /\ alive' = alive \ {p}
  /\ ends' = ends + 1
  /\ UNCHANGED <<lock, guard, pc, seen>>

Acquire(p) ==
  \/ Open(p) \/ Stamp(p) \/ Read(p) \/ Judge(p) \/ Retry(p)
  \/ Guard(p) \/ GuardAge(p) \/ ClearGuard(p)
  \/ Reread(p) \/ Rejudge(p) \/ Steal(p) \/ Unguard(p)

LockNext ==
  \E p \in Procs : Begin(p) \/ Acquire(p) \/ GiveUp(p) \/ Release(p) \/ End(p)

LockSpec == LockInit /\ [][LockNext]_lockVars

-----------------------------------------------------------------------------
(* Properties.                                                             *)

LockPcs == {"idle", "open", "stamp", "read", "judge", "retry", "guard", "age",
            "clear", "reread", "rejudge", "steal", "unguard", "held"}

\* Every variable keeps its type.
LockTypeOK ==
  /\ lock \in Locks /\ guard \in Makers
  /\ alive \subseteq Procs /\ ends \in 0 .. MaxEnds
  /\ pc \in [Procs -> LockPcs] /\ seen \in [Procs -> Makers \cup {Unwritten}]

\* Never two holders at once (file-lock.ts on stealIfStillStale, and its test):
\* of the processes that run, at most one is inside the lock.
MutualExclusion ==
  \A p, q \in alive : pc[p] = "held" /\ pc[q] = "held" => p = q

\* A lock from another host is never stolen: that host may be writing.
ForeignLockStays ==
  [][lock.by = Foreign /\ lock.stamped => lock' = lock]_lockVars

=============================================================================
