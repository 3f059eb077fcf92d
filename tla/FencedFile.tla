----------------------------- MODULE FencedFile -----------------------------
(***************************************************************************)
(* fileStore(path, parse, {fenced: true}) of packages/tea/src/node/, as    *)
(* the runs of several processes use it through the fencing extension of   *)
(* internal/engine/builtins.ts.  What is under the lock is FileLock's      *)
(* business; this module says what a process does before, inside and after *)
(* it.  A State is abstracted to the set of Msgs folded into it.           *)
(***************************************************************************)
EXTENDS FileLock

CONSTANTS
  MaxSaves,       \* bound: saves, each of a State with one Msg more
  MaxDeletes,     \* bound: calls of delete()
  DeleteUnderRun  \* a host may delete what a live run has loaded

ASSUME FencedAssumption ==
  MaxSaves \in Nat /\ MaxDeletes \in Nat /\ DeleteUnderRun \in BOOLEAN

VARIABLES
  bytes,    \* the State in the state file
  stamp,    \* the version in the fence file; 0 when it is absent
  run,      \* what each process is doing with the store
  version,  \* the version its run last saw
  state,    \* the State of its run
  saves,    \* saves begun so far; each adds the Msg of that number
  deletes,  \* deletes begun so far
  acked,    \* history: the Msgs of completed saves, since the last delete
  ousted    \* history: processes whose run another save, or a delete, ousted

storeVars == <<bytes, stamp, run, version, state, saves, deletes, acked, ousted>>
runVars == <<version, state>>
fileVars == <<bytes, stamp, acked, ousted>>
vars == <<lockVars, storeVars>>

Msgs == 1 .. MaxSaves

Init ==
  /\ LockInit
  /\ bytes = {} /\ stamp = 0
  /\ run = [p \in Procs |-> "none"]
  /\ version = [p \in Procs |-> 0]
  /\ state = [p \in Procs |-> {}]
  /\ saves = 0 /\ deletes = 0
  /\ acked = {} /\ ousted = {}

\* Process p is doing this, inside the lock if it must be.
In(p, what) == p \in alive /\ run[p] = what
Held(p, what) == At(p, "held") /\ run[p] = what
Goes(p, what) == run' = [run EXCEPT ![p] = what]

\* The processes that have read the store and not let go of it.
Loaded == {p \in alive : run[p] \notin {"none", "delete", "unlink", "deleted"}}
Deleting == {p \in alive : run[p] \in {"delete", "unlink", "deleted"}}

-----------------------------------------------------------------------------
(* loadFenced(): version first, bytes second, with no lock.                *)

MutLoadOrder == <<"bytes", "version">>
LoadOrder == <<"version", "bytes">>

TakesIn(p, what) ==
  IF what = "version"
  THEN version' = [version EXCEPT ![p] = stamp] /\ UNCHANGED state
  ELSE state' = [state EXCEPT ![p] = bytes] /\ UNCHANGED version

Boot(p) ==
  /\ In(p, "none") /\ At(p, "idle")
  /\ DeleteUnderRun \/ Deleting = {}
  /\ TakesIn(p, LoadOrder[1])
  /\ Goes(p, "load")
  /\ ousted' = ousted \ {p}
  /\ UNCHANGED <<lockVars, bytes, stamp, saves, deletes, acked>>

Load(p) ==
  /\ In(p, "load")
  /\ TakesIn(p, LoadOrder[2])
  /\ Goes(p, "live")
  /\ UNCHANGED <<lockVars, fileVars, saves, deletes>>

\* The run stops; the next one in this process loads again.
Leave(p) ==
  /\ In(p, "live") /\ Goes(p, "none")
  /\ UNCHANGED <<lockVars, fileVars, runVars, saves, deletes>>

-----------------------------------------------------------------------------
(* saveFenced(), from the fold that made the State it saves.               *)

BeginSave(p) ==
  /\ In(p, "live") /\ saves < MaxSaves
  /\ saves' = saves + 1
  /\ state' = [state EXCEPT ![p] = @ \cup {saves'}]
  /\ Begin(p) /\ Goes(p, "save")
  /\ UNCHANGED <<fileVars, version, deletes>>

\* Another version than the run's is a conflict: the save rejects.
MutCompare(p) ==
  /\ Held(p, "save") /\ Goes(p, "write")
  /\ UNCHANGED <<lockVars, fileVars, runVars, saves, deletes>>
Compare(p) ==
  /\ Held(p, "save")
  /\ Goes(p, IF stamp = version[p] THEN "write" ELSE "end")
  /\ UNCHANGED <<lockVars, fileVars, runVars, saves, deletes>>

\* The state file is renamed into place, then the stamp.
WriteBytes(p) ==
  /\ Held(p, "write") /\ Goes(p, "stamp")
  /\ bytes' = state[p]
  /\ UNCHANGED <<lockVars, stamp, acked, ousted, runVars, saves, deletes>>

MutWriteStamp(p) ==
  /\ Held(p, "stamp") /\ Goes(p, "end")
  /\ stamp' = stamp + version[p] + 1
  /\ version' = [version EXCEPT ![p] = stamp']
  /\ acked' = acked \cup state[p]
  /\ ousted' = ousted \cup (Loaded \ {p})
  /\ UNCHANGED <<lockVars, bytes, state, saves, deletes>>
WriteStamp(p) ==
  /\ Held(p, "stamp") /\ Goes(p, "end")
  /\ stamp' = version[p] + 1
  /\ version' = [version EXCEPT ![p] = stamp']
  /\ acked' = acked \cup state[p]
  /\ ousted' = ousted \cup (Loaded \ {p})
  /\ UNCHANGED <<lockVars, bytes, state, saves, deletes>>

EndSave(p) ==
  /\ run[p] = "end" /\ Release(p) /\ Goes(p, "live")
  /\ UNCHANGED <<fileVars, runVars, saves, deletes>>

-----------------------------------------------------------------------------
(* delete(): the stamp first, the state second.  Where there is no stamp,  *)
(* it takes nothing from a run.                                            *)

BeginDelete(p) ==
  /\ In(p, "none") /\ deletes < MaxDeletes
  /\ DeleteUnderRun \/ Loaded \cup Deleting = {}
  /\ deletes' = deletes + 1
  /\ Begin(p) /\ Goes(p, "delete")
  /\ UNCHANGED <<fileVars, runVars, saves>>

UnlinkStamp(p) ==
  /\ Held(p, "delete") /\ Goes(p, "unlink")
  /\ stamp' = 0
  /\ acked' = {}
  /\ ousted' = ousted \cup (IF stamp = 0 THEN {} ELSE Loaded)
  /\ UNCHANGED <<lockVars, bytes, runVars, saves, deletes>>

UnlinkBytes(p) ==
  /\ Held(p, "unlink") /\ Goes(p, "deleted")
  /\ bytes' = {}
  /\ UNCHANGED <<lockVars, stamp, acked, ousted, runVars, saves, deletes>>

EndDelete(p) ==
  /\ run[p] = "deleted" /\ Release(p) /\ Goes(p, "none")
  /\ UNCHANGED <<fileVars, runVars, saves, deletes>>

-----------------------------------------------------------------------------
(* The specification.                                                      *)

\* The wait for the lock ended in FileLockTimeoutError: the save rejects, and
\* so does the delete.
TimeOut(p) ==
  /\ GiveUp(p)
  /\ Goes(p, IF run[p] = "delete" THEN "none" ELSE "live")
  /\ UNCHANGED <<fileVars, runVars, saves, deletes>>

LockStep(p) == (Acquire(p) \/ End(p)) /\ UNCHANGED storeVars

Next ==
  \E p \in Procs :
    \/ Boot(p) \/ Load(p) \/ Leave(p)
    \/ BeginSave(p) \/ Compare(p) \/ WriteBytes(p) \/ WriteStamp(p) \/ EndSave(p)
    \/ BeginDelete(p) \/ UnlinkStamp(p) \/ UnlinkBytes(p) \/ EndDelete(p)
    \/ TimeOut(p) \/ LockStep(p)

Spec == Init /\ [][Next]_vars

-----------------------------------------------------------------------------
(* Properties.                                                             *)

Runs == {"none", "load", "live", "save", "write", "stamp", "end", "delete",
         "unlink", "deleted"}

\* Every variable keeps its type; a version counts completed saves.
TypeOK ==
  /\ LockTypeOK
  /\ bytes \subseteq Msgs /\ stamp \in 0 .. MaxSaves
  /\ run \in [Procs -> Runs]
  /\ version \in [Procs -> 0 .. MaxSaves]
  /\ state \in [Procs -> SUBSET Msgs]
  /\ saves \in 0 .. MaxSaves /\ deletes \in 0 .. MaxDeletes
  /\ acked \subseteq Msgs /\ ousted \subseteq Procs

\* A Msg of a completed save is in the state file from then on, whatever other
\* processes save, however they crash between two file operations: no save
\* overwrites one its run has not seen.
NothingAckedIsLost == acked \subseteq bytes

\* At most one live writer (ADR 0017): a run that a completed save of another
\* ousted is refused at its next save, and at every later one; it never writes
\* again.  That is so of a store nobody deletes under a live run: delete()
\* counts the versions from 0 again, and they may come back to an old run's.
OustedStaysOut ==
  [][\A p \in ousted : run[p] = "save" => run'[p] # "write"]_vars

=============================================================================
