----------------------------- MODULE SubHandles -----------------------------
(***************************************************************************)
(* The two batteries that hold something open while the State asks for it: *)
(* fromTransport (packages/tea/src/subs/transport.ts) and                  *)
(* defineManagedResource (packages/tea/src/subs/managed-resource.ts), with *)
(* the engine's reconcileSubs, which stops a Sub before it starts another. *)
(* Each keeps a table of what is open by the author's key, for the         *)
(* handlers of Cmds; the table belongs to the battery, not to a run.       *)
(***************************************************************************)
EXTENDS Integers, SequencesExt

CONSTANTS
  HandleRuns,   \* the runs of the machine that share one battery
  HandleKeys,   \* the keys the State may ask for
  HandleMax     \* bound: the handles that are opened

ASSUME HandleAssumption == HandleMax \in Nat /\ "none" \notin HandleKeys

VARIABLES
  handles,     \* every handle that was built: its run, its key and its status
  handleTable, \* what the battery knows as open for a key; 0 is nothing
  handleSub,   \* the handle of each run's Sub; 0 while it has none
  handlePhase, \* each run: up, stopping or stopped
  handleWaits  \* the releases the engine tracks for stop() to wait for

handleVars == <<handles, handleTable, handleSub, handlePhase, handleWaits>>

HandlesInit ==
  /\ handles = <<>>
  /\ handleTable = [key \in HandleKeys |-> 0]
  /\ handleSub = [r \in HandleRuns |-> 0]
  /\ handlePhase = [r \in HandleRuns |-> "up"]
  /\ handleWaits = {}

-----------------------------------------------------------------------------

NewHandle(r, key, status) == [run |-> r, key |-> key, status |-> status]

\* An async release is returned to the engine, which tracks it.
MutTracks(h) == {}
Tracks(h) == {h}

\* What the cleanup of a Sub leaves: the handle is forgotten, its release begins.
Cleaned(all, h) == IF h = 0 THEN all ELSE [all EXCEPT ![h].status = "closing"]
Unlisted(table, h) ==
  IF h = 0 THEN table ELSE [table EXCEPT ![handles[h].key] = 0]
TracksAlso(h) == IF h = 0 THEN handleWaits ELSE handleWaits \union Tracks(h)

\* What a throw while wiring leaves in the table: it is published last.
MutOnThrow(table, key, h) == [table EXCEPT ![key] = h]
OnThrow(table, key, h) == table

\* The State is installed and asks for another key, or for none.  A runner that
\* throws is not registered, closes what it opened, and the run stops.
AsksFor(r) ==
  LET old == handleSub[r]
      cleaned == Cleaned(handles, old)
      forgotten == Unlisted(handleTable, old)
      new == Len(handles) + 1
  IN /\ handlePhase[r] = "up"
     /\ handleWaits' = TracksAlso(old)
     /\ \/ /\ old # 0
           /\ handles' = cleaned /\ handleTable' = forgotten
           /\ handleSub' = [handleSub EXCEPT ![r] = 0]
           /\ UNCHANGED handlePhase
        \/ \E key \in HandleKeys :
             /\ new <= HandleMax
             /\ old # 0 => handles[old].key # key
             /\ \/ /\ handles' = Append(cleaned, NewHandle(r, key, "open"))
                   /\ handleTable' = [forgotten EXCEPT ![key] = new]
                   /\ handleSub' = [handleSub EXCEPT ![r] = new]
                   /\ UNCHANGED handlePhase
                \/ /\ handles' = Append(cleaned, NewHandle(r, key, "closed"))
                   /\ handleTable' = OnThrow(forgotten, key, new)
                   /\ handleSub' = [handleSub EXCEPT ![r] = 0]
                   /\ handlePhase' = [handlePhase EXCEPT ![r] = "stopping"]

StopsHandles(r) ==
  /\ handlePhase[r] = "up"
  /\ handlePhase' = [handlePhase EXCEPT ![r] = "stopping"]
  /\ handles' = Cleaned(handles, handleSub[r])
  /\ handleTable' = Unlisted(handleTable, handleSub[r])
  /\ handleWaits' = TracksAlso(handleSub[r])
  /\ handleSub' = [handleSub EXCEPT ![r] = 0]

\* stop() returns once the releases it found are done.
HandlesStopped(r) ==
  /\ handlePhase[r] = "stopping"
  /\ \A h \in handleWaits : handles[h].run = r => handles[h].status = "closed"
  /\ handlePhase' = [handlePhase EXCEPT ![r] = "stopped"]
  /\ UNCHANGED <<handles, handleTable, handleSub, handleWaits>>

ReleaseEnds ==
  \E h \in DOMAIN handles :
    /\ handles[h].status = "closing"
    /\ handles' = [handles EXCEPT ![h].status = "closed"]
    /\ UNCHANGED <<handleTable, handleSub, handlePhase, handleWaits>>

HandlesNext ==
  \/ ReleaseEnds
  \/ \E r \in HandleRuns : AsksFor(r) \/ StopsHandles(r) \/ HandlesStopped(r)

HandlesSpec == HandlesInit /\ [][HandlesNext]_handleVars

-----------------------------------------------------------------------------

(* Nothing is open that no Sub will close, also where a runner threw half  *)
(* way; a handler that asks for the key of its run's Sub gets that Sub's   *)
(* handle, and nobody gets one whose release has begun; when stop() has    *)
(* returned every release is over ("`await runtime.stop()` means the       *)
(* release finished").  That is so of a battery one run uses: where two    *)
(* share one, either's Sub replaces the handle of the other in the table.  *)
HandlesAreHeld ==
  /\ \A h \in DOMAIN handles :
       handles[h].status = "open" <=> h \in {handleSub[r] : r \in HandleRuns}
  /\ \A r \in HandleRuns :
       handleSub[r] # 0 => handleTable[handles[handleSub[r]].key] = handleSub[r]
  /\ \A key \in HandleKeys :
       handleTable[key] # 0 => handles[handleTable[key]].status = "open"
  /\ \A h \in DOMAIN handles :
       handlePhase[handles[h].run] = "stopped" => handles[h].status = "closed"
=============================================================================
