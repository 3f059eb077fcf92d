------------------------- MODULE EventSourcedStore -------------------------
(***************************************************************************)
(* doEventSourcedStore of packages/tea/src/do/event-sourced-store.ts, with *)
(* the run that saves through it, the observer that appends to it and a    *)
(* host that may be evicted at any time.                                   *)
(*                                                                         *)
(* A State is abstracted to the sequence of Msgs folded into it; Msgs are  *)
(* numbered as they are made.  An append is followed from one await to the *)
(* next.  Storage writes what it is given, in the order it is given it.    *)
(***************************************************************************)
EXTENDS Naturals, Sequences, FiniteSets

CONSTANTS
  SnapshotEvery,    \* opts.snapshotEvery
  AwaitsAppends,    \* the host lets a turn's append settle before the next
  PutsLandTogether, \* an eviction leaves both puts of an append or neither
  MayDiscard,       \* parse may not recognise the snapshot
  MaxMsgs,          \* bound: Msgs
  MaxEvictions      \* bound: evictions

ASSUME StoreAssumption ==
  /\ SnapshotEvery \in Nat \ {0}
  /\ {AwaitsAppends, PutsLandTogether, MayDiscard} \subseteq BOOLEAN
  /\ MaxMsgs \in Nat /\ MaxEvictions \in Nat

Msgs == 1 .. MaxMsgs
None == <<0>>   \* no snapshot; null

VARIABLES
  events,       \* storage: the log, by seq
  meta,         \* storage: the meta cell's lastSeq
  snapshot,     \* storage: the snapshot cell
  up,           \* the actor is activated
  state,        \* the run's State
  latestState,  \* the State of the last save()
  lastSeq,      \* the mirror of meta
  snapshotSeq,  \* the seq of the last snapshot, as far as this activation knows
  unheard,      \* the Msg folded and saved whose observers have not run
  writers,      \* appends and snapshotNow() calls under way
  made,         \* Msgs made so far
  evictions,    \* evictions so far
  acked,        \* history: the Msgs in the State whose append has resolved
  appended      \* history: an append of this activation has resolved

storage == <<events, meta, snapshot>>
memory == <<state, latestState, lastSeq, snapshotSeq>>
vars == <<storage, memory, up, unheard, writers, made, evictions, acked, appended>>

\* A snapshot cell: seq and state.
NoSnapshot == [seq |-> 0, state |-> None]

Init ==
  /\ events = <<>> /\ meta = 0 /\ snapshot = NoSnapshot
  /\ up = FALSE
  /\ state = <<>> /\ latestState = None
  /\ lastSeq = 0 /\ snapshotSeq = 0
  /\ unheard = 0 /\ writers = {} /\ made = 0 /\ evictions = 0
  /\ acked = 0 /\ appended = FALSE

\* The turn's appends have settled, where the host waits for that.
Settled == AwaitsAppends => unheard = 0 /\ writers = {}

\* One writer moves on; or is done.
Moves(w, at) == writers' = (writers \ {w}) \cup {[w EXCEPT !.at = at]}

-----------------------------------------------------------------------------
(* An activation: load() folds, and boot saves the State it got.           *)

MutMirror == snapshot.seq
Mirror == meta

MutReplayFrom(cell) == cell.seq + 2
ReplayFrom(cell) == cell.seq + 1

Load ==
  /\ ~up
  /\ \E cell \in {snapshot} \cup (IF MayDiscard THEN {NoSnapshot} ELSE {}) :
       LET base == IF cell.state = None THEN <<>> ELSE cell.state IN
       /\ state' = base \o SubSeq(events, ReplayFrom(cell), Len(events))
       /\ snapshotSeq' = cell.seq
  /\ lastSeq' = Mirror
  /\ latestState' = state'
  /\ up' = TRUE /\ appended' = FALSE
  /\ UNCHANGED <<storage, unheard, writers, made, evictions, acked>>

\* The isolate is gone, with what it had not put.
Evict ==
  /\ up /\ evictions < MaxEvictions
  /\ PutsLandTogether => \A w \in writers : w.at # "meta"
  /\ evictions' = evictions + 1
  /\ up' = FALSE /\ unheard' = 0 /\ writers' = {}
  /\ UNCHANGED <<storage, memory, made, acked, appended>>

-----------------------------------------------------------------------------
(* A transition of the run.                                                *)

\* The fold, and save(): only the State is held.
Save ==
  /\ up /\ unheard = 0 /\ made < MaxMsgs /\ Settled
  /\ made' = made + 1
  /\ unheard' = made'
  /\ state' = Append(state, made')
  /\ latestState' = state'
  /\ UNCHANGED <<storage, lastSeq, snapshotSeq, up, writers, evictions, acked,
                 appended>>

\* The observers hear of the Msg: append() takes its seq.
Hear ==
  /\ up /\ unheard # 0
  /\ lastSeq' = lastSeq + 1
  /\ writers' = writers \cup
       {[at |-> "event", seq |-> lastSeq', msg |-> unheard]}
  /\ unheard' = 0
  /\ UNCHANGED <<storage, state, latestState, snapshotSeq, up, made, evictions,
                 acked, appended>>

-----------------------------------------------------------------------------
(* append(), after it has its seq.                                         *)

\* Earlier puts come first.
InTurn(w) == \A v \in writers : v.at = w.at => v.seq >= w.seq

PutEvent(w) ==
  /\ w.at = "event" /\ InTurn(w)
  /\ events' = [k \in 1 .. Len(events) \cup {w.seq} |->
                  IF k = w.seq THEN w.msg ELSE events[k]]
  /\ Moves(w, "meta")
  /\ UNCHANGED <<meta, snapshot, memory, up, unheard, made, evictions, acked,
                 appended>>

MutMetaCell(w) == w.seq + 1
MetaCell(w) == w.seq

PutMeta(w) ==
  /\ w.at = "meta" /\ InTurn(w)
  /\ meta' = MetaCell(w)
  /\ Moves(w, "written")
  /\ UNCHANGED <<events, snapshot, memory, up, unheard, made, evictions, acked,
                 appended>>

\* The append resolves: the host may know of the Msg.
Resolves(w) ==
  /\ writers' = writers \ {w}
  /\ appended' = TRUE
  /\ acked' = IF w.seq > acked THEN w.seq ELSE acked

\* A snapshot is due, of the State held now, under the seq of this append.
MutDue(seq) == seq - snapshotSeq > SnapshotEvery
Due(seq) == seq - snapshotSeq >= SnapshotEvery

MutCell(w) == [seq |-> w.seq - 1, state |-> latestState]
Cell(w) == [seq |-> w.seq, state |-> latestState]

PutSnapshot(w) ==
  /\ w.at = "written" /\ InTurn(w) /\ Due(w.seq) /\ latestState # None
  /\ snapshot' = Cell(w)
  /\ Moves(w, "snapshot")
  /\ UNCHANGED <<events, meta, memory, up, unheard, made, evictions, acked, appended>>

NoSnapshotDue(w) ==
  /\ w.at = "written" /\ InTurn(w) /\ ~(Due(w.seq) /\ latestState # None)
  /\ Resolves(w)
  /\ UNCHANGED <<storage, memory, up, unheard, made, evictions>>

\* writeSnapshot() returns, to the append or to snapshotNow().
EndSnapshot(w) ==
  /\ w.at \in {"snapshot", "now"} /\ InTurn(w)
  /\ snapshotSeq' = w.seq
  /\ IF w.at = "snapshot" THEN Resolves(w)
     ELSE writers' = writers \ {w} /\ UNCHANGED <<acked, appended>>
  /\ UNCHANGED <<storage, state, latestState, lastSeq, up, unheard, made, evictions>>

Appending ==
  /\ up
  /\ \E w \in writers : PutEvent(w) \/ PutMeta(w) \/ PutSnapshot(w)
                          \/ NoSnapshotDue(w) \/ EndSnapshot(w)

\* snapshotNow(), by a host between settled transitions.
SnapshotNow ==
  /\ up /\ unheard = 0 /\ writers = {}
  /\ latestState # None /\ lastSeq > snapshotSeq
  /\ snapshot' = [seq |-> lastSeq, state |-> latestState]
  /\ writers' = {[at |-> "now", seq |-> lastSeq, msg |-> 0]}
  /\ UNCHANGED <<events, meta, memory, up, unheard, made, evictions, acked, appended>>

Next == Load \/ Evict \/ Save \/ Hear \/ Appending \/ SnapshotNow

Spec == Init /\ [][Next]_vars

-----------------------------------------------------------------------------
(* Properties.                                                             *)

\* Every variable keeps its type; the log is gap-free.
TypeOK ==
  /\ meta \in 0 .. MaxMsgs /\ lastSeq \in 0 .. MaxMsgs
  /\ \E n \in 0 .. MaxMsgs : events \in [1 .. n -> Msgs]
  /\ \E n \in 0 .. MaxMsgs : state \in [1 .. n -> Msgs]
  /\ snapshot.seq \in 0 .. MaxMsgs /\ snapshotSeq \in 0 .. MaxMsgs
  /\ up \in BOOLEAN /\ appended \in BOOLEAN
  /\ unheard \in {0} \cup Msgs /\ made \in 0 .. MaxMsgs
  /\ evictions \in 0 .. MaxEvictions /\ acked \in 0 .. MaxMsgs
  /\ writers \subseteq [at : {"event", "meta", "written", "snapshot", "now"},
                        seq : Msgs, msg : {0} \cup Msgs]

\* A snapshot's State folds exactly the events its seq says (the comments of
\* append() and of latestState): replaying what follows it repeats none.
SnapshotFoldsItsEvents ==
  snapshot.state # None => snapshot.state = SubSeq(events, 1, snapshot.seq)

\* Once a turn has settled the log is the State's: every Msg folded is in it,
\* in the order folded, and nothing else.
LogIsTheState == up /\ unheard = 0 /\ writers = {} => events = state

\* Snapshots bound what the next activation replays: from the first settled
\* append of an activation on, it is less than snapshotEvery events, whatever
\* earlier activations left undone.
ReplayIsBounded ==
  up /\ appended /\ unheard = 0 /\ writers = {}
    => Len(events) - snapshot.seq < SnapshotEvery

\* The actor keeps the promise of an event log: an activation resumes from the
\* fold of what the last one applied, less only Msgs whose append had not
\* resolved.
Log == INSTANCE EventLog WITH model <- state, kept <- acked
ImplementsEventLog == Log!Spec

=============================================================================
