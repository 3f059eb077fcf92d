------------------------------ MODULE Workflow ------------------------------
(***************************************************************************)
(* A durable workflow (packages/tea/src/internal/flow/workflow/): the pure *)
(* verbs of createWorkflow, which run activities in order, owe each one on *)
(* the delivery ledger of do/durable-effects.ts and undo the completed     *)
(* ones, newest first, when one fails; and workflowGrain, which appends a  *)
(* result to the event log of a Durable Object before it performs what the *)
(* result led to, and folds that log again when it is activated.           *)
(*                                                                         *)
(* An activity that was performed may answer twice, late, or in another    *)
(* activation; an eviction loses what has not landed, and may come between *)
(* an event and the snapshot that is due with it.                          *)
(***************************************************************************)
EXTENDS SequencesExt, FiniteSetsExt, Integers, Kept

CONSTANTS
  WfPlans,          \* workflows: for each step, whether it can be compensated
  WfCallers,        \* callers of the grain whose deliver / drive may overlap
  WfSnapshotEvery,  \* results between two snapshots: the numbers to choose from
  WfMaxEvents,      \* bound: results appended
  WfMaxEvictions    \* bound: evictions

ASSUME WorkflowAssumption ==
  /\ WfPlans \subseteq Seq(BOOLEAN) \ {<<>>}
  /\ WfSnapshotEvery \subseteq Nat \ {0}
  /\ {WfMaxEvents, WfMaxEvictions} \subseteq Nat

VARIABLES
  wfPlan,       \* the steps
  wfEvery,      \* the number of results between two snapshots
  wfLive,       \* in memory: [wf, ledger, counter], the last one the recorder's
  wfLog,        \* durable: the results, in order
  wfSnapshot,   \* durable: [seq, of], the model after the first seq results
  wfAppends,    \* appends under way, oldest first: [msg, by]
  wfPuts,       \* snapshots being put after their event, oldest first: [seq, of, by]
  wfChains,     \* where each caller is, and the Cmds its drive has yet to perform
  wfEvictions,
  wfPerformed,  \* history: [id, what] of each effect performed
  wfAnew        \* history: an activation has folded results onto a snapshot

wfVars == <<wfPlan, wfEvery, wfLive, wfLog, wfSnapshot, wfAppends, wfPuts, wfChains,
            wfEvictions, wfPerformed, wfAnew>>

Result(side, ok, id) == [side |-> side, ok |-> ok, id |-> id]
OwedOf(id, what) == [type |-> "effect_owed", id |-> id, what |-> what]
ConfirmedOf(id) == [type |-> "effect_confirmed", id |-> id, what |-> <<"none", 0>>]

-----------------------------------------------------------------------------
\* The verbs.  A step has an index from 1; completed is the number of them.

\* oweOnLedger: under the next id of the recorder, which is also the current one.
Owe(m, side, index) ==
  LET id == m.counter + 1
  IN [wf |-> [m.wf EXCEPT !.index = index, !.id = id],
      ledger |-> Append(m.ledger, OwedOf(id, <<side, index>>)),
      counter |-> id]

Confirm(m) == [m EXCEPT !.ledger = Append(@, ConfirmedOf(m.wf.id))]
ComesTo(m, status) == [m EXCEPT !.wf.status = status]

Blank == [wf |-> [status |-> "running", completed |-> 0, undone |-> <<>>,
                  index |-> 0, id |-> 0],
          ledger |-> <<>>, counter |-> 0]
InitWf == Owe(Blank, "do", 1)

\* The newest step below one that can be undone, or 0.
NextUndo(plan, below) == Max({i \in 1 .. below - 1 : plan[i]} \union {0})

Unwind(plan, m, below, rest) ==
  LET i == NextUndo(plan, below)
  IN IF i = 0 THEN ComesTo(m, rest) ELSE Owe(ComesTo(m, "compensating"), "undo", i)

ActivityOk(plan, m) ==
  LET done == [Confirm(m) EXCEPT !.wf.completed = @ + 1]
  IN IF m.wf.index = Len(plan) THEN ComesTo(done, "completed")
                               ELSE Owe(done, "do", m.wf.index + 1)

ActivityErr(plan, m) == Unwind(plan, Confirm(m), m.wf.completed + 1, "failed")

CompensationOk(plan, m) ==
  Unwind(plan, [Confirm(m) EXCEPT !.wf.undone = Append(@, m.wf.index)],
         m.wf.index, "failed_compensated")

CompensationErr(m) == ComesTo(Confirm(m), "compensation_failed")

\* A result that does not name the effect in flight is dropped.
Expects(m, msg) ==
  /\ m.wf.status = IF msg.side = "do" THEN "running" ELSE "compensating"
  /\ msg.id = m.wf.id

Route(plan, m, msg) ==
  IF ~Expects(m, msg) THEN m
    ELSE IF msg.side = "do"
      THEN IF msg.ok THEN ActivityOk(plan, m) ELSE ActivityErr(plan, m)
      ELSE IF msg.ok THEN CompensationOk(plan, m) ELSE CompensationErr(m)

-----------------------------------------------------------------------------
\* The grain.

\* applyEffectEvent: a Map by id, in the order of insertion; what is owed again
\* under an id keeps the place it has.
ApplyEffect(pending, e) ==
  LET others == Kept(pending, {o \in ToSet(pending) : o.id # e.id})
  IN IF e.type = "effect_confirmed" THEN others
     ELSE IF others = pending THEN Append(pending, e)
     ELSE [i \in DOMAIN pending |-> IF pending[i].id = e.id THEN e ELSE pending[i]]

Surviving(ledger) ==
  LET pending[n \in 0 .. Len(ledger)] ==
        IF n = 0 THEN <<>> ELSE ApplyEffect(pending[n - 1], ledger[n])
  IN pending[Len(ledger)]

\* init(loaded): a recorder built on the ledger counts on from its largest id.
MutRehydrate(m) == [m EXCEPT !.counter = 0]
Rehydrate(m) == [m EXCEPT !.counter = Max({e.id : e \in ToSet(m.ledger)} \union {0})]

\* load(): the verbs of a new recorder fold the results after the snapshot.
NoWfSnapshot == [seq |-> 0, of |-> Blank]
LoadGrain(plan, log, snapshot) ==
  LET base == IF snapshot.seq = 0 THEN InitWf ELSE [snapshot.of EXCEPT !.counter = 0]
      after[k \in snapshot.seq .. Len(log)] ==
        IF k = snapshot.seq THEN base ELSE Route(plan, after[k - 1], log[k])
  IN Rehydrate(after[Len(log)])

Resting == [at |-> "rest", todo |-> <<>>]
AllResting == [c \in WfCallers |-> Resting]

WfInit ==
  /\ wfPlan \in WfPlans
  /\ wfEvery \in WfSnapshotEvery
  /\ wfLive = Rehydrate(InitWf)
  /\ wfLog = <<>> /\ wfSnapshot = NoWfSnapshot
  /\ wfAppends = <<>> /\ wfPuts = <<>>
  /\ wfChains = AllResting
  /\ wfEvictions = 0
  /\ wfPerformed = {} /\ wfAnew = FALSE

\* The drive of a caller goes on with the Cmds todo.
GoesOn(c, todo) ==
  /\ wfChains' = [wfChains EXCEPT ![c] =
                     IF todo = <<>> THEN Resting ELSE [at |-> "perform", todo |-> todo]]
  /\ wfPerformed' = wfPerformed \union
       {[id |-> todo[i].id, what |-> todo[i].what] : i \in {1} \intersect DOMAIN todo}

\* drive(): perform what the ledger still owes.
DriveGrain(c) ==
  /\ wfChains[c].at = "rest"
  /\ Surviving(wfLive.ledger) # <<>>
  /\ GoesOn(c, Surviving(wfLive.ledger))
  /\ UNCHANGED <<wfPlan, wfEvery, wfLive, wfLog, wfSnapshot, wfAppends, wfPuts,
                 wfEvictions, wfAnew>>

\* deliver(): the result is folded, and its append begun; the caller waits for it.
DeliverResult(c, msg, todo) ==
  /\ Len(wfLog) + Len(wfAppends) < WfMaxEvents
  /\ wfLive' = Route(wfPlan, wfLive, msg)
  /\ wfAppends' = Append(wfAppends, [msg |-> msg, by |-> c])
  /\ wfChains' = [wfChains EXCEPT ![c] = [at |-> "append", todo |-> todo]]
  /\ UNCHANGED <<wfPlan, wfEvery, wfLog, wfSnapshot, wfPuts, wfEvictions,
                 wfPerformed, wfAnew>>

\* perform() resolves.
Performed(c, ok) ==
  LET e == Head(wfChains[c].todo)
  IN /\ wfChains[c].at = "perform"
     /\ DeliverResult(c, Result(e.what[1], ok, e.id), Tail(wfChains[c].todo))

\* perform() rejects, and the drive with it.
PerformRejects(c) ==
  /\ wfChains[c].at = "perform"
  /\ wfChains' = [wfChains EXCEPT ![c] = Resting]
  /\ UNCHANGED <<wfPlan, wfEvery, wfLive, wfLog, wfSnapshot, wfAppends, wfPuts,
                 wfEvictions, wfPerformed, wfAnew>>

\* The host hands over the result of something that was performed, once more.
Redeliver(c, ok) ==
  \E p \in wfPerformed :
    /\ wfChains[c].at = "rest"
    /\ DeliverResult(c, Result(p.what[1], ok, p.id), <<>>)

\* The append of caller c is over, and it drives.
AppendEnds(c) == GoesOn(c, Surviving(wfLive.ledger) \o wfChains[c].todo)

\* The event of the oldest append lands, with its seq.  The snapshot is a put of
\* its own, where it is due: of the State that is the latest by then.
AppendLands ==
  LET a == Head(wfAppends)
      seq == Len(wfLog) + 1
  IN /\ wfAppends # <<>>
     /\ wfAppends' = Tail(wfAppends)
     /\ wfLog' = Append(wfLog, a.msg)
     /\ IF seq - wfSnapshot.seq >= wfEvery
          THEN /\ wfPuts' = Append(wfPuts, [seq |-> seq, of |-> wfLive, by |-> a.by])
               /\ UNCHANGED <<wfChains, wfPerformed>>
          ELSE AppendEnds(a.by) /\ UNCHANGED wfPuts
     /\ UNCHANGED <<wfPlan, wfEvery, wfLive, wfSnapshot, wfEvictions, wfAnew>>

\* writeSnapshot() resolves.
SnapshotLands ==
  LET put == Head(wfPuts)
  IN /\ wfPuts # <<>>
     /\ wfPuts' = Tail(wfPuts)
     /\ wfSnapshot' = [seq |-> put.seq, of |-> put.of]
     /\ AppendEnds(put.by)
     /\ UNCHANGED <<wfPlan, wfEvery, wfLive, wfLog, wfAppends, wfEvictions, wfAnew>>

\* A snapshot is older than the log.
LeavesTail == wfSnapshot.seq # 0 /\ wfSnapshot.seq # Len(wfLog)

EvictGrain ==
  /\ wfEvictions < WfMaxEvictions
  /\ wfEvictions' = wfEvictions + 1
  /\ wfLive' = LoadGrain(wfPlan, wfLog, wfSnapshot)
  /\ wfAppends' = <<>> /\ wfPuts' = <<>>
  /\ wfChains' = AllResting
  /\ wfAnew' = (wfAnew \/ LeavesTail)
  /\ UNCHANGED <<wfPlan, wfEvery, wfLog, wfSnapshot, wfPerformed>>

WfNext ==
  \/ \E c \in WfCallers :
       \/ DriveGrain(c) \/ PerformRejects(c)
       \/ \E ok \in BOOLEAN : Performed(c, ok) \/ Redeliver(c, ok)
  \/ AppendLands \/ SnapshotLands
  \/ EvictGrain

WfSpec == WfInit /\ [][WfNext]_wfVars

-----------------------------------------------------------------------------

(* "The re-fired Cmd carries the SAME delivery id" (do.ts:43), so that the *)
(* receiver can drop it: one id names one effect, and one effect goes by   *)
(* one id, whatever was evicted and replayed in between.                   *)
OneIdPerEffect ==
  \A p, q \in wfPerformed : p.id = q.id <=> p.what = q.what

(* A compensation is performed for a completed step that declares one, the *)
(* later ones first and each of them undone by then; a rollback that       *)
(* settles has undone them all.                                            *)
Undoable == {i \in 1 .. wfLive.wf.completed : wfPlan[i]}

UnwindIsExact ==
  /\ \A p \in wfPerformed :
       p.what[1] = "undo" =>
         /\ p.what[2] \in Undoable
         /\ {i \in Undoable : i > p.what[2]} \subseteq ToSet(wfLive.wf.undone)
  /\ wfLive.wf.status = "failed_compensated" => ToSet(wfLive.wf.undone) = Undoable

(* What the workflow does to the outside is what its log says, once, over  *)
(* redelivered results, lost appends and snapshots, and activations that   *)
(* replay the whole log or take a snapshot of it.  It is no longer so once *)
(* an activation has folded later results onto a snapshot: the new         *)
(* recorder counts those from 0, below the ids the snapshot knows.         *)
EffectsAreExact == ~wfAnew => OneIdPerEffect /\ UnwindIsExact
=============================================================================
