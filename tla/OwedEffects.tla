---------------------------- MODULE OwedEffects ----------------------------
(***************************************************************************)
(* The round trips a Durable Object owes (packages/tea/src/do/): the       *)
(* volatile deferredGateway, durableDeferredGateway around it, the ledger  *)
(* of durable-effects.ts it records into, reissueSurvivingEffects of       *)
(* resume.ts at each activation, and the guard of idempotent-effect.ts     *)
(* that keeps a re-fired write from being made twice.                      *)
(*                                                                         *)
(* The consumer is the one the headers of those files describe: it puts    *)
(* every event in one log before it goes on, sends a call by running its   *)
(* keyed write through the guard, settles the call when that run ends,     *)
(* and prunes the marker of a confirmed call the ledger no longer owes.    *)
(* Mirrors are folds of the log, as in the code; an eviction keeps the     *)
(* log alone, and cuts a write off before or after it was made.            *)
(***************************************************************************)
EXTENDS SequencesExt, Kept, Integers

CONSTANTS
  OweCalls,         \* the callIds of the run's tool calls
  OweMaxEvictions,  \* bound: evictions
  OweMaxOwed,       \* bound: delivery ids handed out
  OweAgain          \* the run awaits again a call that timed out or failed

ASSUME OweAssumption ==
  OweMaxEvictions \in Nat /\ OweMaxOwed \in Nat /\ OweAgain \in BOOLEAN

VARIABLES
  oweLog,        \* the persisted events, in order
  oweGate,       \* in memory: the counter, idByCallId, the pending calls
  oweWriting,    \* runs of a call's write the guard has let through
  oweReplies,    \* calls whose run has ended and whose settle() is due
  oweRun,        \* what the run knows of each call; its State, so durable
  oweEvictions,
  oweWrites      \* history: writes made whose marker reached the log

oweVars == <<oweLog, oweGate, oweWriting, oweReplies, oweRun, oweEvictions,
             oweWrites>>

Owed(id, call) == [type |-> "effect_owed", id |-> id, call |-> call]
Confirmed(id, call) == [type |-> "effect_confirmed", id |-> id, call |-> call]
Marked(call) == [type |-> "effect_applied", id |-> 0, call |-> call]
Forgotten(call) == [type |-> "effect_forgotten", id |-> 0, call |-> call]

\* The deliveries owed, oldest first; the calls with a marker.
FoldLedger(log) ==
  Kept(log, {e \in ToSet(log) :
               /\ e.type = "effect_owed"
               /\ \A f \in ToSet(log) : f.type = "effect_confirmed" => f.id # e.id})

FoldApplied(log) ==
  {c \in OweCalls :
     \E i \in DOMAIN log :
       /\ log[i] = Marked(c)
       /\ \A j \in i + 1 .. Len(log) : log[j] # Forgotten(c)}

OwedCalls(log) == {e.call : e \in ToSet(FoldLedger(log))}

\* A recorder rebuilt from events counts on from the largest id they name.
MutLastId(log) == Len(FoldLedger(log))
LastId(log) == FoldLeft(LAMBDA n, e : IF e.id > n THEN e.id ELSE n, 0, log)

NoIds == [c \in OweCalls |-> 0]
Gate0(log) == [counter |-> LastId(log), ids |-> NoIds, pending |-> {}]

OweInit ==
  /\ oweLog = <<>>
  /\ oweGate = Gate0(<<>>)
  /\ oweWriting = [c \in OweCalls |-> 0]
  /\ oweReplies = {}
  /\ oweRun = [c \in OweCalls |-> "unasked"]
  /\ oweEvictions = 0
  /\ oweWrites = [c \in OweCalls |-> 0]

-----------------------------------------------------------------------------
(* await: owe the call unless idByCallId has it, then send it unless the   *)
(* inner gateway has it pending.                                           *)

Owes(g, c) ==
  IF g.gate.ids[c] # 0 THEN g
    ELSE [g EXCEPT !.gate.counter = @ + 1,
                   !.gate.ids[c] = g.gate.counter + 1,
                   !.log = Append(@, Owed(g.gate.counter + 1, c))]

AwaitCall(g, c) ==
  LET owed == Owes(g, c)
  IN IF c \in g.gate.pending THEN owed
       ELSE [owed EXCEPT !.gate.pending = @ \union {c}, !.sent = @ \union {c}]

Now(log) == [log |-> log, gate |-> oweGate, sent |-> {}]

\* The guard skips the write of a marked call and starts any other.
Sends(writing, replies, sent, applied) ==
  /\ oweWriting' = [c \in OweCalls |->
                      writing[c] + (IF c \in sent \ applied THEN 1 ELSE 0)]
  /\ oweReplies' = replies \union (sent \intersect applied)

Await(c) ==
  LET g == AwaitCall(Now(oweLog), c)
  IN /\ \/ oweRun[c] \in {"unasked", "waiting"}
        \/ OweAgain /\ oweRun[c] = "gave_up"
     /\ g.gate.counter <= OweMaxOwed
     /\ oweLog' = g.log /\ oweGate' = g.gate
     /\ Sends(oweWriting, oweReplies, g.sent, FoldApplied(oweLog))
     /\ oweRun' = [oweRun EXCEPT ![c] = "waiting"]
     /\ UNCHANGED <<oweEvictions, oweWrites>>

\* fn() resolves: the marker is recorded after the write.
WriteEnds(c) ==
  /\ oweWriting[c] > 0
  /\ oweWriting' = [oweWriting EXCEPT ![c] = @ - 1]
  /\ oweLog' = Append(oweLog, Marked(c))
  /\ oweWrites' = [oweWrites EXCEPT ![c] = @ + 1]
  /\ oweReplies' = oweReplies \union {c}
  /\ UNCHANGED <<oweGate, oweRun, oweEvictions>>

\* The consumer prunes a marker when the ledger stops re-firing its call.
MutPruned(log, c) ==
  IF c \in FoldApplied(log) THEN Append(log, Forgotten(c)) ELSE log
Pruned(log, c) ==
  IF c \in FoldApplied(log) /\ c \notin OwedCalls(log)
    THEN Append(log, Forgotten(c)) ELSE log

\* confirm() finds the delivery by idByCallId, or does nothing.
Confirms(c) ==
  LET id == oweGate.ids[c]
  IN oweLog' = IF id = 0 THEN oweLog
                 ELSE Pruned(Append(oweLog, Confirmed(id, c)), c)

Settle(c) ==
  /\ c \in oweReplies
  /\ Confirms(c)
  /\ oweGate' = [oweGate EXCEPT !.ids[c] = 0, !.pending = @ \ {c}]
  /\ oweReplies' = oweReplies \ {c}
  /\ oweRun' = [oweRun EXCEPT ![c] =
                  IF c \in oweGate.pending THEN "answered" ELSE @]
  /\ UNCHANGED <<oweWriting, oweEvictions, oweWrites>>

\* The transport closes under a pending call.
Fail(c) ==
  /\ c \in oweGate.pending
  /\ Confirms(c)
  /\ oweGate' = [oweGate EXCEPT !.ids[c] = 0, !.pending = @ \ {c}]
  /\ oweRun' = [oweRun EXCEPT ![c] = "gave_up"]
  /\ UNCHANGED <<oweWriting, oweReplies, oweEvictions, oweWrites>>

\* The inner gateway rejects at the deadline and forgets the call; the wrapper
\* is not told, so the call stays owed.
Deadline(c) ==
  /\ c \in oweGate.pending
  /\ oweGate' = [oweGate EXCEPT !.pending = @ \ {c}]
  /\ oweRun' = [oweRun EXCEPT ![c] = "gave_up"]
  /\ UNCHANGED <<oweLog, oweWriting, oweReplies, oweEvictions, oweWrites>>

\* reissueSurvivingEffects: a gateway and a ledger built from the log await
\* every survivor once more.
Reissued(log) ==
  FoldLeft(LAMBDA was, e : AwaitCall(was, e.call),
           [log |-> log, gate |-> Gate0(log), sent |-> {}], FoldLedger(log))

\* The isolate goes and comes back: the recorder, the gateway and the guard are
\* built again from the log.
EvictGateway ==
  LET g == Reissued(oweLog)
  IN /\ oweEvictions < OweMaxEvictions
     /\ g.gate.counter <= OweMaxOwed
     /\ oweEvictions' = oweEvictions + 1
     /\ oweLog' = g.log /\ oweGate' = g.gate
     /\ Sends(NoIds, {}, g.sent, FoldApplied(oweLog))
     /\ UNCHANGED <<oweRun, oweWrites>>

OweNext ==
  \/ \E c \in OweCalls :
       Await(c) \/ WriteEnds(c) \/ Settle(c) \/ Fail(c) \/ Deadline(c)
  \/ EvictGateway

OweSpec == OweInit /\ [][OweNext]_oweVars

-----------------------------------------------------------------------------

(* No round trip falls between the gateway and the ledger: a call the run  *)
(* asked for and nobody settled or failed is owed in the log, whatever was *)
(* evicted, timed out or re-issued since, so the next activation sends it  *)
(* again (durable-effects.ts: "the round-trips to re-fire").               *)
UnansweredIsOwed ==
  \A c \in OweCalls :
    \/ oweRun[c] # "waiting" /\ c \notin oweGate.pending
    \/ c \in OwedCalls(oweLog)

(* "at-least-once re-fire" and "effect-side dedup" are "together,          *)
(* effectively-once" (idempotent-effect.ts:24): of the writes of one call  *)
(* at most one is made and marked.  A write an eviction cut off before its *)
(* marker is the at-least-once window the header allows.                   *)
EffectivelyOnce == \A c \in OweCalls : oweWrites[c] <= 1

(* An answered round trip is "confirmed and does NOT re-emit"              *)
(* (host.test.ts:218, :252): the ledger owes no call the run has answered. *)
AnsweredIsConfirmed ==
  \A c \in OweCalls : oweRun[c] = "answered" => c \notin OwedCalls(oweLog)
=============================================================================
