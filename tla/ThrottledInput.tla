--------------------------- MODULE ThrottledInput ---------------------------
(***************************************************************************)
(* createThrottledInput                                                    *)
(* (packages/tea/src/internal/timing/throttled-input/index.ts) in the      *)
(* machine its tests wire: samples become input Msgs stamped as they       *)
(* arrive, the deadline Sub's Msg goes to onFlush with the instant it was  *)
(* set to.  Msgs wait on the run's line and timers ring late, so both are  *)
(* folded after the instant they name.                                     *)
(***************************************************************************)
EXTENDS Integers, SequencesExt

CONSTANTS
  ThrottleConfigs,   \* [throttle, debounce, ttl]; 0 is an omitted field
  ThrottleValues,    \* the values of samples, which are their cache keys
  ThrottleSamples,   \* bound: the samples that arrive
  ThrottleHorizon    \* bound: the last instant

ASSUME ThrottleAssumption ==
  /\ ThrottleConfigs \subseteq [throttle : Nat, debounce : Nat, ttl : Nat]
  /\ {ThrottleSamples, ThrottleHorizon} \subseteq Nat

VARIABLES
  gate,           \* the slice: lastAt, pending and when a cached key expires
  gateConfig,     \* the configuration of this knob
  gateTimer,      \* the running Sub: the instant it is set to, and if it rang
  gateLine,       \* the Msgs on the run's line
  gateEmits,      \* the samples that were emitted, with the instant of each
  gateMade,       \* how many samples have arrived
  gateTaken,      \* the last of them that was folded
  gateNow

gateVars == <<gate, gateConfig, gateTimer, gateLine, gateEmits, gateMade,
              gateTaken, gateNow>>

Never == -1
NoSample == [nr |-> 0, value |-> "none", at |-> Never]

GateInit ==
  /\ gate = [lastAt |-> Never, pending |-> NoSample,
             expires |-> [v \in ThrottleValues |-> Never]]
  /\ gateConfig \in ThrottleConfigs
  /\ gateTimer = [at |-> Never, rung |-> FALSE]
  /\ gateLine = <<>> /\ gateEmits = <<>>
  /\ gateMade = 0 /\ gateTaken = 0 /\ gateNow = 0

-----------------------------------------------------------------------------

IsCacheHit(g, sample) == gateConfig.ttl > 0 /\ sample.at < g.expires[sample.value]

\* rateBlockedAt: both the arrival and the trailing edge ask it.
RateBlockedAt(g, at) ==
  gateConfig.throttle > 0 /\ g.lastAt # Never /\ at - g.lastAt < gateConfig.throttle

\* subsFor: the later of the two instants the gates allow, or none.
MutSettlesAt(g) == g.pending.at + gateConfig.debounce
SettlesAt(g) ==
  LET settle == g.pending.at + gateConfig.debounce
      rate == g.lastAt + gateConfig.throttle
  IN IF gateConfig.throttle > 0 /\ g.lastAt # Never /\ rate > settle
       THEN rate ELSE settle

GateSubs(g) ==
  IF gateConfig.debounce = 0 \/ g.pending = NoSample THEN Never ELSE SettlesAt(g)

\* The engine leaves the Sub alone while its instant does not change.
GateInstalls(g) ==
  /\ gate' = g
  /\ gateTimer' = IF gateTimer.at = GateSubs(g) THEN gateTimer
                  ELSE [at |-> GateSubs(g), rung |-> FALSE]

MutCommitted(g, sample, at) == [g EXCEPT !.lastAt = at]
Committed(g, sample, at) ==
  [lastAt |-> at, pending |-> NoSample,
   expires |-> IF gateConfig.ttl > 0
                 THEN [g.expires EXCEPT ![sample.value] = at + gateConfig.ttl]
                 ELSE g.expires]

CommitEmit(sample, at) ==
  /\ GateInstalls(Committed(gate, sample, at))
  /\ gateEmits' = Append(gateEmits, [sample |-> sample, at |-> at])

\* Dedupe, rate and settle, in this order; a sample the rate gate stops is held
\* where there is a settle window, and dropped where there is none.
Input(sample) ==
  IF IsCacheHit(gate, sample) THEN UNCHANGED <<gate, gateTimer, gateEmits>>
  ELSE IF gateConfig.debounce > 0
    THEN GateInstalls([gate EXCEPT !.pending = sample]) /\ UNCHANGED gateEmits
  ELSE IF RateBlockedAt(gate, sample.at) THEN UNCHANGED <<gate, gateTimer, gateEmits>>
  ELSE CommitEmit(sample, sample.at)

\* The settle Msg may come early: then the sample stays held.
OnFlush(at) ==
  IF gate.pending = NoSample \/ RateBlockedAt(gate, at)
    THEN UNCHANGED <<gate, gateTimer, gateEmits>>
    ELSE CommitEmit(gate.pending, at)

FoldGateMsg ==
  /\ gateLine # <<>>
  /\ IF Head(gateLine).nr = 0
       THEN OnFlush(Head(gateLine).at) /\ UNCHANGED gateTaken
       ELSE Input(Head(gateLine)) /\ gateTaken' = Head(gateLine).nr
  /\ gateLine' = Tail(gateLine)
  /\ UNCHANGED <<gateConfig, gateMade, gateNow>>

-----------------------------------------------------------------------------

SampleArrives ==
  /\ gateMade < ThrottleSamples
  /\ gateMade' = gateMade + 1
  /\ \E v \in ThrottleValues :
       gateLine' = Append(gateLine, [nr |-> gateMade', value |-> v, at |-> gateNow])
  /\ UNCHANGED <<gate, gateConfig, gateTimer, gateEmits, gateTaken, gateNow>>

GateRings ==
  /\ gateTimer.at \in 0 .. gateNow /\ ~gateTimer.rung
  /\ gateTimer' = [gateTimer EXCEPT !.rung = TRUE]
  /\ gateLine' = Append(gateLine, [NoSample EXCEPT !.at = gateTimer.at])
  /\ UNCHANGED <<gate, gateConfig, gateEmits, gateMade, gateTaken, gateNow>>

\* The host goes down with its line and its timer; the next run arms the Sub of
\* the slice that was saved.
GateHostDown ==
  /\ gateTimer' = [at |-> GateSubs(gate), rung |-> FALSE]
  /\ gateLine' = <<>>
  /\ UNCHANGED <<gate, gateConfig, gateEmits, gateMade, gateTaken, gateNow>>

GateTime ==
  /\ gateNow < ThrottleHorizon
  /\ gateNow' = gateNow + 1
  /\ UNCHANGED <<gate, gateConfig, gateTimer, gateLine, gateEmits, gateMade, gateTaken>>

GateNext ==
  FoldGateMsg \/ SampleArrives \/ GateRings \/ GateHostDown \/ GateTime

GateSpec == GateInit /\ [][GateNext]_gateVars

-----------------------------------------------------------------------------

(* What a gate lets through is spaced, ordered and not forgotten: emits    *)
(* are a throttle apart by their stamps, no sample goes out twice or after *)
(* a later one, and none within the ttl of an equal one; a held sample has *)
(* a timer that will ring, or its Msg is on the line, however late timers  *)
(* and Msgs are ("the FINAL sample of a window is never lost").            *)
GateHolds ==
  /\ \A j \in DOMAIN gateEmits : \A i \in 1 .. j - 1 :
       LET older == gateEmits[i]  newer == gateEmits[j]
       IN /\ newer.at - older.at >= gateConfig.throttle
          /\ newer.sample.nr > older.sample.nr
          /\ newer.sample.value = older.sample.value =>
               newer.sample.at - older.at >= gateConfig.ttl
  /\ gate.pending # NoSample =>
       /\ gateTimer.at = GateSubs(gate)
       /\ gateTimer.rung => [NoSample EXCEPT !.at = gateTimer.at] \in ToSet(gateLine)
  /\ gateConfig.debounce > 0 /\ gateConfig.ttl = 0 /\ gateTaken > 0 =>
       IF gate.pending # NoSample THEN gate.pending.nr = gateTaken
       ELSE gateEmits # <<>> /\ Last(gateEmits).sample.nr = gateTaken
=============================================================================
