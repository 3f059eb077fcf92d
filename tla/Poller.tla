------------------------------- MODULE Poller -------------------------------
(***************************************************************************)
(* createPoller (packages/tea/src/internal/flow/poller/index.ts) in the    *)
(* machine its header wires: the deadline Sub's Msg goes to tick, the      *)
(* answers of the observation to tickResult and tickErr, which do not ask  *)
(* what phase the poller is in.                                            *)
(*                                                                         *)
(* Each observation comes back well, with the predicate held or not, or    *)
(* with an error, in any order.  An eviction loses those in flight and the *)
(* Msgs on their way; the Sub is armed again from the State, and fires at  *)
(* once when its instant is past.  A result is its dedupe key.             *)
(***************************************************************************)
EXTENDS Integers, FiniteSets

CONSTANTS
  PollEvery,         \* everyMs
  PollDelay,         \* the delay of the backoff curve
  PollAttempts,      \* maxAttempts of the retry policy
  PollKeys,          \* dedupe keys of results; {} when there is no dedupeKey
  PollHorizon,       \* bound: the last instant
  PollMaxInFlight,   \* bound: observations in flight
  PollMaxEvictions,  \* bound: evictions
  PollMaxStarts      \* bound: starts

ASSUME PollAssumption ==
  {PollEvery, PollDelay, PollAttempts, PollHorizon, PollMaxInFlight,
   PollMaxEvictions, PollMaxStarts} \subseteq Nat

VARIABLES
  poll,          \* the slice: phase, failures in a row, nextAt, keys seen
  pollArmed,     \* the instants the running timers are set to
  pollDue,       \* timers that have rung, their Msg on its way
  pollFlight,    \* observations in flight
  pollNow,       \* the clock of the host
  pollEvictions, pollStarts

pollVars == <<poll, pollArmed, pollDue, pollFlight, pollNow, pollEvictions,
              pollStarts>>

Unarmed == -1

PollInit ==
  /\ poll = [phase |-> "polling", failures |-> 0, nextAt |-> Unarmed, seen |-> {}]
  /\ pollArmed = {} /\ pollDue = 0 /\ pollFlight = 0
  /\ pollNow = 0 /\ pollEvictions = 0 /\ pollStarts = 0

-----------------------------------------------------------------------------

\* subs(): the instant of the one timer the State asks for.
PollSubs(s) ==
  IF s.phase = "polling" /\ s.nextAt # Unarmed THEN {s.nextAt} ELSE {}

\* The State is installed, and the Subs reconciled: a timer whose instant the
\* new State does not list is cleared, a new one armed.  One that has rung
\* stays in the list until then, and does not ring again.
PollInstalls(s) ==
  /\ poll' = s
  /\ pollArmed' = IF PollSubs(s) = PollSubs(poll) THEN pollArmed ELSE PollSubs(s)

PollStart ==
  /\ pollStarts < PollMaxStarts
  /\ pollStarts' = pollStarts + 1
  /\ PollInstalls([poll EXCEPT !.phase = "polling", !.nextAt = pollNow + PollEvery])
  /\ UNCHANGED <<pollDue, pollFlight, pollNow, pollEvictions>>

PollRing ==
  \E t \in pollArmed :
    /\ t <= pollNow
    /\ pollArmed' = pollArmed \ {t}
    /\ pollDue' = pollDue + 1
    /\ UNCHANGED <<poll, pollFlight, pollNow, pollEvictions, pollStarts>>

\* tick: observe, and leave the schedule alone.
MutTicked(s) == [s EXCEPT !.nextAt = Unarmed]
Ticked(s) == s

Tick ==
  /\ pollDue > 0
  /\ pollDue' = pollDue - 1
  /\ poll' = IF poll.phase = "polling" THEN Ticked(poll) ELSE poll
  /\ pollFlight' = IF poll.phase = "polling" THEN pollFlight + 1 ELSE pollFlight
  /\ pollFlight' <= PollMaxInFlight
  /\ UNCHANGED <<pollArmed, pollNow, pollEvictions, pollStarts>>

TickResult ==
  \/ /\ PollInstalls([poll EXCEPT !.phase = "done", !.failures = 0,
                                  !.nextAt = Unarmed])
     /\ pollFlight' = pollFlight - 1
  \/ /\ PollKeys = {}
     /\ PollInstalls([poll EXCEPT !.phase = "polling", !.failures = 0,
                                  !.nextAt = pollNow + PollEvery])
     /\ pollFlight' = pollFlight - 1
  \/ \E key \in PollKeys :
       /\ PollInstalls([poll EXCEPT !.phase = "polling", !.failures = 0,
                                    !.nextAt = pollNow + PollEvery,
                                    !.seen = @ \union {key}])
       \* A key not seen before is followed up by one more onTick.
       /\ pollFlight' = IF key \in poll.seen THEN pollFlight - 1 ELSE pollFlight

TickErr ==
  /\ IF poll.failures + 1 < PollAttempts
       THEN PollInstalls([poll EXCEPT !.phase = "polling", !.failures = @ + 1,
                                      !.nextAt = pollNow + PollDelay])
       ELSE PollInstalls([poll EXCEPT !.phase = "gave_up", !.failures = @ + 1,
                                      !.nextAt = Unarmed])
  /\ pollFlight' = pollFlight - 1

Observed ==
  /\ pollFlight > 0
  /\ TickResult \/ TickErr
  /\ UNCHANGED <<pollDue, pollNow, pollEvictions, pollStarts>>

EvictPoller ==
  /\ pollEvictions < PollMaxEvictions
  /\ pollEvictions' = pollEvictions + 1
  /\ pollArmed' = PollSubs(poll)
  /\ pollDue' = 0 /\ pollFlight' = 0
  /\ UNCHANGED <<poll, pollNow, pollStarts>>

PollTime ==
  /\ pollNow < PollHorizon
  /\ pollNow' = pollNow + 1
  /\ UNCHANGED <<poll, pollArmed, pollDue, pollFlight, pollEvictions, pollStarts>>

PollNext ==
  PollStart \/ PollRing \/ Tick \/ Observed \/ EvictPoller \/ PollTime

PollSpec == PollInit /\ [][PollNext]_pollVars

-----------------------------------------------------------------------------

(* A poller that was started and has not ended never falls silent: a timer *)
(* is set to its next instant, or has rung, or an observation is in flight *)
(* that will set one, after an eviction too ("a poller survives eviction   *)
(* and resumes its cadence from the persisted target").  One that ended    *)
(* holds no timer.  That is so of a backoff that waits: one of 0 ms        *)
(* (PollDelay = 0) asks for the instant that has just rung, so that the    *)
(* timer of its Sub is not set again, and the poller is silent.            *)
NeverSilent ==
  /\ PollSubs(poll) # {} =>
       pollArmed = PollSubs(poll) \/ pollDue > 0 \/ pollFlight > 0
  /\ pollStarts > 0 /\ poll.phase = "polling" => PollSubs(poll) # {}
  /\ pollArmed \subseteq PollSubs(poll)
=============================================================================
