----------------------------- MODULE AuthedCall -----------------------------
(***************************************************************************)
(* createAuthedCall (src/packages/tea/src/internal/resilience/authed-call/ *)
(* index.ts) over createResilientCall and createTokenRefresh, in the       *)
(* machine its header wires: fetch, resilient_run_ok, resilient_run_err,   *)
(* got_401, refresh_token_ok, refresh_token_err and the one timer Sub.     *)
(*                                                                         *)
(* The handlers of the Cmds are the environment: a call in flight comes    *)
(* back well, with an error or with a 401, in any order and at any time; a *)
(* timer is folded when it is due or later.  Nothing is lost here: the     *)
(* host stays up (AgentRun has the evictions).                             *)
(***************************************************************************)
EXTENDS ResilientSlice, FiniteSetsExt

CONSTANTS
  AuthKeys,      \* keys of calls
  AuthConfig,    \* the knob: see ResilientSlice
  AuthDelays,    \* what the backoff curve and its jitter may answer
  AuthHorizon,   \* bound: the last instant
  AuthMaxRuns,   \* bound: Cmds of one key in flight at once
  AuthMaxMints      \* bound: refresh_token Cmds in flight at once

ASSUME AuthAssumption ==
  /\ IsFiniteSet(AuthKeys) /\ AuthConfig \in Bricks
  /\ AuthHorizon \in Nat /\ AuthMaxRuns \in Nat \ {0} /\ AuthMaxMints \in Nat \ {0}
  /\ AuthDelays \subseteq Nat /\ AuthDelays # {}

VARIABLES
  authed,        \* the slice: resilience, stale, authRetry, parked
  authRuns,      \* resilient_run Cmds in flight, by key
  authMints,     \* refresh_token Cmds in flight
  authNow,       \* the clock of the host
  authTripped    \* history: the last instant the circuit opened, -1 if never

authVars == <<authed, authRuns, authMints, authNow, authTripped>>

AuthInit ==
  /\ authed = [resilience |-> InitSlice(AuthConfig, AuthKeys), stale |-> FALSE,
               authRetry |-> [k \in AuthKeys |-> 0], parked |-> {}]
  /\ authRuns = [k \in AuthKeys |-> 0]
  /\ authMints = 0
  /\ authNow = 0
  /\ authTripped = -1

-----------------------------------------------------------------------------

ClearAuthKey(s, k) ==
  [s EXCEPT !.authRetry[k] = 0, !.parked = @ \ {k}]

MutSettleAuthIfDone(s, Keys) ==
  LET done == {k \in Keys : s.resilience.calls[k].phase \in {"succeeded", "failed"}}
  IN [s EXCEPT !.authRetry = [k \in AuthKeys |-> IF k \in done THEN 0 ELSE @[k]]]
\* A call that settled forgets its auth bookkeeping.
SettleAuthIfDone(s, Keys) ==
  LET done == {k \in Keys : s.resilience.calls[k].phase \in {"succeeded", "failed"}}
  IN [s EXCEPT !.authRetry = [k \in AuthKeys |-> IF k \in done THEN 0 ELSE @[k]],
               !.parked = @ \ done]

\* The Cmds of a step join those in flight; gone is the key that came back.
Fly(back, run) ==
  authRuns' = [k \in AuthKeys |->
                 authRuns[k] - (IF k \in back THEN 1 ELSE 0)
                             + (IF k \in run THEN 1 ELSE 0)]

Installs(s) ==
  /\ authed' = s
  /\ authTripped' = IF /\ s.resilience.circuit.phase = "open"
                       /\ authed.resilience.circuit.phase # "open"
                      THEN authNow ELSE authTripped
  /\ UNCHANGED authNow

Fetch(k) ==
  \E d \in AuthDelays :
    LET cleared == ClearAuthKey(authed, k)
        r == Attempt(AuthConfig, cleared.resilience, k, authNow, d)
    IN /\ authRuns[k] < AuthMaxRuns
       /\ Installs([cleared EXCEPT !.resilience = r.s])
       /\ Fly({}, r.run)
       /\ UNCHANGED authMints

RunOk(k) ==
  LET settled == ClearAuthKey(authed, k)
  IN /\ authRuns[k] > 0
     /\ Installs([settled EXCEPT !.resilience =
                    SettleOk(AuthConfig, @, k, authNow)])
     /\ Fly({k}, {})
     /\ UNCHANGED authMints

RunErr(k) ==
  \E d \in AuthDelays :
    LET settled == SettleErr(AuthConfig, authed.resilience, k, authNow, d)
    IN /\ authRuns[k] > 0
       /\ Installs(SettleAuthIfDone([authed EXCEPT !.resilience = settled], {k}))
       /\ Fly({k}, {})
       /\ UNCHANGED authMints

MutSpent(k) == authed.resilience.calls[k].phase \notin LivePhases
Spent(k) ==
  \/ authed.authRetry[k] >= 1
  \/ authed.resilience.calls[k].phase \notin LivePhases

\* The first 401 of a live call asks for a token and parks the call; another
\* one settles it, without a word to the breaker or the retry counter.
Got401(k) ==
  /\ authRuns[k] > 0 /\ authMints < AuthMaxMints
  /\ Fly({k}, {})
  /\ IF Spent(k)
       THEN /\ Installs([ClearAuthKey(authed, k) EXCEPT !.resilience =
                           SettleFailed(@, k, "unauthorized")])
            /\ UNCHANGED authMints
       ELSE /\ Installs([authed EXCEPT !.stale = TRUE, !.authRetry[k] = @ + 1,
                                       !.parked = @ \union {k}])
            /\ authMints' = authMints + 1

\* Every parked call passes the gate again, one after the other.
Reissue(d) ==
  LET again(k, r) ==
        LET one == Attempt(AuthConfig, r.s, k, authNow, d)
        IN [s |-> one.s, run |-> r.run \union one.run]
  IN FoldSet(again, Quiet(authed.resilience), authed.parked)

TokenRefreshed ==
  \E d \in AuthDelays :
    LET r == Reissue(d)
    IN /\ authMints > 0
       /\ \A k \in authed.parked : authRuns[k] < AuthMaxRuns
       /\ authMints' = authMints - 1
       /\ Installs([authed EXCEPT !.resilience = r.s, !.stale = FALSE,
                                  !.parked = {}])
       /\ Fly({}, r.run)

\* refresh_token_err: the header's machine folds it to nothing.
RefreshFailed ==
  /\ authMints > 0
  /\ authMints' = authMints - 1
  /\ UNCHANGED <<authed, authRuns, authNow, authTripped>>

\* The timer Sub counts down to the soonest deadline of the slice.
TimerDue ==
  \E t \in Deadlines(AuthConfig, authed.resilience), d \in AuthDelays :
    LET r == OnTimer(AuthConfig, authed.resilience, t, d)
    IN /\ t.at <= authNow
       /\ \A o \in Deadlines(AuthConfig, authed.resilience) : t.at <= o.at
       /\ authRuns[t.key] < AuthMaxRuns
       /\ Installs(SettleAuthIfDone([authed EXCEPT !.resilience = r.s],
                     {k \in AuthKeys : authed.authRetry[k] > 0}))
       /\ Fly({}, r.run)
       /\ UNCHANGED authMints

AuthTime ==
  /\ authNow < AuthHorizon
  /\ authNow' = authNow + 1
  /\ UNCHANGED <<authed, authRuns, authMints, authTripped>>

AuthNext ==
  \/ \E k \in AuthKeys : Fetch(k) \/ RunOk(k) \/ RunErr(k) \/ Got401(k)
  \/ TokenRefreshed \/ RefreshFailed \/ TimerDue \/ AuthTime

AuthSpec == AuthInit /\ [][AuthNext]_authVars

-----------------------------------------------------------------------------

AuthTypeOK ==
  /\ authed.parked \subseteq AuthKeys
  /\ authed.authRetry \in [AuthKeys -> 0..1]
  /\ authRuns \in [AuthKeys -> Nat]
  /\ authMints \in 0..AuthMaxMints
  /\ authNow \in 0..AuthHorizon /\ authTripped \in -1..AuthHorizon

(* A parked call is one that spent its single refresh and can still be     *)
(* answered: "a call that settles, restarts, or gives up on its 401 dance  *)
(* drops both" (clearAuthKey).  A call parked after it settled would be    *)
(* sent again by the next refresh, after its caller read the outcome.      *)
ParkedIsLive ==
  \A k \in authed.parked :
    /\ authed.authRetry[k] = 1
    /\ authed.resilience.calls[k].phase \notin {"succeeded", "failed"}

(* An open breaker keeps every call off the backend for its cooldown, on   *)
(* the clock of the host, whichever path the call comes by: a fetch, the   *)
(* retry timer of a call that backed off, folded late, or a new token.     *)
BreakerShields ==
  [][\A k \in AuthKeys :
       authRuns'[k] > authRuns[k] =>
         \/ authTripped = -1
         \/ authed.resilience.circuit.phase # "open"
         \/ authNow - authTripped >= AuthConfig.cooldown]_authVars

(* A breaker that has admitted all its probes waits for one of them: some  *)
(* Cmd is in flight.  With none, "nothing moves it out of half_open but a  *)
(* resolved probe" (resilient-call/index.ts:762) and it refuses for ever.  *)
ProbeIsOut ==
  LET circuit == authed.resilience.circuit
  IN circuit.phase = "half_open" /\ circuit.n >= AuthConfig.probes =>
       \E k \in AuthKeys : authRuns[k] > 0
=============================================================================
