--------------------------- MODULE ResilientSlice ---------------------------
(***************************************************************************)
(* createResilientCall (src/packages/tea/src/internal/resilience/          *)
(* resilient-call/index.ts) and the bricks it composes: circuit breaker,   *)
(* token bucket, TTL cache, retry counter and deadline budget.             *)
(*                                                                         *)
(* Every verb of the source is pure: it takes the slice and an instant and *)
(* returns the slice and the Cmds.  The operators here do the same on a    *)
(* record; the modules that hold a slice in their State (ToolLadder,       *)
(* AuthedCall, AgentRun) call them from their actions.  Cmds are the set   *)
(* of keys run (a verb runs a key at most once).  Inputs, results and      *)
(* error payloads are left out, but for the error that names a deadline;   *)
(* so is the slice's clock, which only turns an instant into a delay.      *)
(*                                                                         *)
(* A configuration c is a record                                           *)
(*   deadline  ms of the call budget                  0: no such brick     *)
(*   attempts  maxAttempts of the retry policy        0: no retry brick    *)
(*   threshold, cooldown, probes  of the circuit      threshold 0: none    *)
(*   ttl       of the cache                           0: no cache          *)
(*   capacity, refill  of the bucket (refill in tokens per unit of time)   *)
(*                                                    capacity 0: none     *)
(***************************************************************************)
EXTENDS Integers

\* ResilientConfig: any choice of bricks, each with its knobs.
Bricks == [deadline : Nat, attempts : Nat, threshold : Nat, cooldown : Nat,
           probes : Nat, ttl : Nat, capacity : Nat, refill : Nat]

MaxOf(a, b) == IF a >= b THEN a ELSE b
MinOf(a, b) == IF a <= b THEN a ELSE b

-----------------------------------------------------------------------------
(* Calls and budgets.                                                      *)

NoCall == [phase |-> "none", left |-> 0, since |-> 0, retryAt |-> 0,
           error |-> "none"]

Running(b) == [NoCall EXCEPT !.phase = "running", !.left = b.left,
                             !.since = b.since]
Waiting(b, at) == [Running(b) EXCEPT !.phase = "waiting_retry", !.retryAt = at]
Failed(e) == [NoCall EXCEPT !.phase = "failed", !.error = e]
Succeeded == [NoCall EXCEPT !.phase = "succeeded"]
CircuitOpen == [NoCall EXCEPT !.phase = "circuit_open"]

LivePhases == {"running", "waiting_retry"}

\* A spent budget is not charged again, but its clock moves all the same; an
\* instant before the charging clock costs nothing and takes the clock back.
\* Nobody reads the budget of a slice without a deadline, so it is not kept.
Charge(c, b, at) ==
  [left |-> IF b.left <= 0 THEN b.left ELSE b.left - MaxOf(0, at - b.since),
   since |-> IF c.deadline = 0 THEN 0 ELSE at]

FreshBudget(c, at) ==
  [left |-> c.deadline, since |-> IF c.deadline = 0 THEN 0 ELSE at]

BudgetFor(c, s, k, at) ==
  IF s.calls[k].phase \in LivePhases
    THEN Charge(c, s.calls[k], at)
    ELSE FreshBudget(c, at)

-----------------------------------------------------------------------------
(* The circuit breaker: n is the failures of a closed one, the instant an  *)
(* open one opened, the probes a half open one has admitted.               *)

Circuit(p, n) == [phase |-> p, n |-> n]

OnSuccess(circuit) ==
  IF circuit.phase = "open" THEN circuit ELSE Circuit("closed", 0)

OnFailure(c, circuit, at) ==
  CASE circuit.phase = "open" -> circuit
    [] circuit.phase = "half_open" -> Circuit("open", at)
    [] circuit.phase = "closed" ->
         IF circuit.n + 1 >= c.threshold
           THEN Circuit("open", at)
           ELSE Circuit("closed", circuit.n + 1)

MutMayPass(c, circuit, at) ==
  \/ circuit.phase = "closed"
  \/ circuit.phase = "open" /\ at >= c.cooldown
  \/ circuit.phase = "half_open" /\ circuit.n < c.probes
\* The phase after asking, when the call may pass; the circuit itself when not.
MayPass(c, circuit, at) ==
  \/ circuit.phase = "closed"
  \/ circuit.phase = "open" /\ at - circuit.n >= c.cooldown
  \/ circuit.phase = "half_open" /\ circuit.n < c.probes

Passed(c, circuit, at) ==
  CASE ~MayPass(c, circuit, at) \/ circuit.phase = "closed" -> circuit
    [] MayPass(c, circuit, at) /\ circuit.phase = "open" -> Circuit("half_open", 1)
    [] MayPass(c, circuit, at) /\ circuit.phase = "half_open" ->
         Circuit("half_open", circuit.n + 1)

-----------------------------------------------------------------------------
(* The token bucket: what is there at an instant, which becomes the        *)
(* instant of the last refill, earlier or later.                           *)

Refilled(c, b, at) ==
  [tokens |-> MinOf(c.capacity, b.tokens + MaxOf(0, at - b.at) * c.refill),
   at |-> at]

HasToken(c, b, at) == Refilled(c, b, at).tokens >= 1

TryConsume(c, b, at) ==
  IF HasToken(c, b, at)
    THEN [Refilled(c, b, at) EXCEPT !.tokens = @ - 1]
    ELSE Refilled(c, b, at)

-----------------------------------------------------------------------------
(* The slice.                                                              *)

InitSlice(c, Keys) ==
  [circuit |-> Circuit("closed", 0),
   bucket |-> [tokens |-> MaxOf(1, c.capacity), at |-> 0],
   retry |-> [k \in Keys |-> 0],
   fresh |-> [k \in Keys |-> 0],
   calls |-> [k \in Keys |-> NoCall]]

SetCall(s, k, call) == [s EXCEPT !.calls[k] = call]
Quiet(s) == [s |-> s, run |-> {}]

\* Back off, or fail when the retry policy is spent or absent.
Backoff(c, s, k, error, at, b, delay) ==
  LET counted == [s EXCEPT !.retry[k] = @ + 1]
  IN IF c.attempts = 0 THEN SetCall(s, k, Failed(error))
     ELSE IF counted.retry[k] >= c.attempts
            THEN SetCall(counted, k, Failed(error))
            ELSE SetCall(counted, k, Waiting(b, at + delay))

\* The gate every attempt passes: budget, cache, rate limit, circuit, run.
Gate(c, s, k, at, b, delay) ==
  LET taken == IF c.capacity = 0 THEN s
                 ELSE [s EXCEPT !.bucket = TryConsume(c, @, at)]
      asked == IF c.threshold = 0 THEN taken
                 ELSE [taken EXCEPT !.circuit = Passed(c, @, at)]
  IN IF c.deadline > 0 /\ b.left <= 0
       THEN Quiet(SetCall(s, k, Failed("deadline_exceeded")))
     ELSE IF c.ttl > 0 /\ at < s.fresh[k]
       THEN Quiet(SetCall(s, k, Succeeded))
     ELSE IF c.capacity > 0 /\ ~HasToken(c, s.bucket, at)
       THEN Quiet(Backoff(c, taken, k, "rate_limited", at, b, delay))
     ELSE IF c.threshold > 0 /\ ~MayPass(c, s.circuit, at)
       THEN Quiet(SetCall(asked, k, CircuitOpen))
     ELSE [s |-> SetCall(asked, k, Running(b)), run |-> {k}]

Attempt(c, s, k, at, delay) ==
  Gate(c, s, k, at, BudgetFor(c, s, k, at), delay)

\* Boot re-anchors the charging clock of every live call.
Resume(s, at) ==
  [s EXCEPT !.calls =
     [k \in DOMAIN s.calls |->
        IF s.calls[k].phase \in LivePhases
          THEN [s.calls[k] EXCEPT !.since = at]
          ELSE s.calls[k]]]

SettleOk(c, s, k, at) ==
  [SetCall(s, k, Succeeded) EXCEPT
     !.circuit = IF c.threshold > 0 THEN OnSuccess(@) ELSE @,
     !.fresh[k] = IF c.ttl > 0 THEN at + c.ttl ELSE @,
     !.retry[k] = 0]

\* Only a call that is running has an input to try again with.
SettleErr(c, s, k, at, delay) ==
  LET judged == [s EXCEPT
                   !.circuit = IF c.threshold > 0 THEN OnFailure(c, @, at) ELSE @]
  IN IF s.calls[k].phase = "running"
       THEN Backoff(c, judged, k, "err", at, BudgetFor(c, s, k, at), delay)
       ELSE SetCall(judged, k, Failed("err"))

SettleFailed(s, k, error) == SetCall(s, k, Failed(error))

-----------------------------------------------------------------------------
(* Timers: those a slice asks for, and what a ring does.  A ring carries   *)
(* the instant it was due, however late it is folded.                      *)

Timer(kind, k, at) == [kind |-> kind, key |-> k, at |-> at]

Deadlines(c, s) ==
  {Timer("retry", k, s.calls[k].retryAt) :
     k \in {j \in DOMAIN s.calls : s.calls[j].phase = "waiting_retry"}}
  \union
  {Timer("deadline", k, s.calls[k].since + s.calls[k].left) :
     k \in {j \in DOMAIN s.calls : /\ c.deadline > 0
                                   /\ s.calls[j].phase \in LivePhases
                                   /\ s.calls[j].left > 0}}

OnTimer(c, s, t, delay) ==
  LET call == s.calls[t.key]
  IN IF t.kind = "retry" /\ call.phase = "waiting_retry"
       THEN Gate(c, s, t.key, t.at, Charge(c, call, t.at), delay)
     ELSE IF t.kind = "deadline" /\ call.phase \in LivePhases
       THEN Quiet(SetCall(s, t.key, Failed("deadline_exceeded")))
     ELSE Quiet(s)
=============================================================================
