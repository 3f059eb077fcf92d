----------------------------- MODULE ToolLadder -----------------------------
(***************************************************************************)
(* createToolLadder (packages/tea/src/agent/tool-resilience.ts): the       *)
(* timeout and the retries of each tool call, one resilient slice per tool *)
(* name.  There is one tool with a policy here, so one slice s, keyed by   *)
(* call id; the calls in bare are of a tool without one, and pass by.  A   *)
(* verb answers [s, run, settle]: the slice, the calls whose handler is    *)
(* started, the calls to settle as timed out, in order.                    *)
(***************************************************************************)
EXTENDS ResilientSlice, SequencesExt

\* A settled call leaves the slice with its count.
Forget(s, k) == [s EXCEPT !.calls[k] = NoCall, !.retry[k] = 0]

TimedOut(s, k) ==
  s.calls[k].phase = "failed" /\ s.calls[k].error = "deadline_exceeded"

LadderStep(s, run, settle) == [s |-> s, run |-> run, settle |-> settle]

Issued(r, a) == LadderStep(a.s, r.run \union a.run, r.settle)

\* An attempt or a ring may find the time of call k over.
Sent(r, a, k) ==
  IF TimedOut(a.s, k)
    THEN LadderStep(Forget(a.s, k), r.run, Append(r.settle, k))
    ELSE Issued(r, a)

Bare(r, k) == [r EXCEPT !.run = @ \union {k}]

LadderLaunch(c, bare, s, calls, at, d) ==
  LET one(r, k) == IF k \in bare THEN Bare(r, k)
                     ELSE Issued(r, Attempt(c, r.s, k, at, d))
  IN FoldLeft(one, LadderStep(s, {}, <<>>), calls)

LadderOk(c, bare, s, k, at) ==
  IF k \in bare THEN s ELSE Forget(SettleOk(c, s, k, at), k)

\* A failure settles the call, unless the policy will try again.
Failure(judged, k) ==
  IF judged.calls[k].phase = "waiting_retry"
    THEN LadderStep(judged, {}, <<>>)
    ELSE LadderStep(Forget(judged, k), {}, <<k>>)

LadderErr(c, bare, s, k, at, d) ==
  IF k \in bare THEN LadderStep(s, {}, <<k>>)
                ELSE Failure(SettleErr(c, s, k, at, d), k)

\* A timer of a call the slice no longer holds is not for it.
LadderTimer(c, s, t, d) ==
  IF s.calls[t.key].phase \in LivePhases
    THEN Sent(LadderStep(s, {}, <<>>), OnTimer(c, s, t, d), t.key)
    ELSE LadderStep(s, {}, <<>>)

\* Every running call is sent again, but for one between two attempts, whose
\* retry timer is armed again.
MutSendAgain(c, r, k, at, d) ==
  Sent(r, Attempt(c, Forget(r.s, k), k, at, d), k)
SendAgain(c, r, k, at, d) ==
  IF r.s.calls[k].phase = "waiting_retry"
    THEN r
    ELSE Sent(r, Attempt(c, r.s, k, at, d), k)

LadderBoot(c, bare, s, calls, at, d) ==
  LET one(r, k) == IF k \in bare THEN Bare(r, k)
                     ELSE SendAgain(c, [r EXCEPT !.s = Resume(@, at)], k, at, d)
  IN FoldLeft(one, LadderStep(s, {}, <<>>), calls)
=============================================================================
