----------------------------- MODULE FlowProof ------------------------------
(***************************************************************************)
(* The flow batteries, the work queue and the file moves: the poller, the  *)
(* pass of the reconciler, the saga, the batch window, the runs of apply   *)
(* in structure-sweep, what the loads and saves of many clients do to a    *)
(* queue, the intake, and the durable workflow.                            *)
(***************************************************************************)
EXTENDS Poller, ReconcilePass, Saga, MoveApply, WorkQueue, BatchWindow,
        Intake, Workflow, CallsProof

-----------------------------------------------------------------------------
(* The poller.  A poller whose interval and backoff are never 0 is never   *)
(* silent.  That a timer is set, or rung, or an observation is in flight   *)
(* is not inductive: a result that asks for the instant that has just rung *)
(* would leave the Sub's id as it is and arm nothing.  It never asks for   *)
(* it, as an instant that rang is in the past (RangInThePast) and the next *)
(* one is not.                                                             *)

DelaysPass == PollEvery > 0 /\ PollDelay > 0

PollPhases == {"polling", "done", "gave_up"}

PollTypeOK ==
  /\ poll \in [phase : PollPhases, failures : Nat, nextAt : Nat \union {Unarmed},
               seen : SUBSET PollKeys]
  /\ pollArmed \subseteq Nat
  /\ {pollDue, pollFlight, pollNow, pollEvictions, pollStarts} \subseteq Nat

\* The instant the State asks for, when no timer is set to it, has come.
RangInThePast ==
  PollSubs(poll) # {} /\ pollArmed # PollSubs(poll) => poll.nextAt <= pollNow

PollInv == PollTypeOK /\ NeverSilent /\ RangInThePast

-----------------------------------------------------------------------------

(* Installing a State whose phase is polling and whose instant is still to *)
(* come leaves its timer set.                                              *)
LEMMA InstallsAhead ==
  ASSUME PollInv, NEW s,
         s \in [phase : {"polling"}, failures : Nat, nextAt : Nat,
                seen : SUBSET PollKeys],
         s.nextAt > pollNow, PollInstalls(s)
  PROVE  /\ poll' = s
         /\ PollSubs(s) = {s.nextAt} /\ pollArmed' = {s.nextAt}
<1>1. PollSubs(s) = {s.nextAt}
  BY DEF PollSubs, Unarmed
<1>2. CASE PollSubs(s) = PollSubs(poll)
  <2>1. poll.nextAt = s.nextAt
    BY <1>1, <1>2 DEF PollSubs
  <2>2. pollArmed = PollSubs(poll)
    BY <1>1, <1>2, <2>1 DEF PollInv, RangInThePast, PollTypeOK
  <2> QED BY <1>1, <1>2, <2>2 DEF PollInstalls
<1>3. CASE PollSubs(s) # PollSubs(poll)
  BY <1>1, <1>3 DEF PollInstalls
<1> QED BY <1>2, <1>3

(* Installing a State that has ended clears the timer.                     *)
LEMMA InstallsEnded ==
  ASSUME PollInv, NEW s, s.phase \in {"done", "gave_up"}, PollInstalls(s)
  PROVE  poll' = s /\ PollSubs(s) = {} /\ pollArmed' = {}
BY DEF PollInv, NeverSilent, PollInstalls, PollSubs

(* A step that installs either kind, and touches no clock, keeps PollInv.  *)
LEMMA InstalledInv ==
  ASSUME PollInv, NEW s,
         s \in [phase : PollPhases, failures : Nat, nextAt : Nat \union {Unarmed},
                seen : SUBSET PollKeys],
         \/ s.phase = "polling" /\ s.nextAt \in Nat /\ s.nextAt > pollNow
         \/ s.phase \in {"done", "gave_up"},
         PollInstalls(s), pollFlight' \in Nat, pollStarts' \in Nat,
         UNCHANGED <<pollDue, pollNow, pollEvictions>>
  PROVE  PollInv'
<1>1. CASE s.phase = "polling" /\ s.nextAt \in Nat /\ s.nextAt > pollNow
  <2>1. s \in [phase : {"polling"}, failures : Nat, nextAt : Nat,
               seen : SUBSET PollKeys]
    BY <1>1
  <2>2. /\ poll' = s
        /\ PollSubs(s) = {s.nextAt} /\ pollArmed' = {s.nextAt}
    BY <1>1, <2>1, InstallsAhead
  <2> QED
    BY <1>1, <2>2 DEF PollInv, PollTypeOK, NeverSilent, RangInThePast, PollSubs
<1>2. CASE s.phase \in {"done", "gave_up"}
  <2>1. poll' = s /\ PollSubs(s) = {} /\ pollArmed' = {}
    BY <1>2, InstallsEnded
  <2> QED
    BY <1>2, <2>1 DEF PollInv, PollTypeOK, NeverSilent, RangInThePast, PollSubs
<1> QED BY <1>1, <1>2

LEMMA PollInitInv == PollInit => PollInv
BY PollAssumption
   DEF PollInit, PollInv, PollTypeOK, NeverSilent, RangInThePast, PollSubs,
       PollPhases, Unarmed

LEMMA PollStepInv ==
  ASSUME DelaysPass, PollInv, [PollNext]_pollVars
  PROVE  PollInv'
<1> USE DEF PollPhases
<1>1. CASE PollStart
  <2> DEFINE s == [poll EXCEPT !.phase = "polling", !.nextAt = pollNow + PollEvery]
  <2>1. s.nextAt \in Nat /\ s.nextAt > pollNow /\ s.phase = "polling"
    BY PollAssumption DEF DelaysPass, PollInv, PollTypeOK
  <2>2. s \in [phase : PollPhases, failures : Nat, nextAt : Nat \union {Unarmed},
               seen : SUBSET PollKeys]
    BY <2>1 DEF PollInv, PollTypeOK
  <2>3. /\ PollInstalls(s) /\ pollFlight' \in Nat /\ pollStarts' \in Nat
        /\ UNCHANGED <<pollDue, pollNow, pollEvictions>>
    BY <1>1 DEF PollStart, PollInv, PollTypeOK
  <2> HIDE DEF s
  <2> QED BY <2>1, <2>2, <2>3, InstalledInv
<1>2. CASE PollRing
  BY <1>2 DEF PollRing, PollInv, PollTypeOK, NeverSilent, RangInThePast, PollSubs
<1>3. CASE Tick
  BY <1>3 DEF Tick, Ticked, PollInv, PollTypeOK, NeverSilent, RangInThePast, PollSubs
<1>4. CASE Observed
  <2>0. /\ pollFlight - 1 \in Nat /\ pollFlight \in Nat /\ pollStarts' \in Nat
        /\ UNCHANGED <<pollDue, pollNow, pollEvictions>>
    BY <1>4 DEF Observed, PollInv, PollTypeOK
  <2> DEFINE Fits(s) ==
        /\ s \in [phase : PollPhases, failures : Nat,
                  nextAt : Nat \union {Unarmed}, seen : SUBSET PollKeys]
        /\ \/ s.phase = "polling" /\ s.nextAt \in Nat /\ s.nextAt > pollNow
           \/ s.phase \in {"done", "gave_up"}
  <2> DEFINE again(d, n, keys) ==
        [poll EXCEPT !.phase = "polling", !.failures = n, !.nextAt = pollNow + d,
                     !.seen = @ \union keys]
      ended(p, n) ==
        [poll EXCEPT !.phase = p, !.failures = n, !.nextAt = Unarmed]
  <2>1. ASSUME NEW d \in Nat, NEW n \in Nat, NEW keys \in SUBSET PollKeys, d > 0
        PROVE  Fits(again(d, n, keys))
    <3>1. poll.seen \union keys \in SUBSET PollKeys
      BY DEF PollInv, PollTypeOK
    <3>2. pollNow + d \in Nat /\ pollNow + d > pollNow
      BY <2>1 DEF PollInv, PollTypeOK
    <3>3. [poll EXCEPT !.phase = "polling", !.failures = n] \in
             [phase : {"polling"}, failures : Nat, nextAt : Nat \union {Unarmed},
              seen : SUBSET PollKeys]
      BY DEF PollInv, PollTypeOK
    <3>4. \A s \in [phase : {"polling"}, failures : Nat,
                    nextAt : Nat \union {Unarmed}, seen : SUBSET PollKeys] :
            Fits([s EXCEPT !.nextAt = pollNow + d, !.seen = poll.seen \union keys])
      BY <3>1, <3>2
    <3> QED BY <3>3, <3>4
  <2>2. \A n \in Nat, p \in {"done", "gave_up"} : Fits(ended(p, n))
    BY DEF PollInv, PollTypeOK
  <2>3. {PollEvery, PollDelay, poll.failures + 1} \subseteq Nat
    BY PollAssumption DEF PollInv, PollTypeOK
  <2>4. \E s : Fits(s) /\ PollInstalls(s) /\ pollFlight' \in Nat
    <3>1. CASE TickResult
      <4>1. CASE PollInstalls(ended("done", 0)) /\ pollFlight' = pollFlight - 1
        BY <2>0, <2>2, <4>1
      <4>2. CASE /\ PollInstalls([poll EXCEPT !.phase = "polling", !.failures = 0,
                                              !.nextAt = pollNow + PollEvery])
                 /\ pollFlight' = pollFlight - 1
        <5>1. again(PollEvery, 0, {}) = [poll EXCEPT !.phase = "polling",
                        !.failures = 0, !.nextAt = pollNow + PollEvery]
          BY DEF PollInv, PollTypeOK
        <5> QED BY <2>0, <2>1, <2>3, <4>2, <5>1 DEF DelaysPass
      <4>3. ASSUME NEW key \in PollKeys,
                   PollInstalls(again(PollEvery, 0, {key})),
                   pollFlight' \in {pollFlight, pollFlight - 1}
            PROVE  \E s : Fits(s) /\ PollInstalls(s) /\ pollFlight' \in Nat
        <5>1. Fits(again(PollEvery, 0, {key}))
          BY <2>1, <2>3 DEF DelaysPass
        <5> HIDE DEF Fits, again
        <5> QED BY <2>0, <4>3, <5>1
      <4> QED BY <3>1, <4>1, <4>2, <4>3 DEF TickResult
    <3>2. CASE TickErr
      <4>1. CASE PollInstalls(ended("gave_up", poll.failures + 1))
        BY <2>0, <2>2, <2>3, <3>2, <4>1 DEF TickErr
      <4>2. CASE PollInstalls([poll EXCEPT !.phase = "polling", !.failures = @ + 1,
                                          !.nextAt = pollNow + PollDelay])
        <5>1. again(PollDelay, poll.failures + 1, {}) =
                [poll EXCEPT !.phase = "polling", !.failures = @ + 1,
                             !.nextAt = pollNow + PollDelay]
          BY DEF PollInv, PollTypeOK
        <5>2. Fits(again(PollDelay, poll.failures + 1, {}))
          BY <2>1, <2>3 DEF DelaysPass
        <5> HIDE DEF Fits, again
        <5> QED BY <2>0, <3>2, <4>2, <5>1, <5>2 DEF TickErr
      <4> QED BY <3>2, <4>1, <4>2 DEF TickErr
    <3> QED BY <1>4, <3>1, <3>2 DEF Observed
  <2> QED BY <2>0, <2>4, InstalledInv
<1>5. CASE EvictPoller
  BY <1>5
     DEF EvictPoller, PollInv, PollTypeOK, NeverSilent, RangInThePast, PollSubs
<1>6. CASE PollTime
  BY <1>6 DEF PollTime, PollInv, PollTypeOK, NeverSilent, RangInThePast, PollSubs
<1>7. CASE UNCHANGED pollVars
  BY <1>7
     DEF pollVars, PollInv, PollTypeOK, NeverSilent, RangInThePast, PollSubs
<1> QED BY <1>1, <1>2, <1>3, <1>4, <1>5, <1>6, <1>7 DEF PollNext

(* A started poller that has not ended always has a timer set, a ring on   *)
(* its way or an observation in flight, and one that ended has no timer:   *)
(* whatever comes late, twice or never, and whenever its host is evicted   *)
(* (internal/flow/poller/index.ts, subs, tick, tickResult and tickErr).    *)
THEOREM PollerNeverSilent ==
  ASSUME DelaysPass
  PROVE  PollSpec => []NeverSilent
<1>1. PollInit => PollInv
  BY PollInitInv
<1>2. PollInv /\ [PollNext]_pollVars => PollInv'
  BY PollStepInv
<1>3. PollInv => NeverSilent
  BY DEF PollInv
<1> QED BY <1>1, <1>2, <1>3, PTL DEF PollSpec

-----------------------------------------------------------------------------
(* A pass of the reconciler is exact for every number of pages, every set  *)
(* of plans, every knob of the page fetch and every number of evictions.   *)
(*                                                                         *)
(* What the page fetch does with its slice does not matter to the pass, so *)
(* nothing is assumed of it: the proof sees of a verb only which page it   *)
(* fetches.  The invariant: a page is fetched at the length of what was    *)
(* read, so no page is read twice or out of order; while applying, the one *)
(* change out is the one at the cursor, and every change before the cursor *)
(* is in the ledger; what was applied is counted by the ledger, by the one *)
(* change done and not told yet, and by the evictions, which forget that.  *)

Fields == {"phase", "walk", "page", "actual", "plan", "at", "applied"}

ReadInOrder ==
  /\ DOMAIN rec = Fields
  /\ rec.phase \in {"idle", "scanning", "applying", "done", "failed"}
  /\ rec.actual \in Seq(Nat) /\ rec.actual = Pages(Len(rec.actual))
  /\ rec.phase = "idle" => rec.actual = <<>> /\ rec.walk.phase = "idle" /\ recFetch = 0
  /\ rec.phase = "scanning" =>
       /\ Len(rec.actual) < RecPages
       /\ rec.walk = Walk("fetching", Len(rec.actual) + 1)
       /\ recFetch \in {0, Len(rec.actual) + 1}
  /\ rec.phase \in {"applying", "done"} => Len(rec.actual) = RecPages

Out(c, told) == [change |-> c, told |-> told]

OneAtATime ==
  /\ rec.phase # "applying" => recApply = {}
  /\ rec.phase = "applying" =>
       /\ rec.plan \in RecPlans
       /\ rec.at \in 1 .. Len(rec.plan) /\ rec.plan[rec.at] \notin rec.applied
       /\ \A i \in 1 .. (rec.at - 1) : rec.plan[i] \in rec.applied
       /\ \/ recApply = {Out(rec.plan[rec.at], FALSE)}
          \/ recApply = {Out(rec.plan[rec.at], TRUE)}
  /\ rec.phase = "done" => /\ rec.plan \in RecPlans
                           /\ \A i \in DOMAIN rec.plan : rec.plan[i] \in rec.applied

ChangesAreCounted ==
  /\ recDone \in [Changes -> Nat] /\ recEvictions \in Nat
  /\ \A c \in Changes :
       /\ recDone[c] <= 1 + recEvictions
       /\ c \notin rec.applied /\ Out(c, TRUE) \notin recApply =>
            recDone[c] <= recEvictions
       /\ c \in rec.applied \/ Out(c, TRUE) \in recApply => recDone[c] > 0

RecInv == ReadInOrder /\ OneAtATime /\ ChangesAreCounted

-----------------------------------------------------------------------------
(* Operators.                                                              *)

LEMMA NatMin ==
  ASSUME NEW T, T \subseteq Nat, T # {}
  PROVE  \E x \in T : \A y \in T : x <= y
<1> DEFINE R == OpToRel(<, Nat)
<1>1. IsWellFoundedOn(R, Nat)
  BY NatLessThanWellFounded, Zenon
<1>2. \A x, y \in Nat : (<<x, y>> \in R) <=> x < y
  BY DEF OpToRel
<1> HIDE DEF R
<1>3. \E x \in T : \A y \in T : ~(<<y, x>> \in R)
  BY <1>1, WFMin
<1>4. PICK x \in T : \A y \in T : ~(<<y, x>> \in R)
  BY <1>3
<1>5. \A y \in T : x <= y
  <2> TAKE y \in T
  <2>1. x \in Nat /\ y \in Nat
    OBVIOUS
  <2>2. ~(y < x)
    BY <1>2, <1>4, <2>1
  <2> QED BY <2>1, <2>2
<1> QED BY <1>5

\* A verb of the page fetch moves the slice of the call, and the walk.
Same(s, t) ==
  /\ DOMAIN t = Fields
  /\ t.phase = s.phase /\ t.actual = s.actual /\ t.plan = s.plan
  /\ t.at = s.at /\ t.applied = s.applied

LEMMA FetchKeeps ==
  ASSUME NEW s, NEW walk, DOMAIN s = Fields
  PROVE  LET r == FetchPage(s, walk)
         IN Same(s, r.s) /\ r.s.walk = walk /\ r.fetch \in {0, walk.at}
<1> DEFINE a == Attempt(RecConfig, s.page, "page", recNow, RecDelay)
           to == [s EXCEPT !.walk = walk, !.page = a.s]
<1> HIDE DEF a
<1>1. /\ FetchPage(s, walk).s = to
      /\ FetchPage(s, walk).fetch = IF a.run = {} THEN 0 ELSE walk.at
  BY DEF FetchPage, a
<1>2. Same(s, to) /\ to.walk = walk
  BY DEF Same, Fields
<1> HIDE DEF to
<1> QED BY <1>1, <1>2

LEMMA WalkKeeps ==
  ASSUME NEW s, NEW page, DOMAIN s = Fields
  PROVE  LET r == WalkPageOk(s, page)
             walk == RecordPage(s.walk, page)
         IN /\ Same(s, r.s) /\ r.s.walk = walk
            /\ walk.phase = "fetching" => r.fetch \in {0, walk.at}
            /\ walk.phase # "fetching" => r.fetch = 0
<1> DEFINE walk == RecordPage(s.walk, page)
           call == SettleOk(RecConfig, s.page, "page", recNow)
           settled == [s EXCEPT !.walk = walk, !.page = call]
<1> HIDE DEF walk, call
<1>1. Same(s, settled) /\ settled.walk = walk
  BY DEF Same, Fields
<1> HIDE DEF settled
<1>2. CASE walk.phase = "fetching"
  <2>1. WalkPageOk(s, page) = FetchPage(settled, walk)
    BY <1>2 DEF WalkPageOk, walk, call, settled
  <2>2. DOMAIN settled = Fields
    BY <1>1 DEF Same
  <2> QED BY <1>1, <1>2, <2>1, <2>2, FetchKeeps DEF Same, walk
<1>3. CASE walk.phase # "fetching"
  <2>1. WalkPageOk(s, page) = [s |-> settled, fetch |-> 0]
    BY <1>3 DEF WalkPageOk, walk, call, settled
  <2> QED BY <1>1, <1>3, <2>1 DEF walk
<1> QED BY <1>2, <1>3

LEMMA EscalatedKeeps ==
  ASSUME NEW s, DOMAIN s = Fields
  PROVE  \/ Escalated(s) = s
         \/ s.phase = "scanning" /\ Escalated(s) = [s EXCEPT !.phase = "failed"]
BY DEF Escalated

\* The next change is the first one the ledger has not seen.
LEMMA NextChange ==
  ASSUME NEW s, DOMAIN s = Fields, s.phase = "applying", s.plan \in RecPlans,
         s.at \in Nat \ {0},
         \A i \in 1 .. (s.at - 1) : i \in DOMAIN s.plan => s.plan[i] \in s.applied
  PROVE  LET r == ApplyNext(s)
         IN /\ DOMAIN r.s = Fields /\ r.s.actual = s.actual /\ r.s.plan = s.plan
            /\ r.s.applied = s.applied
            /\ \/ /\ r.s.phase = "done" /\ r.apply = {}
                  /\ \A i \in DOMAIN s.plan : s.plan[i] \in s.applied
               \/ /\ r.s.phase = "applying"
                  /\ r.s.at \in 1 .. Len(s.plan) /\ r.apply = {s.plan[r.s.at]}
                  /\ s.plan[r.s.at] \notin s.applied
                  /\ \A i \in 1 .. (r.s.at - 1) : s.plan[i] \in s.applied
<1>1. s.plan \in Seq(Nat) /\ Len(s.plan) \in Nat /\ DOMAIN s.plan = 1 .. Len(s.plan)
  BY RecAssumption
<1>2. CASE AwaitsAck(s) = {}
  <2> DEFINE end == [s EXCEPT !.phase = "done", !.at = Len(s.plan) + 1]
  <2>1. ApplyNext(s).s = end /\ ApplyNext(s).apply = {}
    BY <1>2 DEF ApplyNext
  <2>2. /\ DOMAIN end = Fields /\ end.actual = s.actual /\ end.plan = s.plan
        /\ end.applied = s.applied /\ end.phase = "done"
    BY DEF Fields
  <2>3. \A i \in DOMAIN s.plan : s.plan[i] \in s.applied
    BY <1>1, <1>2 DEF AwaitsAck
  <2> HIDE DEF end
  <2> QED BY <2>1, <2>2, <2>3
<1>3. CASE AwaitsAck(s) # {}
  <2> DEFINE First(i) == i \in AwaitsAck(s) /\ \A j \in AwaitsAck(s) : i <= j
             i0 == CHOOSE i \in AwaitsAck(s) : \A j \in AwaitsAck(s) : i <= j
             to == [s EXCEPT !.at = i0]
  <2>1. AwaitsAck(s) \subseteq Nat
    BY <1>1 DEF AwaitsAck
  <2>2. \E i \in AwaitsAck(s) : \A j \in AwaitsAck(s) : i <= j
    BY <1>3, <2>1, NatMin
  <2>3. i0 \in AwaitsAck(s) /\ \A j \in AwaitsAck(s) : i0 <= j
    BY <2>2
  <2>4. ApplyNext(s).s = to /\ ApplyNext(s).apply = {s.plan[i0]}
    BY <1>3 DEF ApplyNext
  <2> HIDE DEF i0
  <2>5. /\ DOMAIN to = Fields /\ to.actual = s.actual /\ to.plan = s.plan
        /\ to.applied = s.applied /\ to.phase = "applying" /\ to.at = i0
    BY DEF Fields
  <2> HIDE DEF to
  <2>6. /\ i0 \in s.at .. Len(s.plan) /\ s.plan[i0] \notin s.applied
        /\ i0 \in 1 .. Len(s.plan)
    BY <1>1, <2>3 DEF AwaitsAck
  <2>7. \A i \in 1 .. (i0 - 1) : s.plan[i] \in s.applied
    <3> TAKE i \in 1 .. (i0 - 1)
    <3>1. i \in 1 .. Len(s.plan) /\ i < i0
      BY <1>1, <2>6
    <3>2. CASE i < s.at
      <4>1. i \in 1 .. (s.at - 1)
        BY <3>1, <3>2
      <4> QED BY <1>1, <3>1, <4>1
    <3>3. CASE i >= s.at
      <4>1. i \notin AwaitsAck(s)
        BY <1>1, <2>3, <2>6, <3>1
      <4>2. i \in s.at .. Len(s.plan)
        BY <1>1, <3>1, <3>3
      <4> QED BY <4>1, <4>2 DEF AwaitsAck
    <3> QED BY <3>1, <3>2, <3>3
  <2> QED BY <2>4, <2>5, <2>6, <2>7
<1> QED BY <1>2, <1>3

\* Reading the next page keeps the pages in order.
LEMMA PagesGrow ==
  ASSUME NEW had \in Seq(Nat), had = Pages(Len(had))
  PROVE  LET more == Append(had, Len(had) + 1)
         IN more \in Seq(Nat) /\ Len(more) = Len(had) + 1 /\ more = Pages(Len(more))
<1> DEFINE n == Len(had)
           more == Append(had, n + 1)
<1>1. n \in Nat /\ n + 1 \in Nat
  OBVIOUS
<1>2. /\ more \in Seq(Nat) /\ Len(more) = n + 1 /\ more[n + 1] = n + 1
      /\ \A i \in 1 .. n : more[i] = had[i]
  BY <1>1, AppendProperties
<1>3. \A i \in 1 .. n : had[i] = i
  BY DEF Pages
<1>4. more = [i \in 1 .. (n + 1) |-> i]
  <2> HIDE DEF more
  <2>1. more = [i \in 1 .. (n + 1) |-> more[i]]
    BY <1>2
  <2>2. \A i \in 1 .. (n + 1) : more[i] = i
    BY <1>1, <1>2, <1>3
  <2> QED BY <2>1, <2>2
<1> QED BY <1>2, <1>4 DEF Pages

-----------------------------------------------------------------------------
(* The steps.                                                              *)

LEMMA RecInitial == RecInit => RecInv
<1> SUFFICES ASSUME RecInit PROVE RecInv
  OBVIOUS
<1> DEFINE start == [phase |-> "idle", walk |-> Walk("idle", 0),
                     page |-> InitSlice(RecConfig, {"page"}), actual |-> <<>>,
                     plan |-> <<>>, at |-> 1, applied |-> {}]
<1>1. /\ rec = start /\ recFetch = 0 /\ recApply = {} /\ recEvictions = 0
      /\ recDone = [c \in Changes |-> 0]
  BY DEF RecInit
<1>2. /\ DOMAIN rec = Fields /\ rec.phase = "idle" /\ rec.walk.phase = "idle"
      /\ rec.actual = <<>> /\ rec.applied = {}
  BY <1>1 DEF Fields, Walk
<1>3. <<>> \in Seq(Nat) /\ Len(<<>>) = 0 /\ <<>> = Pages(0)
  BY EmptySeq DEF Pages
<1>4. ReadInOrder
  BY <1>1, <1>2, <1>3 DEF ReadInOrder
<1>5. OneAtATime
  BY <1>1, <1>2 DEF OneAtATime
<1>6. ChangesAreCounted
  BY <1>1, <1>2 DEF ChangesAreCounted
<1> QED BY <1>4, <1>5, <1>6 DEF RecInv

\* A step that touches neither the plan nor the changes leaves them alone.
LEMMA ChangesStand ==
  ASSUME RecInv, Same(rec, rec') \/ (DOMAIN rec' = Fields /\ rec'.phase = "failed" /\
                                    rec.phase = "scanning" /\ rec'.applied = rec.applied),
         UNCHANGED <<recApply, recDone, recEvictions>>
  PROVE  OneAtATime' /\ ChangesAreCounted'
<1>1. OneAtATime /\ ChangesAreCounted
  BY DEF RecInv
<1>2. rec'.applied = rec.applied
  BY DEF Same
<1>3. ChangesAreCounted'
  BY <1>1, <1>2 DEF ChangesAreCounted
<1>4. ASSUME Same(rec, rec') PROVE OneAtATime'
  <2>1. /\ rec'.phase = rec.phase /\ rec'.plan = rec.plan /\ rec'.at = rec.at
        /\ recApply' = recApply
    BY <1>4 DEF Same
  <2> QED BY <1>1, <1>2, <2>1 DEF OneAtATime
<1>5. ASSUME rec'.phase = "failed", rec.phase = "scanning" PROVE OneAtATime'
  <2>1. recApply = {} /\ recApply' = recApply
    BY <1>1, <1>5 DEF OneAtATime
  <2> QED BY <1>5, <2>1 DEF OneAtATime
<1> QED BY <1>3, <1>4, <1>5

LEMMA ScanKeeps == ASSUME RecInv, Scan PROVE RecInv'
<1> DEFINE begun == [rec EXCEPT !.phase = "scanning"]
           r == FetchPage(begun, Walk("fetching", 1))
<1>0. ReadInOrder /\ OneAtATime /\ ChangesAreCounted
  BY DEF RecInv
<1>1. /\ rec.phase = "idle" /\ rec' = r.s /\ recFetch' = r.fetch
      /\ UNCHANGED <<recApply, recEvictions, recDone>>
  BY DEF Scan
<1>2. /\ DOMAIN begun = Fields /\ begun.phase = "scanning"
      /\ begun.actual = rec.actual /\ begun.applied = rec.applied
  BY <1>0 DEF ReadInOrder, Fields
<1> HIDE DEF begun
<1>3. Same(begun, r.s) /\ r.s.walk = Walk("fetching", 1) /\ r.fetch \in {0, 1}
  BY <1>2, FetchKeeps DEF Walk
<1> HIDE DEF r
<1>4. /\ DOMAIN rec' = Fields /\ rec'.phase = "scanning" /\ rec'.actual = rec.actual
      /\ rec'.applied = rec.applied /\ rec'.walk = Walk("fetching", 1)
      /\ recFetch' \in {0, 1}
  BY <1>1, <1>2, <1>3 DEF Same
<1>5. rec.actual = <<>> /\ Len(rec.actual) = 0 /\ RecPages > 0
  BY <1>0, <1>1, RecAssumption DEF ReadInOrder
<1>6. ReadInOrder'
  BY <1>0, <1>4, <1>5 DEF ReadInOrder
<1>7. OneAtATime'
  BY <1>0, <1>1, <1>4 DEF OneAtATime
<1>8. ChangesAreCounted'
  BY <1>0, <1>1, <1>4 DEF ChangesAreCounted
<1> QED BY <1>6, <1>7, <1>8 DEF RecInv

LEMMA PageOkKeeps == ASSUME RecInv, PageOk PROVE RecInv'
<1>0. ReadInOrder /\ OneAtATime /\ ChangesAreCounted
  BY DEF RecInv
<1>1. DOMAIN rec = Fields /\ recFetch # 0 /\ UNCHANGED <<recEvictions, recDone>>
  BY <1>0 DEF ReadInOrder, PageOk
<1> DEFINE w == WalkPageOk(rec, recFetch)
           next == RecordPage(rec.walk, recFetch)
<1>2. /\ Same(rec, w.s) /\ w.s.walk = next
      /\ next.phase = "fetching" => w.fetch \in {0, next.at}
      /\ next.phase # "fetching" => w.fetch = 0
  BY <1>1, WalkKeeps
<1>3. CASE rec.phase # "scanning"
  <2>1. rec' = w.s /\ recFetch' = 0 /\ recApply' = recApply
    BY <1>3 DEF PageOk, AfterScan, Applies
  <2> HIDE DEF w, next
  <2>2. OneAtATime' /\ ChangesAreCounted'
    BY <1>1, <1>2, <2>1, ChangesStand
  <2>3. rec.phase # "idle"
    BY <1>0, <1>1 DEF ReadInOrder
  <2>4. ReadInOrder'
    BY <1>0, <1>2, <1>3, <2>1, <2>3 DEF ReadInOrder, Same
  <2> QED BY <2>2, <2>4 DEF RecInv
<1>4. CASE rec.phase = "scanning"
  <2> DEFINE n == Len(rec.actual)
             more == Append(rec.actual, recFetch)
             read == [w.s EXCEPT !.actual = more]
  <2>1. /\ recFetch = n + 1 /\ n \in Nat /\ n < RecPages
        /\ rec.walk = Walk("fetching", n + 1) /\ rec.actual \in Seq(Nat)
        /\ rec.actual = Pages(n) /\ recApply = {}
    BY <1>0, <1>1, <1>4 DEF ReadInOrder, OneAtATime
  <2>2. more \in Seq(Nat) /\ Len(more) = n + 1 /\ more = Pages(Len(more))
    BY <2>1, PagesGrow
  <2>3. /\ InScan(rec, recFetch).s = read
        /\ InScan(rec, recFetch).fetch = w.fetch
    <3> HIDE DEF w
    <3>1. Same(rec, w.s)
      BY <1>2
    <3>2. InScan(rec, recFetch) = [w EXCEPT !.s.actual = more]
      BY <1>2, <2>1 DEF InScan, w, Same
    <3> QED BY <3>2 DEF w
  <2> HIDE DEF more
  <2>4. /\ DOMAIN read = Fields /\ read.phase = "scanning" /\ read.actual = more
        /\ read.applied = rec.applied /\ read.walk = next
    <3> HIDE DEF w, next
    <3> QED BY <1>2, <1>4 DEF Same, Fields
  <2> HIDE DEF read
  <2>5. next = IF n + 1 = RecPages THEN Walk("done", 0) ELSE Walk("fetching", n + 2)
    BY <2>1 DEF RecordPage, Walk
  <2> HIDE DEF w, next
  <2>6. CASE n + 1 # RecPages
    <3>1. next = Walk("fetching", n + 2) /\ next.phase = "fetching" /\ next.at = n + 2
      BY <2>5, <2>6 DEF Walk
    <3>2. rec' = read /\ recFetch' = w.fetch /\ recApply' = recApply
      BY <1>4, <2>3, <2>4, <3>1 DEF PageOk, Applies
    <3>3. ReadInOrder'
      <4>1. n + 1 < RecPages /\ n + 2 = (n + 1) + 1
        BY <2>1, <2>6, RecAssumption
      <4>2. /\ DOMAIN rec' = Fields /\ rec'.phase = "scanning" /\ rec'.actual = more
            /\ rec'.walk = Walk("fetching", Len(more) + 1)
            /\ recFetch' \in {0, Len(more) + 1}
        BY <1>2, <2>2, <2>4, <3>1, <3>2, <4>1
      <4> QED BY <2>2, <4>1, <4>2 DEF ReadInOrder
    <3>4. rec'.phase = "scanning" /\ rec'.applied = rec.applied
      BY <2>4, <3>2
    <3>5. OneAtATime'
      BY <2>1, <3>2, <3>4 DEF OneAtATime
    <3>6. ChangesAreCounted'
      BY <1>0, <1>1, <3>2, <3>4 DEF ChangesAreCounted
    <3> QED BY <3>3, <3>5, <3>6 DEF RecInv
  <2>7. CASE n + 1 = RecPages
    <3>1. next.phase = "done" /\ w.fetch = 0
      BY <1>2, <2>5, <2>7 DEF Walk
    <3>2. PICK plan \in RecPlans :
                 Applies(Planned(read, plan).s, Planned(read, plan).apply)
      BY <1>4, <2>3, <2>4, <3>1 DEF PageOk
    <3> DEFINE begun == [read EXCEPT !.phase = "applying", !.plan = plan, !.at = 1]
               p == ApplyNext(begun)
    <3>3. /\ DOMAIN begun = Fields /\ begun.phase = "applying" /\ begun.plan = plan
          /\ begun.at = 1 /\ begun.actual = more /\ begun.applied = rec.applied
      BY <2>4 DEF Fields
    <3>4. rec' = p.s /\ recApply' = {[change |-> c, told |-> FALSE] : c \in p.apply}
      BY <2>1, <3>2 DEF Applies, Planned
    <3> HIDE DEF begun
    <3>5. /\ DOMAIN p.s = Fields /\ p.s.actual = more /\ p.s.plan = plan
          /\ p.s.applied = rec.applied
          /\ \/ /\ p.s.phase = "done" /\ p.apply = {}
                /\ \A i \in DOMAIN plan : plan[i] \in rec.applied
             \/ /\ p.s.phase = "applying"
                /\ p.s.at \in 1 .. Len(plan) /\ p.apply = {plan[p.s.at]}
                /\ plan[p.s.at] \notin rec.applied
                /\ \A i \in 1 .. (p.s.at - 1) : plan[i] \in rec.applied
      <4>1. \A i \in 1 .. (begun.at - 1) :
              i \in DOMAIN begun.plan => begun.plan[i] \in begun.applied
        BY <3>3
      <4>2. begun.at \in Nat \ {0}
        BY <3>3
      <4> HIDE DEF p
      <4> QED BY <3>3, <4>1, <4>2, NextChange DEF p
    <3> HIDE DEF p
    <3>6. ReadInOrder'
      BY <2>2, <2>7, <3>4, <3>5 DEF ReadInOrder
    <3>7. OneAtATime'
      BY <3>4, <3>5 DEF OneAtATime, Out
    <3>8. \A c \in Changes : Out(c, TRUE) \notin recApply'
      BY <3>4 DEF Out
    <3>9. ChangesAreCounted'
      BY <1>0, <1>1, <2>1, <3>4, <3>5, <3>8 DEF ChangesAreCounted
    <3> QED BY <3>6, <3>7, <3>9 DEF RecInv
  <2> QED BY <2>6, <2>7
<1> QED BY <1>3, <1>4

\* A failed fetch, and a timer, at most end the scan.
LEMMA FetchFails ==
  ASSUME RecInv, NEW call, NEW to,
         to = [rec EXCEPT !.page = call], rec' = Escalated(to),
         UNCHANGED <<recApply, recEvictions, recDone>>
  PROVE  /\ OneAtATime' /\ ChangesAreCounted'
         /\ DOMAIN rec' = Fields /\ rec'.actual = rec.actual /\ rec'.walk = rec.walk
         /\ rec'.phase = rec.phase \/ (rec.phase = "scanning" /\ rec'.phase = "failed")
<1>1. DOMAIN rec = Fields
  BY DEF RecInv, ReadInOrder
<1>2. Same(rec, to) /\ to.walk = rec.walk
  BY <1>1 DEF Same, Fields
<1>3. CASE rec' = to
  <2>1. OneAtATime' /\ ChangesAreCounted'
    BY <1>2, <1>3, ChangesStand
  <2> QED BY <1>2, <1>3, <2>1 DEF Same
<1>4. CASE to.phase = "scanning" /\ rec' = [to EXCEPT !.phase = "failed"]
  <2>1. /\ DOMAIN rec' = Fields /\ rec'.phase = "failed" /\ rec'.actual = rec.actual
        /\ rec'.walk = rec.walk /\ rec'.applied = rec.applied /\ rec.phase = "scanning"
    BY <1>2, <1>4 DEF Same, Fields
  <2>2. OneAtATime' /\ ChangesAreCounted'
    BY <2>1, ChangesStand
  <2> QED BY <2>1, <2>2
<1>5. DOMAIN to = Fields
  BY <1>2 DEF Same
<1> QED BY <1>3, <1>4, <1>5, EscalatedKeeps

LEMMA PageErrKeeps == ASSUME RecInv, PageErr PROVE RecInv'
<1>0. ReadInOrder
  BY DEF RecInv
<1>1. recFetch' = 0 /\ recFetch # 0 /\ UNCHANGED <<recApply, recEvictions, recDone>>
  BY DEF PageErr
<1>2. CASE rec.walk.phase # "fetching"
  <2>1. rec' = rec
    BY <1>2 DEF PageErr
  <2>2. Same(rec, rec')
    BY <1>0, <2>1 DEF Same, ReadInOrder
  <2>3. OneAtATime' /\ ChangesAreCounted'
    BY <1>1, <2>2, ChangesStand
  <2>4. ReadInOrder'
    BY <1>0, <1>1, <2>1 DEF ReadInOrder
  <2> QED BY <2>3, <2>4 DEF RecInv
<1>3. CASE rec.walk.phase = "fetching"
  <2> DEFINE call == SettleErr(RecConfig, rec.page, "page", recNow, RecDelay)
             to == [rec EXCEPT !.page = call]
  <2>1. rec' = Escalated(to)
    BY <1>3 DEF PageErr
  <2> HIDE DEF call
  <2>2. /\ OneAtATime' /\ ChangesAreCounted'
        /\ DOMAIN rec' = Fields /\ rec'.actual = rec.actual /\ rec'.walk = rec.walk
        /\ rec'.phase = rec.phase \/ (rec.phase = "scanning" /\ rec'.phase = "failed")
    BY <1>1, <2>1, FetchFails
  <2> HIDE DEF to
  <2>3. ReadInOrder'
    BY <1>0, <1>1, <2>2 DEF ReadInOrder
  <2> QED BY <2>2, <2>3 DEF RecInv
<1> QED BY <1>2, <1>3

LEMMA RecTimerKeeps == ASSUME RecInv, RecTimer PROVE RecInv'
<1>0. ReadInOrder
  BY DEF RecInv
<1>1. PICK t \in Deadlines(RecConfig, rec.page) :
        LET r == OnTimer(RecConfig, rec.page, t, RecDelay)
        IN /\ rec.walk.phase = "fetching"
           /\ rec' = Escalated([rec EXCEPT !.page = r.s])
           /\ recFetch' = IF r.run = {} THEN recFetch ELSE rec.walk.at
           /\ UNCHANGED <<recApply, recEvictions, recDone>>
  BY DEF RecTimer
<1> DEFINE r == OnTimer(RecConfig, rec.page, t, RecDelay)
           to == [rec EXCEPT !.page = r.s]
<1> HIDE DEF r
<1>2. /\ rec.walk.phase = "fetching" /\ rec' = Escalated(to)
      /\ recFetch' \in {recFetch, rec.walk.at}
      /\ UNCHANGED <<recApply, recEvictions, recDone>>
  BY <1>1 DEF r
<1>3. /\ OneAtATime' /\ ChangesAreCounted'
      /\ DOMAIN rec' = Fields /\ rec'.actual = rec.actual /\ rec'.walk = rec.walk
      /\ rec'.phase = rec.phase \/ (rec.phase = "scanning" /\ rec'.phase = "failed")
  BY <1>2, FetchFails
<1> HIDE DEF to
<1>4. rec.phase = "scanning" => rec.walk.at = Len(rec.actual) + 1
  BY <1>0 DEF ReadInOrder, Walk
<1>5. ReadInOrder'
  BY <1>0, <1>2, <1>3, <1>4 DEF ReadInOrder
<1> QED BY <1>3, <1>5 DEF RecInv

LEMMA OutFields ==
  ASSUME NEW c
  PROVE  /\ Out(c, TRUE).told /\ ~Out(c, FALSE).told
         /\ Out(c, TRUE).change = c /\ Out(c, FALSE).change = c
<1>1. Out(c, TRUE).told = TRUE /\ Out(c, FALSE).told = FALSE
  BY DEF Out
<1>2. Out(c, TRUE).change = c /\ Out(c, FALSE).change = c
  BY DEF Out
<1> QED BY <1>1, <1>2, Zenon

LEMMA DoChangeKeeps == ASSUME RecInv, DoChange PROVE RecInv'
<1>0. ReadInOrder /\ OneAtATime /\ ChangesAreCounted
  BY DEF RecInv
<1>1. PICK a \in recApply :
        /\ ~a.told
        /\ recApply' = (recApply \ {a}) \union {[change |-> a.change, told |-> TRUE]}
        /\ recDone' = [recDone EXCEPT ![a.change] = @ + 1]
        /\ UNCHANGED <<rec, recFetch, recNow, recEvictions>>
  BY DEF DoChange
<1> DEFINE c == rec.plan[rec.at]
<1>2. /\ rec.phase = "applying" /\ rec.plan \in RecPlans /\ rec.at \in 1 .. Len(rec.plan)
      /\ c \notin rec.applied /\ \A i \in 1 .. (rec.at - 1) : rec.plan[i] \in rec.applied
      /\ recApply = {Out(c, FALSE)} \/ recApply = {Out(c, TRUE)}
  BY <1>0, <1>1 DEF OneAtATime
<1>3. c \in Changes
  <2>1. rec.plan \in Seq(Nat)
    BY <1>2, RecAssumption
  <2> QED BY <1>2, <2>1 DEF Changes
<1> HIDE DEF c
<1>4. a = Out(c, FALSE) /\ recApply = {a}
  BY <1>1, <1>2, OutFields, Zenon
<1>5. a.change = c /\ [change |-> a.change, told |-> TRUE] = Out(c, TRUE)
  BY <1>4, OutFields DEF Out
<1>6. recApply' = {Out(c, TRUE)} /\ recDone' = [recDone EXCEPT ![c] = @ + 1]
  BY <1>1, <1>4, <1>5
<1>7. ReadInOrder'
  BY <1>0, <1>1 DEF ReadInOrder
<1>8. OneAtATime'
  BY <1>1, <1>2, <1>6 DEF OneAtATime, c
<1>9. ChangesAreCounted'
  <2>1. recDone' \in [Changes -> Nat] /\ recEvictions' \in Nat
    BY <1>0, <1>1, <1>3, <1>6 DEF ChangesAreCounted
  <2> SUFFICES ASSUME NEW d \in Changes
               PROVE  /\ recDone'[d] <= 1 + recEvictions
                      /\ d \notin rec.applied /\ Out(d, TRUE) # Out(c, TRUE) =>
                           recDone'[d] <= recEvictions
                      /\ d \in rec.applied \/ Out(d, TRUE) = Out(c, TRUE) =>
                           recDone'[d] > 0
    BY <1>1, <1>6, <2>1 DEF ChangesAreCounted
  <2>2. Out(d, TRUE) = Out(c, TRUE) <=> d = c
    BY DEF Out
  <2>3. Out(c, TRUE) \notin recApply
    BY <1>4 DEF Out
  <2>4. CASE d = c
    <3>1. recDone[c] <= recEvictions /\ recDone[c] \in Nat /\ recEvictions \in Nat
      BY <1>0, <1>2, <1>3, <2>3 DEF ChangesAreCounted
    <3>2. recDone'[c] = recDone[c] + 1
      BY <1>0, <1>3, <1>6 DEF ChangesAreCounted
    <3> QED BY <2>2, <2>4, <3>1, <3>2
  <2>5. CASE d # c
    <3>1. recDone'[d] = recDone[d]
      BY <1>0, <1>6, <2>5 DEF ChangesAreCounted
    <3>2. Out(d, TRUE) \notin recApply
      BY <1>4 DEF Out
    <3> QED BY <1>0, <2>2, <2>5, <3>1, <3>2 DEF ChangesAreCounted
  <2> QED BY <2>4, <2>5
<1> QED BY <1>7, <1>8, <1>9 DEF RecInv

LEMMA ChangeAppliedKeeps == ASSUME RecInv, ChangeApplied PROVE RecInv'
<1>0. ReadInOrder /\ OneAtATime /\ ChangesAreCounted
  BY DEF RecInv
<1>1. PICK a \in recApply :
        LET acked == [rec EXCEPT !.applied = @ \union {a.change}, !.at = @ + 1]
            r == ApplyNext(acked)
        IN /\ a.told
           /\ rec' = IF rec.phase = "applying" THEN r.s ELSE rec
           /\ recApply' = (recApply \ {a})
                \union {[change |-> x, told |-> FALSE] :
                          x \in IF rec.phase = "applying" THEN r.apply ELSE {}}
           /\ UNCHANGED <<recFetch, recNow, recEvictions, recDone>>
  BY DEF ChangeApplied
<1> DEFINE c == rec.plan[rec.at]
           acked == [rec EXCEPT !.applied = @ \union {a.change}, !.at = @ + 1]
           r == ApplyNext(acked)
<1>2. /\ rec.phase = "applying" /\ rec.plan \in RecPlans /\ rec.at \in 1 .. Len(rec.plan)
      /\ c \notin rec.applied /\ \A i \in 1 .. (rec.at - 1) : rec.plan[i] \in rec.applied
      /\ recApply = {Out(c, FALSE)} \/ recApply = {Out(c, TRUE)}
  BY <1>0, <1>1 DEF OneAtATime
<1>3. recApply = {a} /\ a.change = c /\ a = Out(c, TRUE)
  <2> HIDE DEF c
  <2> QED BY <1>1, <1>2, OutFields, Zenon
<1>4. /\ rec' = r.s /\ recApply' = {Out(x, FALSE) : x \in r.apply}
      /\ UNCHANGED <<recFetch, recEvictions, recDone>>
  BY <1>1, <1>2, <1>3 DEF Out
<1>5. /\ DOMAIN acked = Fields /\ acked.phase = "applying" /\ acked.plan = rec.plan
      /\ acked.at = rec.at + 1 /\ acked.actual = rec.actual
      /\ acked.applied = rec.applied \union {c}
  <2> HIDE DEF c
  <2> QED BY <1>0, <1>2, <1>3 DEF ReadInOrder, Fields
<1>6. /\ acked.at \in Nat \ {0}
      /\ \A i \in 1 .. (acked.at - 1) : i \in DOMAIN acked.plan =>
                                          acked.plan[i] \in acked.applied
  <2> HIDE DEF acked
  <2> QED BY <1>2, <1>5
<1> HIDE DEF c, acked
<1>7. /\ DOMAIN r.s = Fields /\ r.s.actual = rec.actual /\ r.s.plan = rec.plan
      /\ r.s.applied = rec.applied \union {c}
      /\ \/ /\ r.s.phase = "done" /\ r.apply = {}
            /\ \A i \in DOMAIN rec.plan : rec.plan[i] \in rec.applied \union {c}
         \/ /\ r.s.phase = "applying"
            /\ r.s.at \in 1 .. Len(rec.plan) /\ r.apply = {rec.plan[r.s.at]}
            /\ rec.plan[r.s.at] \notin rec.applied \union {c}
            /\ \A i \in 1 .. (r.s.at - 1) : rec.plan[i] \in rec.applied \union {c}
  <2> HIDE DEF r
  <2> QED BY <1>2, <1>5, <1>6, NextChange DEF r
<1> HIDE DEF r
<1>8. ReadInOrder'
  BY <1>0, <1>2, <1>4, <1>7 DEF ReadInOrder
<1>9. OneAtATime'
  <2>1. /\ rec'.plan = rec.plan /\ rec'.phase = r.s.phase /\ rec'.at = r.s.at
        /\ rec'.applied = rec.applied \union {c}
    BY <1>4, <1>7
  <2>2. CASE r.s.phase = "done"
    <3>1. recApply' = {} /\ \A i \in DOMAIN rec.plan : rec.plan[i] \in rec'.applied
      BY <1>4, <1>7, <2>1, <2>2
    <3> QED BY <1>2, <2>1, <2>2, <3>1 DEF OneAtATime
  <2>3. CASE r.s.phase = "applying"
    <3>1. recApply' = {Out(rec.plan[r.s.at], FALSE)}
      <4>1. r.apply = {rec.plan[r.s.at]}
        BY <1>7, <2>3
      <4> QED BY <1>4, <4>1
    <3> QED BY <1>2, <1>7, <2>1, <2>3, <3>1 DEF OneAtATime
  <2> QED BY <1>7, <2>2, <2>3
<1>10. ChangesAreCounted'
  <2>1. \A d \in Changes : Out(d, TRUE) \notin recApply'
    BY <1>4 DEF Out
  <2>2. \A d \in Changes : Out(d, TRUE) \in recApply <=> d = c
    <3>1. \A d : Out(d, TRUE) = Out(c, TRUE) <=> d = c
      BY OutFields
    <3> QED BY <1>3, <3>1
  <2>3. rec'.applied = rec.applied \union {c}
    BY <1>4, <1>7
  <2> QED BY <1>0, <1>4, <2>1, <2>2, <2>3 DEF ChangesAreCounted
<1> QED BY <1>8, <1>9, <1>10 DEF RecInv

\* An eviction forgets the change that is out, and tries it again.
LEMMA EvictPassKeeps == ASSUME RecInv, EvictPass PROVE RecInv'
<1>0. ReadInOrder /\ OneAtATime /\ ChangesAreCounted
  BY DEF RecInv
<1> DEFINE r == ApplyNext(rec)
<1>1. /\ recEvictions' = recEvictions + 1 /\ rec' = r.s /\ recFetch' = 0
      /\ recApply' = {[change |-> x, told |-> FALSE] : x \in r.apply}
      /\ UNCHANGED recDone
  BY DEF EvictPass
<1>2. \A d \in Changes : Out(d, TRUE) \notin recApply'
  BY <1>1 DEF Out
<1>3. ASSUME rec'.applied = rec.applied PROVE ChangesAreCounted'
  <2>1. recEvictions' \in Nat /\ recDone' \in [Changes -> Nat]
    BY <1>0, <1>1 DEF ChangesAreCounted
  <2>2. \A d \in Changes : recDone[d] \in Nat /\ recDone[d] <= 1 + recEvictions
    BY <1>0 DEF ChangesAreCounted
  <2>3. recEvictions' = recEvictions + 1 /\ recEvictions \in Nat
    BY <1>0, <1>1 DEF ChangesAreCounted
  <2>4. \A d \in Changes : recDone[d] <= recEvictions' /\ recDone[d] <= 1 + recEvictions'
    BY <2>2, <2>3
  <2>5. \A d \in Changes : d \in rec.applied => recDone[d] > 0
    BY <1>0 DEF ChangesAreCounted
  <2> QED BY <1>1, <1>2, <1>3, <2>1, <2>4, <2>5 DEF ChangesAreCounted
<1>4. CASE rec.phase # "applying"
  <2>1. r.s = rec /\ r.apply = {}
    BY <1>4 DEF ApplyNext
  <2>2. rec' = rec /\ recApply' = {}
    BY <1>1, <2>1
  <2>3. ReadInOrder'
    BY <1>0, <1>1, <2>2 DEF ReadInOrder
  <2>4. OneAtATime'
    BY <1>0, <1>4, <2>2 DEF OneAtATime
  <2> QED BY <1>3, <2>2, <2>3, <2>4 DEF RecInv
<1>5. CASE rec.phase = "applying"
  <2>1. /\ rec.plan \in RecPlans /\ rec.at \in 1 .. Len(rec.plan) /\ DOMAIN rec = Fields
        /\ \A i \in 1 .. (rec.at - 1) : rec.plan[i] \in rec.applied
    BY <1>0, <1>5 DEF OneAtATime, ReadInOrder
  <2>2. rec.at \in Nat \ {0}
    BY <2>1
  <2>3. /\ DOMAIN r.s = Fields /\ r.s.actual = rec.actual /\ r.s.plan = rec.plan
        /\ r.s.applied = rec.applied
        /\ \/ /\ r.s.phase = "done" /\ r.apply = {}
              /\ \A i \in DOMAIN rec.plan : rec.plan[i] \in rec.applied
           \/ /\ r.s.phase = "applying"
              /\ r.s.at \in 1 .. Len(rec.plan) /\ r.apply = {rec.plan[r.s.at]}
              /\ rec.plan[r.s.at] \notin rec.applied
              /\ \A i \in 1 .. (r.s.at - 1) : rec.plan[i] \in rec.applied
    <3> HIDE DEF r
    <3> QED BY <1>5, <2>1, <2>2, NextChange DEF r
  <2> HIDE DEF r
  <2>4. ReadInOrder'
    BY <1>0, <1>1, <1>5, <2>3 DEF ReadInOrder
  <2>5. OneAtATime'
    BY <1>1, <2>1, <2>3 DEF OneAtATime, Out
  <2> QED BY <1>1, <1>3, <2>3, <2>4, <2>5 DEF RecInv
<1> QED BY <1>4, <1>5

LEMMA RecStep == ASSUME RecInv, [RecNext]_recVars PROVE RecInv'
<1>1. CASE UNCHANGED <<rec, recFetch, recApply, recEvictions, recDone>>
  BY <1>1 DEF RecInv, ReadInOrder, OneAtATime, ChangesAreCounted
<1>2. CASE RecNext
  BY <1>1, <1>2, ScanKeeps, PageOkKeeps, PageErrKeeps, RecTimerKeeps, DoChangeKeeps,
     ChangeAppliedKeeps, EvictPassKeeps DEF RecNext, RecTime
<1> QED BY <1>1, <1>2 DEF recVars

LEMMA InvGivesExact == RecInv => PassIsExact
<1> SUFFICES ASSUME RecInv PROVE PassIsExact
  OBVIOUS
<1>0. ReadInOrder /\ OneAtATime /\ ChangesAreCounted
  BY DEF RecInv
<1>1. rec.actual = Pages(Len(rec.actual))
  BY <1>0 DEF ReadInOrder
<1>2. rec.phase \in {"applying", "done"} => Len(rec.actual) = RecPages
  BY <1>0 DEF ReadInOrder
<1>3. \A a, b \in recApply : a = b
  BY <1>0 DEF OneAtATime
<1>4. ASSUME rec.phase = "done", NEW i \in DOMAIN rec.plan
      PROVE  recDone[rec.plan[i]] > 0
  <2>1. rec.plan \in RecPlans /\ rec.plan[i] \in rec.applied
    BY <1>0, <1>4 DEF OneAtATime
  <2>2. rec.plan[i] \in Changes
    BY <1>4, <2>1 DEF Changes
  <2> QED BY <1>0, <2>1, <2>2 DEF ChangesAreCounted
<1>5. \A c \in Changes : recDone[c] <= 1 + recEvictions
  BY <1>0 DEF ChangesAreCounted
<1> QED BY <1>1, <1>2, <1>3, <1>4, <1>5 DEF PassIsExact

(* Whatever fetches failed, came late or were evicted, and wherever an     *)
(* eviction cut the applies: a pass plans on every page, once and in       *)
(* order, applies one change at a time, is done only when each change of   *)
(* its plan was applied, and repeats one only for an ack an eviction lost  *)
(* (reconciler/index.ts:564, :593).                                        *)
THEOREM ReconcilerIsExact == RecSpec => []PassIsExact
<1>1. RecInit => RecInv
  BY RecInitial
<1>2. RecInv /\ [RecNext]_recVars => RecInv'
  BY RecStep
<1>3. RecInv => PassIsExact
  BY InvGivesExact
<1> QED BY <1>1, <1>2, <1>3, PTL DEF RecSpec

-----------------------------------------------------------------------------
(* The saga.  The log is the first steps in order, the world is those of   *)
(* the log but for the one under way, and what the ledger calls cancelled  *)
(* is above.                                                               *)

\* An entry of the ledger.
SagaItems == [id : Nat, status : ItemStatus]

\* The ledger names each step once, in its place.
SagaLedger(items) ==
  /\ items \in Seq(SagaItems)
  /\ Len(items) = SagaSteps
  /\ \A i \in DOMAIN items : items[i].id = i

\* The Cmd in flight, or its answer, and what it says of the world.
DoesNow(n) ==
  \/ sagaCmd = Do(n) /\ sagaAnswer = "none"
  \/ sagaCmd = NoCmd /\ sagaAnswer = "step_ok" /\ n \in sagaWorld
  \/ sagaCmd = NoCmd /\ sagaAnswer = "step_err" /\ n \notin sagaWorld

\* The undo in flight, or its answer, and what it says of the world.
UndoesNow(n) ==
  \/ sagaCmd = Undo(n) /\ sagaAnswer = "none"
  \/ sagaCmd = NoCmd /\ sagaAnswer = "undo_ok" /\ n \notin sagaWorld
  \/ sagaCmd = NoCmd /\ sagaAnswer = "undo_err" /\ n \in sagaWorld

\* No Cmd is in flight and no answer waits.
SagaQuiet == sagaCmd = NoCmd /\ sagaAnswer = "none"

\* What was undone is above n, and while the saga goes forward nothing is.
NoneCancelled == \A i \in DOMAIN saga.items : saga.items[i].status # "cancelled"
CancelledAbove(n) ==
  \A i \in DOMAIN saga.items : saga.items[i].status = "cancelled" => i > n

\* Phase by phase, what the log, the ledger and the world say of one another.
SagaInv ==
  LET n == Len(saga.done)
  IN /\ saga \in [phase : {"idle", "running", "committed", "compensating", "aborted",
                           "compensation_failed"},
                  position : Nat, done : Seq(Nat), items : Seq(SagaItems)]
     /\ \A i \in DOMAIN saga.done : saga.done[i] = i
     /\ saga.phase = "idle" => saga.done = <<>> /\ saga.items = <<>> /\ sagaWorld = {}
                                 /\ saga.position = 1 /\ SagaQuiet
     /\ saga.phase = "running" =>
          /\ SagaLedger(saga.items) /\ NoneCancelled
          /\ saga.position = n + 1 /\ saga.position <= SagaSteps
          /\ sagaWorld \ {n + 1} = 1 .. n /\ DoesNow(n + 1)
     /\ saga.phase = "committed" => sagaWorld = 1 .. SagaSteps /\ SagaQuiet /\ NoneCancelled
     /\ saga.phase = "compensating" =>
          /\ SagaLedger(saga.items) /\ CancelledAbove(n)
          /\ n > 0 /\ saga.position = n /\ n <= SagaSteps
          /\ sagaWorld \ {n} = 1 .. n - 1 /\ UndoesNow(n)
     /\ saga.phase = "aborted" => sagaWorld = {} /\ SagaQuiet
     /\ saga.phase = "compensation_failed" =>
          /\ sagaWorld = 1 .. n /\ SagaQuiet /\ SagaLedger(saga.items) /\ CancelledAbove(n)

-----------------------------------------------------------------------------

\* A patch finds the step in its place.
LEMMA PatchInPlace ==
  ASSUME NEW items, SagaLedger(items), NEW k \in 1 .. SagaSteps, NEW status \in ItemStatus
  PROVE  LET patched == Patch(items, k, status)
         IN /\ SagaLedger(patched)
            /\ \A i \in DOMAIN items :
                 patched[i].status = IF i = k THEN status ELSE items[i].status
            /\ DOMAIN patched = DOMAIN items
<1> DEFINE patched == [items EXCEPT ![k].status = status]
           item == [items[k] EXCEPT !.status = status]
<1>1. DOMAIN items = 1 .. Len(items) /\ Len(items) \in Nat /\ SagaSteps = Len(items)
  BY DEF SagaLedger
<1>2. items[k] \in SagaItems
  BY <1>1 DEF SagaLedger
<1> DEFINE at == {i \in 1 .. Len(items) : items[i].id = k}
<1>3. at = {k}
  BY <1>1 DEF SagaLedger
<1>4. Min({k}) = k
  BY DEF Min
<1>5. Patch(items, k, status) = patched
  <2>1. Patch(items, k, status)
          = IF (IF at # {} THEN Min(at) ELSE 0) = 0 THEN items
              ELSE [items EXCEPT ![IF at # {} THEN Min(at) ELSE 0].status = status]
    BY DEF Patch, SelectInSeq
  <2> HIDE DEF at
  <2>2. (IF at # {} THEN Min(at) ELSE 0) = k /\ k # 0
    BY <1>3, <1>4
  <2> QED
    BY <2>1, <2>2
<1>6. item \in SagaItems /\ item.id = items[k].id /\ item.status = status
  BY <1>2 DEF SagaItems
<1>7. patched = [items EXCEPT ![k] = item]
  OBVIOUS
<1> HIDE DEF item, patched
<1>8. patched \in Seq(SagaItems) /\ Len(patched) = Len(items)
      /\ \A i \in 1 .. Len(items) : patched[i] = IF i = k THEN item ELSE items[i]
  BY <1>1, <1>6, <1>7, ExceptSeq DEF SagaLedger
<1>9. DOMAIN patched = DOMAIN items
  BY <1>1, <1>8
<1> QED
  BY <1>1, <1>5, <1>6, <1>8, <1>9 DEF SagaLedger

\* The same, of a ledger that has a name.
LEMMA PatchKeepsLedger ==
  ASSUME NEW items, SagaLedger(items), NEW k \in 1 .. SagaSteps, NEW status \in ItemStatus,
         NEW patched, patched = Patch(items, k, status)
  PROVE  /\ SagaLedger(patched) /\ DOMAIN patched = DOMAIN items
         /\ \A i \in DOMAIN items :
              patched[i].status = IF i = k THEN status ELSE items[i].status
BY PatchInPlace

\* The log of the steps that succeeded is the first of them, in order.
LogCounts(log) == log \in Seq(Nat) /\ \A i \in DOMAIN log : log[i] = i

\* The log with one more step.
LEMMA LogGrows ==
  ASSUME NEW log, LogCounts(log)
  PROVE  LET longer == Append(log, Len(log) + 1)
         IN LogCounts(longer) /\ Len(longer) = Len(log) + 1
BY AppendProperties DEF LogCounts

\* The log without its last step.
LEMMA LogShrinks ==
  ASSUME NEW log, LogCounts(log), log # <<>>
  PROVE  /\ Len(log) \in Nat \ {0} /\ Last(log) = Len(log)
         /\ LogCounts(Front(log)) /\ Len(Front(log)) = Len(log) - 1
         /\ Front(log) = <<>> <=> Len(log) = 1
<1>1. Len(log) \in Nat \ {0} /\ DOMAIN log = 1 .. Len(log)
  BY EmptySeq DEF LogCounts
<1>2. /\ SubSeq(log, 1, Len(log) - 1) \in Seq(Nat)
      /\ Len(SubSeq(log, 1, Len(log) - 1)) = Len(log) - 1
      /\ \A i \in 1 .. Len(log) - 1 : SubSeq(log, 1, Len(log) - 1)[i] = log[i]
  BY <1>1, SubSeqProperties DEF LogCounts
<1>3. LogCounts(Front(log)) /\ Len(Front(log)) = Len(log) - 1
  BY <1>1, <1>2 DEF LogCounts, Front
<1> QED
  BY <1>1, <1>3, EmptySeq DEF LogCounts, Last

\* Where the n-th number alone is in doubt, it decides.
LEMMA StepsUpTo ==
  ASSUME NEW n \in Nat \ {0}, NEW W, W \ {n} = 1 .. n - 1
  PROVE  /\ n \in W => W = 1 .. n
         /\ n \notin W => W = 1 .. n - 1
<1>1. n \notin W => W = 1 .. n - 1
  OBVIOUS
<1>2. ASSUME n \in W PROVE W = 1 .. n
  <2>1. \A i : i \in W <=> i \in 1 .. n - 1 \/ i = n
    BY <1>2
  <2>2. \A i : i \in 1 .. n <=> i \in 1 .. n - 1 \/ i = n
    OBVIOUS
  <2> QED
    BY <2>1, <2>2
<1> QED
  BY <1>1, <1>2

\* start(): the first step, or no step at all.
LEMMA SagaStartKeeps == SagaInv /\ Start => SagaInv'
<1> SUFFICES ASSUME SagaInv, Start PROVE SagaInv'
  OBVIOUS
<1>1. UNCHANGED <<sagaAnswer, sagaWorld>> /\ saga.phase = "idle"
  BY DEF Start
<1>2. CASE SagaSteps = 0
  BY <1>1, <1>2 DEF Start, SagaInv, SagaQuiet, NoneCancelled
<1>3. CASE SagaSteps # 0
  <2>1. SagaLedger(FreshLedger) /\ \A i \in DOMAIN FreshLedger : FreshLedger[i].status = "pending"
    <3>1. \A i \in 1 .. SagaSteps : FreshLedger[i] = [id |-> i, status |-> "pending"]
      BY DEF FreshLedger, Item
    <3>2. FreshLedger \in [1 .. SagaSteps -> SagaItems]
      BY SagaAssumption, <3>1 DEF FreshLedger, SagaItems, ItemStatus
    <3>3. FreshLedger \in Seq(SagaItems) /\ Len(FreshLedger) = SagaSteps
      <4> HIDE DEF FreshLedger
      <4> QED
        BY SagaAssumption, <3>2
    <3> QED
      BY <3>1, <3>3 DEF SagaLedger
  <2>2. 1 \in 1 .. SagaSteps /\ "running" \in ItemStatus
    BY <1>3, SagaAssumption DEF ItemStatus
  <2> DEFINE items == Patch(FreshLedger, 1, "running")
  <2>3. SagaLedger(items) /\ \A i \in DOMAIN items : items[i].status # "cancelled"
    BY <2>1, <2>2, PatchInPlace
  <2>4. saga' = [saga EXCEPT !.phase = "running", !.items = items] /\ sagaCmd' = Do(1)
    BY <1>3 DEF Start
  <2> HIDE DEF items
  <2>5. /\ saga'.phase = "running" /\ saga'.items = items /\ saga'.done = <<>>
        /\ saga'.position = 1 /\ saga' \in [phase : {"running"}, position : Nat,
                                            done : Seq(Nat), items : Seq(SagaItems)]
    BY <1>1, <2>3, <2>4 DEF SagaInv, SagaLedger
  <2>6. Len(saga'.done) = 0 /\ sagaWorld' = {} /\ sagaAnswer' = "none"
    BY <1>1, <2>5 DEF SagaInv, SagaQuiet
  <2> QED
    BY <2>2, <2>3, <2>4, <2>5, <2>6 DEF SagaInv, NoneCancelled, DoesNow
<1> QED
  BY <1>2, <1>3

\* An answer is folded: the next step, the next undo, or the end.
LEMMA SagaFoldKeeps == SagaInv /\ FoldAnswer => SagaInv'
<1> SUFFICES ASSUME SagaInv, FoldAnswer PROVE SagaInv'
  OBVIOUS
<1> DEFINE n == Len(saga.done)
<1>0. /\ sagaAnswer' = "none" /\ sagaWorld' = sagaWorld
      /\ LogCounts(saga.done) /\ n \in Nat
      /\ saga \in [phase : {"idle", "running", "committed", "compensating", "aborted",
                            "compensation_failed"},
                   position : Nat, done : Seq(Nat), items : Seq(SagaItems)]
      /\ "done" \in ItemStatus /\ "running" \in ItemStatus
      /\ "failed" \in ItemStatus /\ "cancelled" \in ItemStatus
  BY DEF FoldAnswer, SagaInv, LogCounts, ItemStatus
<1>1. CASE sagaAnswer = "step_ok" /\ saga.phase = "running" /\ StepOk
  <2>1. /\ SagaLedger(saga.items) /\ NoneCancelled /\ saga.position = n + 1
        /\ n + 1 \in 1 .. SagaSteps /\ sagaWorld = 1 .. n + 1 /\ sagaCmd = NoCmd
        /\ SagaSteps \in Nat
    <3>1. /\ SagaLedger(saga.items) /\ NoneCancelled /\ saga.position = n + 1
          /\ n + 1 <= SagaSteps /\ sagaWorld \ {n + 1} = 1 .. n /\ DoesNow(n + 1)
      BY <1>1 DEF SagaInv
    <3>2. n + 1 \in sagaWorld /\ sagaCmd = NoCmd
      BY <1>1, <3>1 DEF DoesNow
    <3>3. sagaWorld = 1 .. n + 1
      <4> DEFINE m == n + 1
      <4>1. m \in Nat \ {0} /\ m - 1 = n
        BY <1>0
      <4> HIDE DEF m
      <4>2. sagaWorld \ {m} = 1 .. m - 1 /\ m \in sagaWorld
        BY <3>1, <3>2, <4>1 DEF m
      <4>3. sagaWorld = 1 .. m
        BY <4>1, <4>2, StepsUpTo
      <4> QED
        BY <4>3 DEF m
    <3> QED
      BY <1>0, <3>1, <3>2, <3>3, SagaAssumption
  <2> DEFINE log == Append(saga.done, n + 1)
             finished == Patch(saga.items, n + 1, "done")
  <2>2. LogCounts(log) /\ Len(log) = n + 1
    BY <1>0, LogGrows
  <2>3. SagaLedger(finished) /\ \A i \in DOMAIN finished : finished[i].status # "cancelled"
    <3> DEFINE before == saga.items
               status == "done"
    <3>1. /\ SagaLedger(before) /\ status \in ItemStatus /\ n + 1 \in 1 .. SagaSteps
          /\ finished = Patch(before, n + 1, status) /\ DOMAIN before \subseteq Nat
          /\ status # "cancelled" /\ \A i \in DOMAIN before : before[i].status # "cancelled"
      BY <1>0, <2>1 DEF NoneCancelled, SagaLedger
    <3> HIDE DEF before, status, finished
    <3>2. /\ SagaLedger(finished) /\ DOMAIN finished = DOMAIN before
          /\ \A i \in DOMAIN before :
               finished[i].status = IF i = n + 1 THEN status ELSE before[i].status
      BY <3>1, PatchKeepsLedger
    <3> QED
      BY <3>1, <3>2
  <2>4. CASE n + 2 > SagaSteps
    <3>1. saga' = [saga EXCEPT !.phase = "committed", !.done = log, !.items = finished]
          /\ sagaCmd' = sagaCmd
      BY <1>0, <1>1, <2>1, <2>4 DEF StepOk
    <3> HIDE DEF log, finished
    <3>2. /\ saga'.phase = "committed" /\ saga'.done = log /\ saga'.items = finished
          /\ saga' \in [phase : {"committed"}, position : Nat, done : Seq(Nat), items : Seq(SagaItems)]
      BY <1>0, <2>2, <2>3, <3>1 DEF LogCounts, SagaLedger
    <3> QED
      BY <1>0, <2>1, <2>2, <2>3, <2>4, <3>1, <3>2 DEF SagaInv, LogCounts, SagaQuiet, NoneCancelled
  <2>5. CASE ~(n + 2 > SagaSteps)
    <3> DEFINE items == Patch(finished, n + 2, "running")
    <3>1. saga' = [saga EXCEPT !.position = n + 2, !.done = log, !.items = items]
          /\ sagaCmd' = Do(n + 2)
      BY <1>0, <1>1, <2>1, <2>5 DEF StepOk
    <3>2. n + 2 \in 1 .. SagaSteps
      BY <1>0, <2>1, <2>5
    <3> HIDE DEF finished
    <3>3. SagaLedger(items) /\ \A i \in DOMAIN items : items[i].status # "cancelled"
      <4> DEFINE before == finished
                 status == "running"
      <4>1. /\ SagaLedger(before) /\ status \in ItemStatus /\ n + 2 \in 1 .. SagaSteps
            /\ items = Patch(before, n + 2, status) /\ DOMAIN before \subseteq Nat
            /\ status # "cancelled" /\ \A i \in DOMAIN before : before[i].status # "cancelled"
        BY <1>0, <2>3, <3>2 DEF SagaLedger
      <4> HIDE DEF before, status, items
      <4>2. /\ SagaLedger(items) /\ DOMAIN items = DOMAIN before
            /\ \A i \in DOMAIN before :
                 items[i].status = IF i = n + 2 THEN status ELSE before[i].status
        BY <4>1, PatchKeepsLedger
      <4> QED
        BY <4>1, <4>2
    <3> HIDE DEF log, items
    <3>4. /\ saga'.phase = "running" /\ saga'.done = log /\ saga'.items = items
          /\ saga'.position = n + 2
          /\ saga' \in [phase : {"running"}, position : Nat, done : Seq(Nat), items : Seq(SagaItems)]
      <4>1. log \in Seq(Nat) /\ items \in Seq(SagaItems) /\ n + 2 \in Nat
        BY <1>0, <2>2, <3>3 DEF LogCounts, SagaLedger
      <4> QED
        BY <1>0, <1>1, <3>1, <4>1
    <3> QED
      BY <1>0, <2>1, <2>2, <3>1, <3>2, <3>3, <3>4 DEF SagaInv, LogCounts, DoesNow, NoneCancelled
  <2> QED
    BY <2>4, <2>5
<1>2. CASE sagaAnswer = "step_err" /\ saga.phase = "running" /\ StepErr
  <2>1. /\ SagaLedger(saga.items) /\ NoneCancelled /\ saga.position = n + 1
        /\ n + 1 \in 1 .. SagaSteps /\ sagaWorld = 1 .. n /\ sagaCmd = NoCmd
        /\ SagaSteps \in Nat
    <3>1. /\ SagaLedger(saga.items) /\ NoneCancelled /\ saga.position = n + 1
          /\ n + 1 <= SagaSteps /\ sagaWorld \ {n + 1} = 1 .. n /\ DoesNow(n + 1)
      BY <1>2 DEF SagaInv
    <3>2. n + 1 \notin sagaWorld /\ sagaCmd = NoCmd
      BY <1>2, <3>1 DEF DoesNow
    <3>3. sagaWorld = 1 .. n
      <4>1. sagaWorld \ {n + 1} = sagaWorld
        BY <3>2
      <4> QED
        BY <3>1, <4>1
    <3> QED
      BY <1>0, <3>1, <3>2, <3>3, SagaAssumption
  <2> DEFINE items == Patch(saga.items, n + 1, "failed")
  <2>2. SagaLedger(items) /\ \A i \in DOMAIN items : items[i].status # "cancelled"
    <3> DEFINE before == saga.items
               status == "failed"
    <3>1. /\ SagaLedger(before) /\ status \in ItemStatus /\ n + 1 \in 1 .. SagaSteps
          /\ items = Patch(before, n + 1, status) /\ DOMAIN before \subseteq Nat
          /\ status # "cancelled" /\ \A i \in DOMAIN before : before[i].status # "cancelled"
      BY <1>0, <2>1 DEF NoneCancelled, SagaLedger
    <3> HIDE DEF before, status, items
    <3>2. /\ SagaLedger(items) /\ DOMAIN items = DOMAIN before
          /\ \A i \in DOMAIN before :
               items[i].status = IF i = n + 1 THEN status ELSE before[i].status
      BY <3>1, PatchKeepsLedger
    <3> QED
      BY <3>1, <3>2
  <2>3. CASE saga.done = <<>>
    <3>1. saga' = [saga EXCEPT !.phase = "aborted", !.items = items] /\ sagaCmd' = sagaCmd
      BY <1>0, <1>2, <2>1, <2>3 DEF StepErr
    <3> HIDE DEF items
    <3>2. /\ saga'.phase = "aborted" /\ saga'.done = saga.done
          /\ saga' \in [phase : {"aborted"}, position : Nat, done : Seq(Nat), items : Seq(SagaItems)]
      BY <1>0, <2>2, <3>1 DEF SagaLedger
    <3>3. n = 0
      BY <2>3
    <3> QED
      BY <1>0, <2>1, <3>1, <3>2, <3>3 DEF SagaInv, LogCounts, SagaQuiet
  <2>4. CASE saga.done # <<>>
    <3>1. n \in Nat \ {0} /\ Undone(saga.done) = n
      BY <1>0, <2>4, LogShrinks DEF Undone
    <3>2. saga' = [saga EXCEPT !.phase = "compensating", !.position = n, !.items = items]
          /\ sagaCmd' = Undo(n)
      BY <1>0, <1>2, <2>1, <2>4, <3>1 DEF StepErr
    <3> HIDE DEF items
    <3>3. /\ saga'.phase = "compensating" /\ saga'.done = saga.done /\ saga'.items = items
          /\ saga'.position = n
          /\ saga' \in [phase : {"compensating"}, position : Nat, done : Seq(Nat), items : Seq(SagaItems)]
      BY <1>0, <2>2, <3>2 DEF SagaLedger
    <3> QED
      BY <1>0, <2>1, <2>2, <3>1, <3>2, <3>3 DEF SagaInv, LogCounts, UndoesNow, CancelledAbove
  <2> QED
    BY <2>3, <2>4
<1>3. CASE sagaAnswer = "undo_ok" /\ saga.phase = "compensating" /\ UndoOk
  <2>1. /\ SagaLedger(saga.items) /\ CancelledAbove(n) /\ n \in 1 .. SagaSteps
        /\ sagaWorld = 1 .. n - 1 /\ sagaCmd = NoCmd /\ saga.done # <<>>
        /\ SagaSteps \in Nat
    <3>1. /\ SagaLedger(saga.items) /\ CancelledAbove(n) /\ n > 0 /\ n <= SagaSteps
          /\ sagaWorld \ {n} = 1 .. n - 1 /\ UndoesNow(n)
      BY <1>3 DEF SagaInv
    <3>2. n \notin sagaWorld /\ sagaCmd = NoCmd
      BY <1>3, <3>1 DEF UndoesNow
    <3>3. sagaWorld = 1 .. n - 1
      <4>1. sagaWorld \ {n} = sagaWorld
        BY <3>2
      <4> QED
        BY <3>1, <4>1
    <3>4. saga.done # <<>>
      BY <1>0, <3>1
    <3> QED
      BY <1>0, <3>1, <3>2, <3>3, <3>4, SagaAssumption
  <2>2. /\ Last(saga.done) = n /\ LogCounts(Front(saga.done)) /\ Len(Front(saga.done)) = n - 1
        /\ Front(saga.done) = <<>> <=> n = 1
    BY <1>0, <2>1, LogShrinks
  <2> DEFINE items == Patch(saga.items, n, "cancelled")
             rest == Front(saga.done)
  <2>3. SagaLedger(items) /\ \A i \in DOMAIN items : items[i].status = "cancelled" => i > n - 1
    <3> DEFINE before == saga.items
               status == "cancelled"
    <3>1. /\ SagaLedger(before) /\ status \in ItemStatus /\ n \in 1 .. SagaSteps
          /\ items = Patch(before, n, status) /\ DOMAIN before \subseteq Nat
          /\ \A i \in DOMAIN before : before[i].status = "cancelled" => i > n
      BY <1>0, <2>1 DEF CancelledAbove, SagaLedger
    <3> HIDE DEF before, status, items
    <3>2. /\ SagaLedger(items) /\ DOMAIN items = DOMAIN before
          /\ \A i \in DOMAIN before :
               items[i].status = IF i = n THEN status ELSE before[i].status
      BY <3>1, PatchKeepsLedger
    <3> QED
      BY <1>0, <3>1, <3>2
  <2>4. CASE n = 1
    <3>1. saga' = [saga EXCEPT !.done = rest, !.items = items, !.phase = "aborted"]
          /\ sagaCmd' = sagaCmd
      BY <1>0, <1>3, <2>2, <2>4 DEF UndoOk
    <3> HIDE DEF items, rest
    <3>2. /\ saga'.phase = "aborted" /\ saga'.done = rest
          /\ saga' \in [phase : {"aborted"}, position : Nat, done : Seq(Nat), items : Seq(SagaItems)]
      BY <1>0, <2>2, <2>3, <3>1 DEF SagaLedger, LogCounts, rest
    <3> QED
      BY <1>0, <2>1, <2>2, <2>4, <3>1, <3>2 DEF SagaInv, LogCounts, SagaQuiet, rest
  <2>5. CASE n # 1
    <3>1. n - 1 \in Nat \ {0} /\ Undone(rest) = n - 1
      BY <1>0, <2>1, <2>2, <2>5, LogShrinks DEF Undone
    <3>2. saga' = [saga EXCEPT !.done = rest, !.items = items, !.position = n - 1]
          /\ sagaCmd' = Undo(n - 1)
      BY <1>0, <1>3, <2>2, <2>5, <3>1 DEF UndoOk
    <3> HIDE DEF items, rest
    <3>3. /\ saga'.phase = "compensating" /\ saga'.done = rest /\ saga'.items = items
          /\ saga'.position = n - 1
          /\ saga' \in [phase : {"compensating"}, position : Nat, done : Seq(Nat), items : Seq(SagaItems)]
      BY <1>0, <1>3, <2>2, <2>3, <3>1, <3>2 DEF SagaLedger, LogCounts, rest
    <3> QED
      BY <1>0, <2>1, <2>2, <2>3, <3>1, <3>2, <3>3
      DEF SagaInv, LogCounts, UndoesNow, CancelledAbove, rest
  <2> QED
    BY <2>4, <2>5
<1>4. CASE sagaAnswer = "undo_err" /\ saga.phase = "compensating" /\ UndoErr
  <2>1. /\ SagaLedger(saga.items) /\ CancelledAbove(n) /\ n \in 1 .. SagaSteps
        /\ saga.position = n /\ sagaWorld = 1 .. n /\ sagaCmd = NoCmd
    <3>1. /\ SagaLedger(saga.items) /\ CancelledAbove(n) /\ n > 0 /\ n <= SagaSteps
          /\ saga.position = n /\ sagaWorld \ {n} = 1 .. n - 1 /\ UndoesNow(n)
      BY <1>4 DEF SagaInv
    <3>2. n \in sagaWorld /\ sagaCmd = NoCmd
      BY <1>4, <3>1 DEF UndoesNow
    <3>3. sagaWorld = 1 .. n
      BY <1>0, <3>1, <3>2, StepsUpTo
    <3> QED
      BY <1>0, <3>1, <3>2, <3>3, SagaAssumption
  <2> DEFINE items == Patch(saga.items, n, "failed")
  <2>2. SagaLedger(items) /\ \A i \in DOMAIN items : items[i].status = "cancelled" => i > n
    <3> DEFINE before == saga.items
               status == "failed"
    <3>1. /\ SagaLedger(before) /\ status \in ItemStatus /\ n \in 1 .. SagaSteps
          /\ items = Patch(before, n, status) /\ DOMAIN before \subseteq Nat
          /\ status # "cancelled" /\ \A i \in DOMAIN before : before[i].status = "cancelled" => i > n
      BY <1>0, <2>1 DEF CancelledAbove, SagaLedger
    <3> HIDE DEF before, status, items
    <3>2. /\ SagaLedger(items) /\ DOMAIN items = DOMAIN before
          /\ \A i \in DOMAIN before :
               items[i].status = IF i = n THEN status ELSE before[i].status
      BY <3>1, PatchKeepsLedger
    <3> QED
      BY <1>0, <3>1, <3>2
  <2>3. saga' = [saga EXCEPT !.phase = "compensation_failed", !.items = items]
        /\ sagaCmd' = sagaCmd
    BY <1>0, <1>4, <2>1 DEF UndoErr
  <2> HIDE DEF items
  <2>4. /\ saga'.phase = "compensation_failed" /\ saga'.done = saga.done /\ saga'.items = items
        /\ saga' \in [phase : {"compensation_failed"}, position : Nat, done : Seq(Nat),
                      items : Seq(SagaItems)]
    BY <1>0, <2>2, <2>3 DEF SagaLedger
  <2> QED
    BY <1>0, <2>1, <2>2, <2>3, <2>4 DEF SagaInv, LogCounts, SagaQuiet, CancelledAbove
<1> QED
  BY <1>1, <1>2, <1>3, <1>4 DEF FoldAnswer

\* The world does, or undoes, what the Cmd says, or does not.
LEMMA SagaPerformKeeps == SagaInv /\ Perform => SagaInv'
<1> SUFFICES ASSUME SagaInv, Perform PROVE SagaInv'
  OBVIOUS
<1>1. saga' = saga /\ sagaCmd # NoCmd /\ sagaCmd' = NoCmd
  BY DEF Perform
<1>2. Len(saga.done) \in Nat
  BY DEF SagaInv
<1>3. CASE saga.phase = "running"
  <2>1. sagaCmd = Do(Len(saga.done) + 1)
    BY <1>1, <1>3 DEF SagaInv, DoesNow
  <2> QED
    BY <1>1, <1>2, <1>3, <2>1 DEF Perform, SagaInv, DoesNow, Do, Undo, NoneCancelled
<1>4. CASE saga.phase = "compensating"
  <2>1. sagaCmd = Undo(Len(saga.done))
    BY <1>1, <1>4 DEF SagaInv, UndoesNow
  <2> QED
    BY <1>1, <1>2, <1>4, <2>1 DEF Perform, SagaInv, UndoesNow, Do, Undo, CancelledAbove
<1> QED
  BY <1>1, <1>3, <1>4 DEF SagaInv, SagaQuiet

\* The process goes down with a Cmd in flight, and repeats it.
LEMMA SagaGoesDown == SagaInv /\ GoDown => SagaInv'
<1> SUFFICES ASSUME SagaInv, GoDown PROVE SagaInv'
  OBVIOUS
<1> USE DEF GoDown, SagaInv, Awaited
<1>1. CASE saga.phase = "running"
  BY <1>1 DEF DoesNow, NoneCancelled
<1>2. CASE saga.phase = "compensating"
  BY <1>2 DEF UndoesNow, CancelledAbove
<1>3. CASE saga.phase \notin {"running", "compensating"}
  BY <1>3 DEF SagaQuiet, NoneCancelled, CancelledAbove
<1> QED
  BY <1>1, <1>2, <1>3

\* A step of another part changes nothing of the saga.
LEMMA SagaRests == SagaInv /\ UNCHANGED sagaVars => SagaInv'
<1> SUFFICES ASSUME SagaInv, UNCHANGED sagaVars PROVE SagaInv'
  OBVIOUS
<1>1. /\ saga' = saga /\ sagaCmd' = sagaCmd /\ sagaAnswer' = sagaAnswer
      /\ sagaWorld' = sagaWorld /\ sagaCrashes' = sagaCrashes
  BY DEF sagaVars
<1>2. SagaQuiet' = SagaQuiet /\ NoneCancelled' = NoneCancelled
  BY <1>1 DEF SagaQuiet, NoneCancelled
<1>3. \A n : /\ DoesNow(n)' = DoesNow(n) /\ UndoesNow(n)' = UndoesNow(n)
            /\ CancelledAbove(n)' = CancelledAbove(n)
  BY <1>1 DEF DoesNow, UndoesNow, CancelledAbove
<1> QED
  BY <1>1, <1>2, <1>3 DEF SagaInv

\* The invariant of the saga.
THEOREM SagaInvariant == SagaSpec => []SagaInv
<1>1. SagaInit => SagaInv
  BY DEF SagaInit, SagaInv, SagaQuiet
<1>2. SagaInv /\ [SagaNext]_sagaVars => SagaInv'
  <2>1. SagaInv /\ SagaNext => SagaInv'
    BY SagaStartKeeps, SagaFoldKeeps, SagaPerformKeeps, SagaGoesDown DEF SagaNext
  <2> QED
    BY <2>1, SagaRests
<1> QED
  BY <1>1, <1>2, PTL DEF SagaSpec

\* A committed saga did every step, an aborted one left none, one whose undo
\* failed left exactly the steps below it, for any number of steps, of which
\* any may fail and any undo may fail, with any number of restarts.
THEOREM SagaStaysExact == SagaSpec => []SagaIsExact
<1>1. SagaInv => SagaIsExact
  <2> SUFFICES ASSUME SagaInv PROVE SagaIsExact
    OBVIOUS
  <2>1. saga.phase = "compensation_failed" => sagaWorld = ToSet(saga.done)
    <3>1. PICK d \in Seq(Nat) : d = saga.done
      BY DEF SagaInv
    <3>2. \A i \in DOMAIN d : d[i] = i
      BY <3>1 DEF SagaInv
    <3>3. ToSet(d) = 1 .. Len(d)
      BY <3>2 DEF ToSet
    <3>4. saga.phase = "compensation_failed" => sagaWorld = 1 .. Len(d)
      BY <3>1 DEF SagaInv
    <3> QED
      BY <3>1, <3>3, <3>4
  <2>2. ASSUME NEW i \in DOMAIN saga.items, saga.items[i].status = "cancelled"
        PROVE  saga.items[i].id \notin sagaWorld
    <3>0. i \in Nat /\ Len(saga.done) \in Nat
      BY DEF SagaInv
    <3>1. CASE saga.phase = "compensating"
      BY <2>2, <3>0, <3>1 DEF SagaInv, CancelledAbove, SagaLedger
    <3>2. CASE saga.phase = "compensation_failed"
      BY <2>2, <3>0, <3>2 DEF SagaInv, CancelledAbove, SagaLedger
    <3> QED
      BY <2>2, <3>1, <3>2 DEF SagaInv, NoneCancelled
  <2> QED
    BY <2>1, <2>2 DEF SagaInv, SagaIsExact
<1> QED
  BY <1>1, SagaInvariant, PTL

-----------------------------------------------------------------------------
(* The runs of apply.  What is stale and may not stay so is among the      *)
(* edits of the run under way (EditsCover), over crashes and commits by    *)
(* hand.                                                                   *)

\* A tree: the rows renamed in it, the references rewritten.
Trees == [renamed : SUBSET MoveRows, rewritten : SUBSET moveRefs]

\* The trees, and what a run knows of them.
TreesFit ==
  /\ moveRefs \in SUBSET (MoveRows \X {"importer", "own"})
  /\ moveHead \in Trees /\ moveTree \in Trees
  /\ moveTop \in [step : {"rename", "rewrite", "other"}, renamed : SUBSET MoveRows]
  /\ moveRun \in [at : {"idle", "rename", "rewrite"}, pending : SUBSET MoveRows,
                  edits : SUBSET moveRefs]
  /\ moveReturned \in BOOLEAN /\ moveMuddled \in BOOLEAN
  /\ moveHead.renamed \subseteq moveTree.renamed
  /\ moveHead.rewritten \subseteq moveTree.rewritten
  /\ \A ref \in moveTree.rewritten : ref[1] \in moveTree.renamed
  /\ \A ref \in moveHead.rewritten : ref[1] \in moveHead.renamed
  /\ moveTop.step = "rename" => moveHead.renamed = MoveRows
  /\ moveRun.at = "rename" =>
       /\ moveRun.pending = MoveRows \ moveHead.renamed
       /\ moveTree.rewritten = moveHead.rewritten
  /\ moveRun.at = "rewrite" => moveHead.renamed = MoveRows
  /\ moveReturned => moveRun.at = "idle" /\ CleanTree /\ moveHead.renamed = MoveRows

\* What is stale and must not stay so is among the edits of a run.
EditsCover ==
  /\ \A ref \in moveRefs : ref[2] = "importer" =>
       /\ moveRun.at # "idle" => ref \in moveTree.rewritten \union moveRun.edits
       /\ moveReturned => ref \in moveTree.rewritten
  /\ ~moveMuddled =>
       \A ref \in moveRefs :
         /\ moveRun.at # "idle" => ref \in moveTree.rewritten \union moveRun.edits
         /\ moveReturned => ref \in moveTree.rewritten
         /\ ref[1] \in moveHead.renamed /\ ref \notin moveHead.rewritten =>
              moveTop.step = "rename" /\ ref[1] \in moveTop.renamed

\* How many commits the runs made.
CommitsFit ==
  /\ moveMade \in [rename : {0, 1}, rewrite : Nat]
  /\ moveMade.rename = 1 => moveHead.renamed = MoveRows
  /\ ~moveMuddled =>
       /\ moveMade.rewrite \in {0, 1}
       /\ moveMade.rewrite = 1 =>
            moveHead.rewritten = moveRefs /\ moveHead.renamed = MoveRows

\* The invariant of the runs of apply.
MoveInv == TreesFit /\ EditsCover /\ CommitsFit

\* Every step keeps what is known of the trees.
LEMMA TreesStep ==
  ASSUME TreesFit, MoveNext
  PROVE  TreesFit'
<1> USE DEF TreesFit, Trees, CleanTree
<1>1. CASE BeginApply
  BY <1>1 DEF BeginApply, EditsFor, Stale, Dangling
<1>2. CASE CommitRenames
  BY <1>2 DEF CommitRenames, CommitsAs
<1>3. CASE CommitRewrite
  BY <1>3 DEF CommitRewrite, CommitsAs, NotMoving
<1>4. CASE CutShort
  BY <1>4 DEF CutShort, NotMoving
<1>5. CASE DiscardChanges
  BY <1>5 DEF DiscardChanges
<1>6. CASE CommitByHand
  BY <1>6 DEF CommitByHand, OtherCommit
<1>7. ASSUME NEW r \in MoveRows, RenameRow(r) PROVE TreesFit'
  BY <1>7 DEF RenameRow
<1>8. ASSUME NEW ref \in moveRefs, WriteEdit(ref) PROVE TreesFit'
  BY <1>8 DEF WriteEdit
<1> QED
  BY <1>1, <1>2, <1>3, <1>4, <1>5, <1>6, <1>7, <1>8 DEF MoveNext

\* Every step keeps the stale references among the edits.
LEMMA EditsStep ==
  ASSUME TreesFit, EditsCover, MoveNext
  PROVE  EditsCover'
<1> USE DEF TreesFit, EditsCover, CommitsFit, Trees, CleanTree
<1>1. CASE BeginApply
  BY <1>1 DEF BeginApply, EditsFor, RewriteOwed, RenamedAtHead, Stale, Dangling
<1>2. CASE CommitRenames
  BY <1>2 DEF CommitRenames, CommitsAs
<1>3. CASE CommitRewrite
  BY <1>3 DEF CommitRewrite, CommitsAs, NotMoving
<1>4. CASE CutShort
  BY <1>4 DEF CutShort, NotMoving
<1>5. CASE DiscardChanges
  BY <1>5 DEF DiscardChanges
<1>6. CASE CommitByHand
  BY <1>6 DEF CommitByHand, OtherCommit, Stale
<1>7. ASSUME NEW r \in MoveRows, RenameRow(r) PROVE EditsCover'
  BY <1>7 DEF RenameRow
<1>8. ASSUME NEW ref \in moveRefs, WriteEdit(ref) PROVE EditsCover'
  BY <1>8 DEF WriteEdit
<1> QED
  BY <1>1, <1>2, <1>3, <1>4, <1>5, <1>6, <1>7, <1>8 DEF MoveNext

\* Every step keeps the count of the commits.
LEMMA CommitsStep ==
  ASSUME TreesFit, EditsCover, CommitsFit, MoveNext
  PROVE  CommitsFit'
<1> USE DEF TreesFit, EditsCover, CommitsFit, Trees, CleanTree
<1>1. CASE BeginApply
  BY <1>1 DEF BeginApply, EditsFor, RewriteOwed, RenamedAtHead, Stale, Dangling
<1>2. CASE CommitRenames
  BY <1>2 DEF CommitRenames, CommitsAs
<1>3. CASE CommitRewrite
  <2>1. CASE CleanTree
    BY <1>3, <2>1 DEF CommitRewrite
  <2>2. CASE ~CleanTree
    <3>1. /\ moveHead' = moveTree /\ moveMuddled' = moveMuddled
          /\ moveMade' = [moveMade EXCEPT !.rewrite = @ + 1]
      BY <1>3, <2>2 DEF CommitRewrite, CommitsAs
    <3>2. moveHead.renamed = MoveRows /\ moveTree.renamed = MoveRows
      BY <1>3 DEF CommitRewrite
    <3>3. ~moveMuddled => moveTree.rewritten = moveRefs
      BY <1>3 DEF CommitRewrite
    <3>4. ~moveMuddled => moveMade.rewrite = 0
      BY <2>2, <3>2, <3>3
    <3> QED
      BY <1>3, <3>1, <3>2, <3>3, <3>4 DEF CommitRewrite
  <2> QED
    BY <2>1, <2>2
<1>4. CASE CutShort
  BY <1>4 DEF CutShort, NotMoving
<1>5. CASE DiscardChanges
  BY <1>5 DEF DiscardChanges
<1>6. CASE CommitByHand
  BY <1>6 DEF CommitByHand, OtherCommit, Stale
<1>7. ASSUME NEW r \in MoveRows, RenameRow(r) PROVE CommitsFit'
  BY <1>7 DEF RenameRow
<1>8. ASSUME NEW ref \in moveRefs, WriteEdit(ref) PROVE CommitsFit'
  BY <1>8 DEF WriteEdit
<1> QED
  BY <1>1, <1>2, <1>3, <1>4, <1>5, <1>6, <1>7, <1>8 DEF MoveNext

\* The invariant holds throughout.
THEOREM MoveInvariant == MoveSpec => []MoveInv
<1>1. MoveInit => MoveInv
  <2> SUFFICES ASSUME MoveInit PROVE MoveInv
    OBVIOUS
  <2> USE DEF MoveInit, NotMoving, OtherCommit, Trees
  <2>1. TreesFit
    BY DEF TreesFit
  <2>2. EditsCover
    BY DEF EditsCover
  <2>3. CommitsFit
    BY DEF CommitsFit
  <2> QED
    BY <2>1, <2>2, <2>3 DEF MoveInv
<1>2. MoveInv /\ [MoveNext]_moveVars => MoveInv'
  <2>1. MoveInv /\ MoveNext => MoveInv'
    BY TreesStep, EditsStep, CommitsStep DEF MoveInv
  <2> QED
    BY <2>1 DEF MoveInv, TreesFit, EditsCover, CommitsFit, Trees, CleanTree, moveVars
<1> QED
  BY <1>1, <1>2, PTL DEF MoveSpec

\* A run of apply that returned has renamed every row and rewritten what was
\* stale, in one commit of each kind, over any crashes, resets and commits by
\* hand before it, for any rows and references.
THEOREM MovesStayWhole == MoveSpec => []MovesAreWhole
<1>1. MoveInv => MovesAreWhole
  BY DEF MoveInv, TreesFit, EditsCover, CommitsFit, Trees, CleanTree, MovesAreWhole,
     Stale, Dangling
<1> QED
  BY <1>1, MoveInvariant, PTL

-----------------------------------------------------------------------------
(* The operations of the work queue.                                       *)

\* Items whose ids are of a set.
ItemsOf(X) == [id : X, status : ItemStatus]

\* A set of places that is not empty has a first one.
LEMMA FirstPlace ==
  ASSUME NEW n \in Nat, NEW T \in SUBSET (1 .. n), T # {}
  PROVE  Min(T) \in T /\ \A t \in T : Min(T) <= t
<1>1. T \subseteq Nat
  OBVIOUS
<1>2. \E x \in T : \A t \in T : x <= t
  BY <1>1, NatLeast
<1>3. Min(T) = CHOOSE x \in T : \A t \in T : x <= t
  BY DEF Min
<1> QED
  BY <1>2, <1>3

\* One place of a sequence gets another element.
LEMMA PlaceSet ==
  ASSUME NEW S, NEW seq \in Seq(S), NEW k \in 1 .. Len(seq), NEW e \in S
  PROVE  LET set == [seq EXCEPT ![k] = e]
         IN /\ set \in Seq(S) /\ Len(set) = Len(seq) /\ set[k] = e
            /\ \A i \in 1 .. Len(seq) : i # k => set[i] = seq[i]
<1>1. /\ [seq EXCEPT ![k] = e] \in Seq(S)
      /\ Len([seq EXCEPT ![k] = e]) = Len(seq)
  BY ExceptSeq
<1>2. DOMAIN seq = 1 .. Len(seq)
  OBVIOUS
<1> QED
  BY <1>1, <1>2

\* One item gets another status.
Restatus(queue, k, status) == [queue EXCEPT ![k].status = status]

\* The item at that place is the one with its new status; the others stay.
LEMMA ItemPatched ==
  ASSUME NEW X, NEW queue \in Seq(ItemsOf(X)), NEW k \in 1 .. Len(queue),
         NEW status \in ItemStatus,
         NEW patched, patched = Restatus(queue, k, status)
  PROVE  /\ patched \in Seq(ItemsOf(X)) /\ Len(patched) = Len(queue)
         /\ patched[k] = Item(queue[k].id, status)
         /\ \A i \in 1 .. Len(queue) : i # k => patched[i] = queue[i]
<1> DEFINE item == [queue[k] EXCEPT !.status = status]
<1>1. queue[k] \in ItemsOf(X) /\ Len(queue) \in Nat
  OBVIOUS
<1>2. item \in ItemsOf(X) /\ item = Item(queue[k].id, status)
  <2>1. item \in ItemsOf(X) /\ item.id = queue[k].id /\ item.status = status
    BY <1>1 DEF ItemsOf
  <2>2. \A r \in ItemsOf(X) : r = Item(r.id, r.status)
    BY DEF ItemsOf, Item
  <2> HIDE DEF item
  <2> QED
    BY <2>1, <2>2
<1>3. patched = [queue EXCEPT ![k] = item]
  BY DEF Restatus
<1> HIDE DEF item
<1> QED
  BY <1>1, <1>2, <1>3, PlaceSet

\* patch: the first item of an id gets a status, if there is one.
LEMMA PatchesFirst ==
  ASSUME NEW X, NEW queue \in Seq(ItemsOf(X)), NEW id, NEW status \in ItemStatus,
         NEW patched, patched = Patch(queue, id, status)
  PROVE  \/ patched = queue /\ \A i \in 1 .. Len(queue) : queue[i].id # id
         \/ \E k \in 1 .. Len(queue) :
              /\ queue[k].id = id
              /\ patched = Restatus(queue, k, status)
<1> DEFINE at == {i \in 1 .. Len(queue) : queue[i].id = id}
<1>1. Patch(queue, id, status)
        = IF (IF at # {} THEN Min(at) ELSE 0) = 0 THEN queue
          ELSE [queue EXCEPT ![IF at # {} THEN Min(at) ELSE 0].status = status]
  BY DEF Patch, SelectInSeq
<1>2. Len(queue) \in Nat /\ at \in SUBSET (1 .. Len(queue))
  OBVIOUS
<1>3. \A i \in 1 .. Len(queue) : i \in at <=> queue[i].id = id
  OBVIOUS
<1> HIDE DEF at
<1>4. CASE at = {}
  BY <1>1, <1>3, <1>4
<1>5. CASE at # {}
  <2>1. Min(at) \in at
    BY <1>2, <1>5, FirstPlace
  <2>2. Min(at) \in 1 .. Len(queue) /\ Min(at) # 0
    <3>1. PICK k \in 1 .. Len(queue) : k = Min(at)
      BY <1>2, <2>1
    <3> QED
      BY <3>1
  <2>3. patched = [queue EXCEPT ![Min(at)].status = status]
    BY <1>1, <1>5, <2>2
  <2>4. PICK k \in 1 .. Len(queue) : k = Min(at)
    BY <2>2
  <2>5. queue[k].id = id /\ patched = Restatus(queue, k, status)
    BY <1>3, <2>1, <2>3, <2>4 DEF Restatus
  <2> QED
    BY <2>5
<1> QED
  BY <1>4, <1>5

\* claimNext: an item that pended runs, if there is one.
LEMMA ClaimsOne ==
  ASSUME NEW X, NEW queue \in Seq(ItemsOf(X))
  PROVE  \/ /\ Claimable(queue) = 0 /\ Claim(queue) = queue
            /\ \A i \in 1 .. Len(queue) : queue[i].status # "pending"
         \/ \E k \in 1 .. Len(queue) :
              /\ Claimable(queue) = k /\ queue[k].status = "pending"
              /\ Claim(queue) = Restatus(queue, k, "running")
<1> DEFINE at == {i \in 1 .. Len(queue) : queue[i].status = "pending"}
<1>1. Claimable(queue) = IF at # {} THEN Min(at) ELSE 0
  BY DEF Claimable, SelectInSeq
<1>2. Len(queue) \in Nat /\ at \in SUBSET (1 .. Len(queue))
  OBVIOUS
<1>3. \A i \in 1 .. Len(queue) : i \in at <=> queue[i].status = "pending"
  OBVIOUS
<1> HIDE DEF at
<1>4. CASE at = {}
  BY <1>1, <1>3, <1>4 DEF Claim
<1>5. CASE at # {}
  <2>1. Min(at) \in at
    BY <1>2, <1>5, FirstPlace
  <2>2. Min(at) \in 1 .. Len(queue) /\ Min(at) # 0
    <3>1. PICK k \in 1 .. Len(queue) : k = Min(at)
      BY <1>2, <2>1
    <3> QED
      BY <3>1
  <2>3. Claimable(queue) = Min(at)
    BY <1>1, <1>5
  <2>4. Claim(queue) = [queue EXCEPT ![Min(at)].status = "running"]
    BY <2>2, <2>3 DEF Claim
  <2>5. PICK k \in 1 .. Len(queue) : k = Min(at)
    BY <2>2
  <2>6. /\ Claimable(queue) = k /\ queue[k].status = "pending"
        /\ Claim(queue) = Restatus(queue, k, "running")
    BY <1>3, <2>1, <2>3, <2>4, <2>5 DEF Restatus
  <2> QED
    BY <2>6
<1> QED
  BY <1>4, <1>5

\* The ids in a queue; each of them once.
Ids(queue) == {queue[i].id : i \in 1 .. Len(queue)}
\* No two items share an id.
OneEach(queue) ==
  \A i, j \in 1 .. Len(queue) : queue[i].id = queue[j].id => i = j

\* done, remove: the items of one id leave, the others stay as they are.
LEMMA OthersStay ==
  ASSUME NEW X, NEW queue \in Seq(ItemsOf(X)), NEW id,
         NEW kept, kept = MarkDone(queue, id)
  PROVE  /\ kept \in Seq(ItemsOf(X)) /\ Ids(kept) = Ids(queue) \ {id}
         /\ OneEach(queue) => OneEach(kept)
         /\ \A i \in 1 .. Len(kept) : \E k \in 1 .. Len(queue) :
              kept[i] = queue[k] /\ queue[k].id # id
         /\ \A k \in 1 .. Len(queue) : queue[k].id # id =>
              \E i \in 1 .. Len(kept) : kept[i] = queue[k]
<1> DEFINE S == {item \in ToSet(queue) : item.id # id}
<1>1. kept = Kept(queue, S)
  BY DEF MarkDone
<1>2. \A k \in 1 .. Len(queue) : queue[k] \in S <=> queue[k].id # id
  BY DEF ToSet
<1> HIDE DEF S
<1>3. kept \in Seq(ItemsOf(X)) /\ \E h : Picks(h, kept, queue, Len(queue), S)
  BY <1>1, KeptPicks
<1>4. PICK h : Picks(h, kept, queue, Len(queue), S)
  BY <1>3
<1>5. /\ \A i \in 1 .. Len(kept) :
           h[i] \in 1 .. Len(queue) /\ kept[i] = queue[h[i]] /\ queue[h[i]].id # id
      /\ \A i, j \in 1 .. Len(kept) : i < j => h[i] < h[j]
      /\ \A k \in 1 .. Len(queue) : queue[k].id # id =>
           \E i \in 1 .. Len(kept) : h[i] = k
  BY <1>2, <1>4 DEF Picks
<1>6. Ids(kept) = Ids(queue) \ {id}
  <2>1. ASSUME NEW x \in Ids(kept) PROVE x \in Ids(queue) \ {id}
    BY <1>5 DEF Ids
  <2>2. ASSUME NEW x \in Ids(queue) \ {id} PROVE x \in Ids(kept)
    <3>1. PICK k \in 1 .. Len(queue) : queue[k].id = x
      BY DEF Ids
    <3>2. PICK i \in 1 .. Len(kept) : h[i] = k
      BY <1>5, <3>1
    <3>3. kept[i].id = x
      BY <1>5, <3>1, <3>2
    <3> QED
      BY <3>3 DEF Ids
  <2> QED
    BY <2>1, <2>2
<1>7. ASSUME OneEach(queue) PROVE OneEach(kept)
  <2> SUFFICES ASSUME NEW i \in 1 .. Len(kept), NEW j \in 1 .. Len(kept),
                      kept[i].id = kept[j].id, i # j
               PROVE  FALSE
    BY DEF OneEach
  <2>1. h[i] = h[j]
    BY <1>5, <1>7 DEF OneEach
  <2>2. h[i] \in Nat
    BY <1>5
  <2>3. i < j \/ j < i
    OBVIOUS
  <2>4. h[i] < h[j] \/ h[j] < h[i]
    BY <1>5, <2>3
  <2> QED
    BY <2>1, <2>2, <2>4
<1>8. \A k \in 1 .. Len(queue) : queue[k].id # id =>
        \E i \in 1 .. Len(kept) : kept[i] = queue[k]
  <2> TAKE k \in 1 .. Len(queue)
  <2> HAVE queue[k].id # id
  <2>1. PICK i \in 1 .. Len(kept) : h[i] = k
    BY <1>5
  <2> QED
    BY <1>5, <2>1
<1> QED
  BY <1>3, <1>5, <1>6, <1>7, <1>8

-----------------------------------------------------------------------------
(* The work queue.  Every queue loaded or stored holds the items that are  *)
(* sure, and shows the held ones running (Holds): what is sure or held     *)
(* grows only by an operation that is alone, so in no queue loaded before. *)

\* The items of the queue.
WorkItems == ItemsOf(Nat)
\* The operations, and none.
Kinds == OnItem \union {"none", "enqueue", "claimNext", "resetRunningToPending"}

\* A queue of items with an id each, all handed out.
Queues == {q \in Seq(WorkItems) : OneEach(q)}
\* The sure ids are in it, and the held ones of it run.
QueueHolds(q, sure, held) ==
  /\ sure \subseteq Ids(q)
  /\ \A i \in 1 .. Len(q) : q[i].id \in held => q[i].status = "running"

\* An operation that is open, and what it has loaded.
OpFits(op, ids, sure, held) ==
  /\ op.loaded \in Queues /\ Ids(op.loaded) \subseteq 1 .. ids
  /\ QueueHolds(op.loaded, sure, held)
  /\ op.kind = "enqueue" => op.id \in 1 .. ids /\ op.id \notin Ids(op.loaded) \union held

\* What was loaded is as good as what is stored, while one is alone.
QueueInv ==
  /\ queueIds \in 0 .. QueueMaxIds
  /\ queueSure \subseteq 1 .. queueIds /\ queueHeld \subseteq 1 .. queueIds
  /\ stored \in Queues /\ Ids(stored) \subseteq 1 .. queueIds
  /\ QueueHolds(stored, queueSure, queueHeld)
  /\ queueOp \in [QueueClients -> [kind : Kinds, id : Nat, loaded : Seq(WorkItems)]]
  /\ \A c \in Open : OpFits(queueOp[c], queueIds, queueSure, queueHeld)
  /\ \A c \in Open : c \notin queueMixed => Open = {c}

\* Fewer sure or held, more ids: nothing asked before is lost.
LEMMA HoldsLess ==
  ASSUME NEW q, NEW sure, NEW held, NEW sure2, NEW held2, QueueHolds(q, sure, held),
         sure2 \subseteq sure, held2 \subseteq held
  PROVE  QueueHolds(q, sure2, held2)
BY DEF QueueHolds

\* An open operation outlives what others hand out or give up.
LEMMA FitsMore ==
  ASSUME NEW op, NEW ids \in Nat, NEW ids2 \in Nat, ids <= ids2,
         NEW sure, NEW held, NEW sure2, NEW held2, OpFits(op, ids, sure, held),
         sure2 \subseteq sure, held2 \subseteq held
  PROVE  OpFits(op, ids2, sure2, held2)
<1>1. 1 .. ids \subseteq 1 .. ids2
  OBVIOUS
<1> QED
  BY <1>1, HoldsLess DEF OpFits

\* The same items, some in another status.
LEMMA SameItems ==
  ASSUME NEW q \in Queues, NEW p \in Seq(WorkItems), Len(p) = Len(q),
         \A i \in 1 .. Len(q) : p[i].id = q[i].id,
         NEW sure, NEW held, QueueHolds(q, sure, held), NEW held2,
         \A i \in 1 .. Len(q) : p[i].id \in held2 => p[i].status = "running"
  PROVE  p \in Queues /\ Ids(p) = Ids(q) /\ QueueHolds(p, sure, held2)
<1>1. Ids(p) = Ids(q)
  BY DEF Ids
<1>2. OneEach(p)
  BY DEF OneEach, Queues
<1> QED
  BY <1>1, <1>2 DEF Queues, QueueHolds

\* enqueue: the item is in the queue, pending.
LEMMA EnqueueAdds ==
  ASSUME NEW q \in Queues, NEW id \in Nat, id \notin Ids(q),
         NEW sure, NEW held, QueueHolds(q, sure, held), id \notin held,
         NEW p, p = Enqueue(q, id)
  PROVE  /\ p \in Queues /\ Ids(p) = Ids(q) \union {id}
         /\ QueueHolds(p, sure \union {id}, held) /\ p # q
<1> DEFINE item == Item(id, "pending")
<1>1. item \in WorkItems /\ item.id = id
  BY DEF Item, WorkItems, ItemsOf, ItemStatus
<1>2. p = Append(q, item)
  BY DEF Enqueue
<1> HIDE DEF item
<1>3. q \in Seq(WorkItems) /\ OneEach(q)
  BY DEF Queues
<1>4. PICK n \in Nat : n = Len(q)
  BY <1>3
<1>5. /\ p \in Seq(WorkItems) /\ Len(p) = n + 1 /\ p[n + 1] = item
      /\ \A i \in 1 .. n : p[i] = q[i]
  BY <1>1, <1>2, <1>3, <1>4
<1>6. \A i \in 1 .. n + 1 : i = n + 1 \/ i \in 1 .. n
  OBVIOUS
<1>7. n + 1 \in 1 .. n + 1 /\ \A i \in 1 .. n : i \in 1 .. n + 1
  OBVIOUS
<1>8. Ids(p) = Ids(q) \union {id}
  BY <1>1, <1>4, <1>5, <1>6, <1>7 DEF Ids
<1>9. OneEach(p)
  <2> SUFFICES ASSUME NEW i \in 1 .. n + 1, NEW j \in 1 .. n + 1, p[i].id = p[j].id
               PROVE  i = j
    BY <1>5 DEF OneEach
  <2>1. \A k \in 1 .. n : p[k].id \in Ids(q) /\ p[k].id # id
    BY <1>4, <1>5 DEF Ids
  <2>2. CASE i \in 1 .. n /\ j \in 1 .. n
    BY <1>3, <1>4, <1>5, <2>2 DEF OneEach
  <2>3. CASE i = n + 1 \/ j = n + 1
    BY <1>1, <1>5, <1>6, <2>1, <2>3
  <2> QED
    BY <1>6, <2>2, <2>3
<1>10. \A i \in 1 .. Len(p) : p[i].id \in held => p[i].status = "running"
  BY <1>1, <1>4, <1>5, <1>6 DEF QueueHolds
<1>11. sure \union {id} \subseteq Ids(p)
  BY <1>8 DEF QueueHolds
<1>12. p # q
  BY <1>4, <1>5
<1> QED
  BY <1>5, <1>8, <1>9, <1>10, <1>11, <1>12 DEF Queues, QueueHolds

\* claimNext: the item handed out runs.
LEMMA ClaimRuns ==
  ASSUME NEW q \in Queues, NEW sure, NEW held, QueueHolds(q, sure, held),
         NEW p, p = Claim(q),
         NEW got, got = IF Claimable(q) # 0 THEN {q[Claimable(q)].id} ELSE {}
  PROVE  /\ p \in Queues /\ Ids(p) = Ids(q) /\ QueueHolds(p, sure, held \union got)
         /\ got \subseteq Ids(q) /\ (p = q => got = {})
<1>1. q \in Seq(WorkItems) /\ OneEach(q) /\ Len(q) \in Nat
  BY DEF Queues
<1>2. CASE Claimable(q) = 0 /\ p = q
  BY <1>1, <1>2
<1>3. ASSUME NEW k \in 1 .. Len(q), Claimable(q) = k, q[k].status = "pending",
             p = Restatus(q, k, "running")
      PROVE  /\ p \in Queues /\ Ids(p) = Ids(q) /\ QueueHolds(p, sure, held \union got)
             /\ got \subseteq Ids(q) /\ (p = q => got = {})
  <2>1. "running" \in ItemStatus
    BY DEF ItemStatus
  <2>2. /\ p \in Seq(WorkItems) /\ Len(p) = Len(q)
        /\ p[k] = Item(q[k].id, "running")
        /\ \A i \in 1 .. Len(q) : i # k => p[i] = q[i]
    BY <1>1, <1>3, <2>1, ItemPatched DEF WorkItems
  <2>3. p[k].id = q[k].id /\ p[k].status = "running"
    BY <2>2 DEF Item
  <2>4. got = {q[k].id}
    BY <1>3
  <2>5. \A i \in 1 .. Len(q) : p[i].id = q[i].id
    BY <2>2, <2>3
  <2>6. ASSUME NEW i \in 1 .. Len(q), p[i].id \in held \union got
        PROVE  p[i].status = "running"
    <3>1. CASE i = k
      BY <2>3, <3>1
    <3>2. CASE i # k
      <4>1. p[i] = q[i] /\ q[i].id # q[k].id
        BY <1>1, <2>2, <3>2 DEF OneEach
      <4> QED
        BY <2>4, <2>6, <4>1 DEF QueueHolds
    <3> QED
      BY <3>1, <3>2
  <2>7. p # q
    BY <1>3, <2>3
  <2>8. got \subseteq Ids(q)
    BY <2>4 DEF Ids
  <2> QED
    BY <2>2, <2>5, <2>6, <2>7, <2>8, SameItems
<1> QED
  BY <1>1, <1>2, <1>3, ClaimsOne DEF WorkItems

\* A status patch: one item is no longer held.
LEMMA PatchSets ==
  ASSUME NEW q \in Queues, NEW sure, NEW held, QueueHolds(q, sure, held), NEW id,
         NEW status \in ItemStatus, NEW p, p = Patch(q, id, status)
  PROVE  p \in Queues /\ Ids(p) = Ids(q) /\ QueueHolds(p, sure, held \ {id})
<1>1. q \in Seq(WorkItems)
  BY DEF Queues
<1>2. CASE p = q
  BY <1>2, HoldsLess
<1>3. ASSUME NEW k \in 1 .. Len(q), q[k].id = id,
             p = Restatus(q, k, status)
      PROVE  p \in Queues /\ Ids(p) = Ids(q) /\ QueueHolds(p, sure, held \ {id})
  <2>1. /\ p \in Seq(WorkItems) /\ Len(p) = Len(q)
        /\ p[k] = Item(q[k].id, status)
        /\ \A i \in 1 .. Len(q) : i # k => p[i] = q[i]
    BY <1>1, <1>3, ItemPatched DEF WorkItems
  <2>2. p[k].id = id
    BY <1>3, <2>1 DEF Item
  <2>3. \A i \in 1 .. Len(q) : p[i].id = q[i].id
    BY <1>3, <2>1, <2>2
  <2>4. \A i \in 1 .. Len(q) : p[i].id \in held \ {id} => p[i].status = "running"
    BY <2>1, <2>2 DEF QueueHolds
  <2> QED
    BY <2>1, <2>3, <2>4, SameItems
<1>4. \/ p = q
      \/ \E k \in 1 .. Len(q) : q[k].id = id /\ p = Restatus(q, k, status)
  <2>1. q \in Seq(ItemsOf(Nat))
    BY <1>1 DEF WorkItems
  <2> QED
    BY <2>1, PatchesFirst
<1> QED
  BY <1>2, <1>3, <1>4

\* resetRunningToPending: none is held.
LEMMA ResetFrees ==
  ASSUME NEW q \in Queues, NEW sure, NEW held, QueueHolds(q, sure, held),
         NEW p, p = ResetRunning(q)
  PROVE  p \in Queues /\ Ids(p) = Ids(q) /\ QueueHolds(p, sure, {})
<1>1. q \in Seq(WorkItems) /\ Len(q) \in Nat /\ DOMAIN q = 1 .. Len(q)
      /\ \A i \in 1 .. Len(q) : q[i] \in WorkItems
  BY DEF Queues
<1> DEFINE new(i) == IF q[i].status = "running" THEN Item(q[i].id, "pending") ELSE q[i]
<1>2. \A i \in 1 .. Len(q) : new(i) \in WorkItems /\ new(i).id = q[i].id
  <2>1. \A n \in Nat : Item(n, "pending") \in WorkItems /\ Item(n, "pending").id = n
    BY DEF WorkItems, ItemsOf, Item, ItemStatus
  <2>2. \A i \in 1 .. Len(q) : q[i].id \in Nat
    BY <1>1 DEF WorkItems, ItemsOf
  <2> QED
    BY <1>1, <2>1, <2>2
<1>3. p = [i \in 1 .. Len(q) |-> new(i)]
  BY <1>1 DEF ResetRunning
<1> HIDE DEF new
<1>4. p \in [1 .. Len(q) -> WorkItems] /\ \A i \in 1 .. Len(q) : p[i].id = q[i].id
  BY <1>2, <1>3
<1>5. p \in Seq(WorkItems) /\ Len(p) = Len(q)
  BY <1>1, <1>4
<1> QED
  BY <1>4, <1>5, SameItems

\* markDone, removeItem: one item leaves.
LEMMA RemoveTakes ==
  ASSUME NEW q \in Queues, NEW sure, NEW held, QueueHolds(q, sure, held), NEW id,
         NEW p, p = MarkDone(q, id)
  PROVE  p \in Queues /\ Ids(p) \subseteq Ids(q) /\ QueueHolds(p, sure \ {id}, held)
<1>1. q \in Seq(WorkItems) /\ OneEach(q)
  BY DEF Queues
<1>2. /\ p \in Seq(WorkItems) /\ Ids(p) = Ids(q) \ {id} /\ OneEach(p)
      /\ \A i \in 1 .. Len(p) : \E k \in 1 .. Len(q) : p[i] = q[k]
  BY <1>1, OthersStay DEF WorkItems
<1> QED
  BY <1>2 DEF Queues, QueueHolds

\* What is sure, and what is held, once an operation that was alone is through.
SureAfter(op, sure) ==
  (sure \union IF op.kind = "enqueue" THEN {op.id} ELSE {})
    \ (IF op.kind \in {"markDone", "removeItem"} THEN {op.id} ELSE {})
\* What is held once it is through.
HeldAfter(op, held) == (held \union Claimed(op)) \ Ends(op)

\* Each operation leaves what it promises.
LEMMA AppliedHolds ==
  ASSUME NEW ids \in 0 .. QueueMaxIds, NEW sure, NEW held, held \subseteq 1 .. ids,
         NEW op \in [kind : Kinds, id : Nat, loaded : Seq(WorkItems)],
         op.kind # "none", OpFits(op, ids, sure, held)
  PROVE  /\ Applied(op) \in Queues /\ Ids(Applied(op)) \subseteq 1 .. ids
         /\ QueueHolds(Applied(op), SureAfter(op, sure), HeldAfter(op, held))
         /\ ~Saves(op) => SureAfter(op, sure) \subseteq sure
                        /\ HeldAfter(op, held) \subseteq held
         /\ HeldAfter(op, held) \subseteq 1 .. ids
<1> DEFINE q == op.loaded
<1>1. /\ q \in Queues /\ Ids(q) \subseteq 1 .. ids /\ QueueHolds(q, sure, held)
      /\ op.kind = "enqueue" => op.id \in 1 .. ids /\ op.id \notin Ids(q) \union held
      /\ op.id \in Nat
  BY DEF OpFits
<1>2. CASE op.kind = "enqueue"
  <2>1. /\ Applied(op) = Enqueue(q, op.id) /\ Ends(op) = {} /\ Claimed(op) = {}
        /\ Saves(op) <=> Applied(op) # q
    BY <1>2 DEF Applied, Ends, Claimed, Saves, OnItem, Status
  <2>2. SureAfter(op, sure) = sure \union {op.id} /\ HeldAfter(op, held) = held
    BY <1>2, <2>1 DEF SureAfter, HeldAfter
  <2> HIDE DEF q
  <2> QED
    <3>1. op.id \notin Ids(q) /\ op.id \notin held
      BY <1>1, <1>2
    <3>2. /\ Applied(op) \in Queues /\ Ids(Applied(op)) = Ids(q) \union {op.id}
          /\ QueueHolds(Applied(op), sure \union {op.id}, held) /\ Applied(op) # q
      BY <1>1, <2>1, <3>1, EnqueueAdds
    <3> QED
      BY <1>1, <1>2, <2>1, <2>2, <3>2
<1>3. CASE op.kind = "claimNext"
  <2>1. /\ Applied(op) = Claim(q) /\ Ends(op) = {}
        /\ Claimed(op) = IF Claimable(q) # 0 THEN {q[Claimable(q)].id} ELSE {}
        /\ Saves(op) <=> Applied(op) # q
    BY <1>3 DEF Applied, Ends, Claimed, Saves, OnItem, Status
  <2>2. SureAfter(op, sure) = sure /\ HeldAfter(op, held) = held \union Claimed(op)
    BY <1>3, <2>1 DEF SureAfter, HeldAfter
  <2> HIDE DEF q
  <2> QED
    <3>1. /\ Applied(op) \in Queues /\ Ids(Applied(op)) = Ids(q)
          /\ QueueHolds(Applied(op), sure, held \union Claimed(op))
          /\ Claimed(op) \subseteq Ids(q) /\ (Applied(op) = q => Claimed(op) = {})
      BY <1>1, <2>1, ClaimRuns
    <3> QED
      BY <1>1, <2>1, <2>2, <3>1
<1>4. CASE op.kind \in {"markDone", "removeItem"}
  <2>1. Applied(op) = MarkDone(q, op.id) /\ Claimed(op) = {}
    BY <1>4 DEF Applied, Claimed, Status
  <2>2. SureAfter(op, sure) = sure \ {op.id} /\ HeldAfter(op, held) \subseteq held
    BY <1>4, <2>1 DEF SureAfter, HeldAfter
  <2> HIDE DEF q
  <2> QED
    <3>1. /\ Applied(op) \in Queues /\ Ids(Applied(op)) \subseteq Ids(q)
          /\ QueueHolds(Applied(op), sure \ {op.id}, held)
      BY <1>1, <2>1, RemoveTakes
    <3> QED
      BY <1>1, <2>2, <3>1, HoldsLess
<1>5. ASSUME NEW status \in ItemStatus, Applied(op) = Patch(q, op.id, status),
             op.kind \in {"markFailed", "markCancelled", "retryItem"}
      PROVE  /\ Applied(op) \in Queues /\ Ids(Applied(op)) \subseteq 1 .. ids
             /\ QueueHolds(Applied(op), SureAfter(op, sure), HeldAfter(op, held))
             /\ ~Saves(op) => SureAfter(op, sure) \subseteq sure
                            /\ HeldAfter(op, held) \subseteq held
             /\ HeldAfter(op, held) \subseteq 1 .. ids
  <2>1. Ends(op) = {op.id} /\ Claimed(op) = {}
    BY <1>5 DEF Ends, Claimed, OnItem
  <2>2. SureAfter(op, sure) = sure /\ HeldAfter(op, held) = held \ {op.id}
    BY <1>5, <2>1 DEF SureAfter, HeldAfter
  <2> HIDE DEF q
  <2> QED
    <3>1. /\ Applied(op) \in Queues /\ Ids(Applied(op)) = Ids(q)
          /\ QueueHolds(Applied(op), sure, held \ {op.id})
      BY <1>1, <1>5, PatchSets
    <3> QED
      BY <1>1, <2>2, <3>1
<1>6. CASE op.kind = "resetRunningToPending"
  <2>1. Applied(op) = ResetRunning(q) /\ Ends(op) = QueueIds /\ Claimed(op) = {}
    BY <1>6 DEF Applied, Ends, Claimed, OnItem, Status
  <2>2. SureAfter(op, sure) = sure /\ HeldAfter(op, held) = {}
    BY <1>6, <2>1, QueueAssumption DEF SureAfter, HeldAfter, QueueIds
  <2> HIDE DEF q
  <2> QED
    <3>1. /\ Applied(op) \in Queues /\ Ids(Applied(op)) = Ids(q)
          /\ QueueHolds(Applied(op), sure, {})
      BY <1>1, <2>1, ResetFrees
    <3> QED
      BY <1>1, <2>2, <3>1
<1>7. CASE op.kind = "bindOutput"
  <2>1. Applied(op) = q /\ Claimed(op) = {}
    BY <1>7 DEF Applied, Claimed, Status
  <2>2. SureAfter(op, sure) = sure /\ HeldAfter(op, held) \subseteq held
    BY <1>7, <2>1 DEF SureAfter, HeldAfter
  <2> HIDE DEF q
  <2> QED
    BY <1>1, <2>1, <2>2, HoldsLess
<1>8. op.kind = "markFailed" => Applied(op) = Patch(q, op.id, "failed")
  BY DEF Applied, Status
<1>9. op.kind = "markCancelled" => Applied(op) = Patch(q, op.id, "cancelled")
  BY DEF Applied, Status
<1>10. op.kind = "retryItem" => Applied(op) = Patch(q, op.id, "pending")
  BY DEF Applied, Status
<1>11. {"failed", "cancelled", "pending"} \subseteq ItemStatus
  BY DEF ItemStatus
<1>12. op.kind \in Kinds \ {"none"}
  OBVIOUS
<1> HIDE DEF q
<1>13. CASE op.kind \in {"markFailed", "markCancelled", "retryItem"}
  BY <1>5, <1>8, <1>9, <1>10, <1>11, <1>13
<1> QED
  BY <1>2, <1>3, <1>4, <1>6, <1>7, <1>12, <1>13 DEF Kinds, OnItem

\* The invariant holds at the start.
LEMMA QueueStarts == QueueInit => QueueInv
<1> SUFFICES ASSUME QueueInit PROVE QueueInv
  OBVIOUS
<1>1. <<>> \in Queues /\ Ids(<<>>) = {} /\ QueueHolds(<<>>, {}, {})
  BY DEF Queues, Ids, QueueHolds, OneEach
<1>2. NoOp \in [kind : Kinds, id : Nat, loaded : Seq(WorkItems)] /\ NoOp.kind = "none"
  BY DEF NoOp, Op, Kinds
<1>3. Open = {}
  BY <1>2 DEF QueueInit, Open
<1>4. queueOp \in [QueueClients -> [kind : Kinds, id : Nat, loaded : Seq(WorkItems)]]
  BY <1>2 DEF QueueInit
<1>5. queueIds \in 0 .. QueueMaxIds
  BY QueueAssumption DEF QueueInit
<1>6. /\ queueSure \subseteq 1 .. queueIds /\ queueHeld \subseteq 1 .. queueIds
      /\ stored \in Queues /\ Ids(stored) \subseteq 1 .. queueIds
      /\ QueueHolds(stored, queueSure, queueHeld)
  BY <1>1 DEF QueueInit
<1> QED
  BY <1>3, <1>4, <1>5, <1>6 DEF QueueInv

\* An operation loads the queue; from then on it is alone, or nobody is.
LEMMA LoadsFits ==
  ASSUME QueueInv, NEW c \in QueueClients, NEW kind \in Kinds \ {"none"}, NEW id \in Nat,
         Loads(c, kind, id), queueIds' \in queueIds .. QueueMaxIds,
         kind = "enqueue" => id \in 1 .. queueIds' /\ id \notin 1 .. queueIds
  PROVE  QueueInv'
<1> DEFINE op == Op(kind, id, stored)
<1>1. /\ c \notin Open /\ queueOp' = [queueOp EXCEPT ![c] = op]
      /\ UNCHANGED <<stored, queueSure, queueHeld>>
      /\ queueMixed' = IF Open = {} THEN queueMixed
                        ELSE queueMixed \union Open \union {c}
  BY DEF Loads, Loaded
<1>2. queueIds \in Nat /\ queueIds' \in Nat /\ queueIds <= queueIds'
  BY QueueAssumption DEF QueueInv
<1>3. op.kind = kind /\ op.id = id /\ op.loaded = stored
  BY DEF Op
<1>4. op \in [kind : Kinds, id : Nat, loaded : Seq(WorkItems)]
  BY DEF Op, QueueInv, Queues
<1> HIDE DEF op
<1>5. /\ queueOp' \in [QueueClients -> [kind : Kinds, id : Nat, loaded : Seq(WorkItems)]]
      /\ queueOp'[c] = op
      /\ \A o \in QueueClients : o # c => queueOp'[o] = queueOp[o]
  BY <1>1, <1>4 DEF QueueInv
<1>6. Open' = Open \union {c}
  BY <1>3, <1>5 DEF Open
<1>7. 1 .. queueIds \subseteq 1 .. queueIds'
  BY <1>2
<1>8. OpFits(op, queueIds', queueSure, queueHeld)
  BY <1>3, <1>7 DEF OpFits, QueueInv
<1>9. ASSUME NEW o \in Open' PROVE OpFits(queueOp'[o], queueIds', queueSure', queueHeld')
  <2>1. CASE o = c
    BY <1>1, <1>5, <1>8, <2>1
  <2>2. CASE o # c
    <3>1. OpFits(queueOp[o], queueIds, queueSure, queueHeld) /\ queueOp'[o] = queueOp[o]
      BY <1>5, <1>6, <2>2 DEF QueueInv, Open
    <3> QED
      BY <1>1, <1>2, <3>1, FitsMore
  <2> QED
    BY <2>1, <2>2
<1>10. \A o \in Open' : o \notin queueMixed' => Open' = {o}
  BY <1>1, <1>6
<1>11. queueIds' \in 0 .. QueueMaxIds
  BY <1>2
<1>12. /\ queueSure' \subseteq 1 .. queueIds' /\ queueHeld' \subseteq 1 .. queueIds'
       /\ stored' \in Queues /\ Ids(stored') \subseteq 1 .. queueIds'
       /\ QueueHolds(stored', queueSure', queueHeld')
  BY <1>1, <1>7 DEF QueueInv
<1> QED
  BY <1>5, <1>9, <1>10, <1>11, <1>12 DEF QueueInv

\* An operation is over: what the others ask of their queues is still so.
LEMMA OpEnds ==
  ASSUME QueueInv, NEW c \in Open,
         queueOp' = [queueOp EXCEPT ![c].kind = "none"],
         queueMixed' = queueMixed \ {c}, queueIds' = queueIds,
         c \in queueMixed => queueSure' \subseteq queueSure
                         /\ queueHeld' \subseteq queueHeld,
         queueSure' \subseteq 1 .. queueIds, queueHeld' \subseteq 1 .. queueIds,
         stored' \in Queues, Ids(stored') \subseteq 1 .. queueIds,
         QueueHolds(stored', queueSure', queueHeld')
  PROVE  QueueInv'
<1> DEFINE op == [queueOp[c] EXCEPT !.kind = "none"]
<1>1. c \in QueueClients /\ queueIds \in Nat
      /\ queueOp[c] \in [kind : Kinds, id : Nat, loaded : Seq(WorkItems)]
  BY QueueAssumption DEF Open, QueueInv
<1>2. op \in [kind : Kinds, id : Nat, loaded : Seq(WorkItems)] /\ op.kind = "none"
  BY <1>1 DEF Kinds
<1>3. queueOp' = [queueOp EXCEPT ![c] = op]
  OBVIOUS
<1> HIDE DEF op
<1>4. /\ queueOp' \in [QueueClients -> [kind : Kinds, id : Nat, loaded : Seq(WorkItems)]]
      /\ queueOp'[c] = op
      /\ \A o \in QueueClients : o # c => queueOp'[o] = queueOp[o]
  BY <1>1, <1>2, <1>3 DEF QueueInv
<1>5. Open' = Open \ {c}
  BY <1>2, <1>4 DEF Open
<1>6. ASSUME NEW o \in Open' PROVE OpFits(queueOp'[o], queueIds', queueSure', queueHeld')
  <2>1. o \in Open /\ o # c /\ o \in QueueClients
    BY <1>5 DEF Open
  <2>2. c \in queueMixed
    BY <2>1 DEF QueueInv
  <2>3. OpFits(queueOp[o], queueIds, queueSure, queueHeld) /\ queueOp'[o] = queueOp[o]
    BY <1>4, <2>1 DEF QueueInv
  <2> QED
    BY <1>1, <2>2, <2>3, FitsMore
<1>7. ASSUME NEW o \in Open', o \notin queueMixed' PROVE Open' = {o}
  BY <1>5, <1>7 DEF QueueInv
<1> QED
  BY <1>4, <1>6, <1>7 DEF QueueInv

\* Every step keeps it.
LEMMA QueueStep == QueueInv /\ [QueueNext]_queueVars => QueueInv'
<1> SUFFICES ASSUME QueueInv, [QueueNext]_queueVars PROVE QueueInv'
  OBVIOUS
<1>1. queueIds \in 0 .. QueueMaxIds /\ queueIds \in Nat /\ QueueMaxIds \in Nat
  BY QueueAssumption DEF QueueInv
<1>2. CASE UNCHANGED queueVars
  BY <1>2 DEF queueVars, QueueInv, Open
<1>3. ASSUME NEW c \in QueueClients, BeginEnqueue(c) PROVE QueueInv'
  <2>1. /\ queueIds < QueueMaxIds /\ queueIds' = queueIds + 1
        /\ Loads(c, "enqueue", queueIds + 1)
    BY <1>3 DEF BeginEnqueue
  <2>2. /\ queueIds + 1 \in Nat /\ queueIds' \in queueIds .. QueueMaxIds
        /\ queueIds + 1 \in 1 .. queueIds' /\ queueIds + 1 \notin 1 .. queueIds
    BY <1>1, <2>1
  <2>3. "enqueue" \in Kinds \ {"none"}
    BY DEF Kinds
  <2> QED
    BY <2>1, <2>2, <2>3, LoadsFits
<1>4. ASSUME NEW c \in QueueClients, BeginOther(c) PROVE QueueInv'
  <2>1. PICK kind \in OnItem \union {"claimNext", "resetRunningToPending"}, id \in Nat :
          Loads(c, kind, id)
    <3>1. \A kind, id \in 1 .. queueIds : id \in Nat
      OBVIOUS
    <3> QED
      BY <1>4, <3>1 DEF BeginOther
  <2>2. kind \in Kinds \ {"none"} /\ kind # "enqueue"
    BY DEF Kinds, OnItem
  <2>3. queueIds' = queueIds /\ queueIds' \in queueIds .. QueueMaxIds
    BY <1>1, <1>4 DEF BeginOther
  <2> QED
    BY <2>1, <2>2, <2>3, LoadsFits
<1>5. ASSUME NEW c \in QueueClients, SaveQueue(c) PROVE QueueInv'
  <2> DEFINE op == queueOp[c]
             alone == c \notin queueMixed
  <2>1. /\ c \in Open
        /\ stored' = IF Saves(op) THEN Applied(op) ELSE stored
        /\ queueOp' = [queueOp EXCEPT ![c].kind = "none"]
        /\ queueMixed' = queueMixed \ {c} /\ queueIds' = queueIds
        /\ alone => /\ queueSure' = SureAfter(op, queueSure)
                    /\ queueHeld' = HeldAfter(op, queueHeld)
        /\ ~alone => /\ queueSure' \subseteq SureAfter(op, queueSure)
                     /\ queueSure' \subseteq queueSure
                     /\ queueHeld' \subseteq HeldAfter(op, queueHeld)
                     /\ queueHeld' \subseteq queueHeld
    BY <1>5 DEF SaveQueue, SureAfter, HeldAfter
  <2>2. /\ op \in [kind : Kinds, id : Nat, loaded : Seq(WorkItems)]
        /\ op.kind # "none" /\ OpFits(op, queueIds, queueSure, queueHeld)
        /\ queueHeld \subseteq 1 .. queueIds
    BY <2>1 DEF Open, QueueInv
  <2> HIDE DEF op, alone
  <2>3. /\ Applied(op) \in Queues /\ Ids(Applied(op)) \subseteq 1 .. queueIds
        /\ QueueHolds(Applied(op), SureAfter(op, queueSure), HeldAfter(op, queueHeld))
        /\ ~Saves(op) => SureAfter(op, queueSure) \subseteq queueSure
                       /\ HeldAfter(op, queueHeld) \subseteq queueHeld
        /\ HeldAfter(op, queueHeld) \subseteq 1 .. queueIds
    BY <1>1, <2>2, AppliedHolds
  <2>4. /\ queueSure' \subseteq SureAfter(op, queueSure)
        /\ queueHeld' \subseteq HeldAfter(op, queueHeld)
    BY <2>1
  <2>5. stored' \in Queues /\ Ids(stored') \subseteq 1 .. queueIds
        /\ QueueHolds(stored', queueSure', queueHeld')
    <3>1. CASE Saves(op)
      BY <2>1, <2>3, <2>4, <3>1, HoldsLess
    <3>2. CASE ~Saves(op)
      <4>1. queueSure' \subseteq queueSure /\ queueHeld' \subseteq queueHeld
        BY <2>3, <2>4, <3>2
      <4> QED
        BY <2>1, <3>2, <4>1, HoldsLess DEF QueueInv
    <3> QED
      BY <3>1, <3>2
  <2>6. queueSure' \subseteq Ids(stored')
    BY <2>5 DEF QueueHolds
  <2> QED
    BY <2>1, <2>3, <2>4, <2>5, <2>6, OpEnds DEF alone
<1>6. ASSUME NEW c \in QueueClients, LoseOp(c) PROVE QueueInv'
  BY <1>6, OpEnds DEF LoseOp, QueueInv
<1> QED
  BY <1>2, <1>3, <1>4, <1>5, <1>6 DEF QueueNext

(* What an operation that met no other one put into the queue or claimed   *)
(* stays so, whatever overlaps before and after (work-queue/index.ts).     *)
THEOREM LoneOpsStayStuck == QueueSpec => []LoneOpsStick
<1>1. QueueInv => LoneOpsStick
  <2> SUFFICES ASSUME QueueInv PROVE LoneOpsStick
    OBVIOUS
  <2>1. QueueHolds(stored, queueSure, queueHeld) /\ DOMAIN stored = 1 .. Len(stored)
    BY DEF QueueInv, Queues
  <2> QED
    BY <2>1 DEF LoneOpsStick, QueueHolds, Ids
<1>2. QueueSpec => []QueueInv
  BY QueueStarts, QueueStep, PTL DEF QueueSpec
<1> QED
  BY <1>1, <1>2, PTL

-----------------------------------------------------------------------------
(* The batch window.  Each place an item may be in is in order, and before *)
(* the places items leave from to get there (Behind); an open window has   *)
(* the stamp of its oldest item, its timer the stamp of the window.        *)

\* The items: 0 is the Msg of the timer.
BatchItem == Nat \ {0}

\* The items of one place rise; those of one set are behind those of another.
Rising(s) ==
  \A i, j \in DOMAIN s : i < j /\ s[i] # 0 /\ s[j] # 0 => s[i] < s[j]
Behind(S, T) == \A x \in S, y \in T : x # 0 /\ y # 0 => x < y

\* What is in the batches that left.
LeftIn(ss) == UNION {ToSet(ss[p]) : p \in DOMAIN ss}

\* The types.
BatchTypes ==
  /\ batch \in [buffer : Seq(BatchItem), openedAt : Nat]
  /\ batchTimer \in [of : Nat, rung : BOOLEAN]
  /\ batchLine \in Seq(Nat) /\ batchCmd \in Seq(BatchItem)
  /\ batchShipped \in Seq(Seq(BatchItem)) /\ batchMade \in Nat
  /\ batchLost \subseteq 1 .. batchMade

\* The order of the batches that left, and of what follows them.
BatchesInOrder(ss, rest) ==
  /\ \A p, q \in DOMAIN ss : p < q => Behind(ToSet(ss[p]), ToSet(ss[q]))
  /\ \A p \in DOMAIN ss : Rising(ss[p])
  /\ Behind(LeftIn(ss), rest)

\* The order of the other places.
PlacesInOrder(cmd, buffer, line) ==
  /\ Rising(cmd) /\ Rising(buffer) /\ Rising(line)
  /\ Behind(ToSet(cmd), ToSet(buffer)) /\ Behind(ToSet(cmd), ToSet(line))
  /\ Behind(ToSet(buffer), ToSet(line))

\* What is in them.
Inside(cmd, buffer, line) == ToSet(cmd) \union ToSet(buffer) \union (ToSet(line) \ {0})

\* The clock of the window.
ClockRuns(w, timer, line) ==
  /\ w.openedAt = IF w.buffer = <<>> THEN 0 ELSE StampOf(Head(w.buffer))
  /\ timer.of = w.openedAt
  /\ timer.rung /\ w.buffer # <<>> => 0 \in ToSet(line)

\* The sizes of a batch and of the buffer.
SizesFit(cmd, buffer) == Len(cmd) <= BatchMax /\ Len(buffer) < BatchMax

\* The invariant of the batch window.
BatchInv ==
  /\ BatchTypes
  /\ BatchesInOrder(batchShipped, Inside(batchCmd, batch.buffer, batchLine))
  /\ PlacesInOrder(batchCmd, batch.buffer, batchLine)
  /\ LeftIn(batchShipped) \union Inside(batchCmd, batch.buffer, batchLine)
       = (1 .. batchMade) \ batchLost
  /\ \A p \in DOMAIN batchShipped : Len(batchShipped[p]) \in 1 .. BatchMax
  /\ SizesFit(batchCmd, batch.buffer)
  /\ ClockRuns(batch, batchTimer, batchLine)

-----------------------------------------------------------------------------

\* An empty place.
LEMMA EmptyPlace == Rising(<<>>) /\ ToSet(<<>>) = {}
BY DEF Rising, ToSet

\* A place that gains an element at its end.
LEMMA PlaceGains ==
  ASSUME NEW s \in Seq(Nat), NEW e \in Nat, NEW t, t = Append(s, e)
  PROVE  /\ t \in Seq(Nat) /\ Len(t) = Len(s) + 1 /\ t # <<>>
         /\ ToSet(t) = ToSet(s) \union {e}
         /\ Rising(s) /\ Behind(ToSet(s), {e}) => Rising(t)
         /\ Head(t) = IF s = <<>> THEN e ELSE Head(s)
<1>1. PICK n \in Nat : n = Len(s)
  OBVIOUS
<1>2. /\ t \in Seq(Nat) /\ Len(t) = n + 1 /\ t[n + 1] = e
      /\ \A i \in 1 .. n : t[i] = s[i]
      /\ DOMAIN t = 1 .. n + 1 /\ DOMAIN s = 1 .. n
  BY <1>1
<1>3. /\ \A i \in 1 .. n + 1 : i = n + 1 \/ i \in 1 .. n
      /\ n + 1 \in 1 .. n + 1 /\ \A i \in 1 .. n : i \in 1 .. n + 1 /\ i < n + 1
      /\ \A i \in 1 .. n + 1 : ~(n + 1 < i)
  OBVIOUS
<1>4. ToSet(t) = ToSet(s) \union {e}
  BY <1>2, <1>3 DEF ToSet
<1>5. ASSUME Rising(s), Behind(ToSet(s), {e}),
             NEW i \in 1 .. n + 1, NEW j \in 1 .. n + 1, i < j, t[i] # 0, t[j] # 0
      PROVE  t[i] < t[j]
  <2>1. i \in 1 .. n /\ t[i] = s[i] /\ s[i] \in ToSet(s)
    BY <1>2, <1>3, <1>5 DEF ToSet
  <2>2. CASE j = n + 1
    BY <1>2, <1>5, <2>1, <2>2 DEF Behind
  <2>3. CASE j \in 1 .. n
    BY <1>2, <1>5, <2>1, <2>3 DEF Rising
  <2> QED
    BY <1>3, <2>2, <2>3
<1>6. Rising(s) /\ Behind(ToSet(s), {e}) => Rising(t)
  BY <1>2, <1>5 DEF Rising
<1>7. Head(t) = IF s = <<>> THEN e ELSE Head(s)
  OBVIOUS
<1>8. t # <<>>
  OBVIOUS
<1> QED
  BY <1>1, <1>2, <1>4, <1>6, <1>7, <1>8

\* A place that loses its first element.
LEMMA PlaceLoses ==
  ASSUME NEW s \in Seq(Nat), s # <<>>, NEW t, t = Tail(s)
  PROVE  /\ t \in Seq(Nat) /\ Head(s) \in Nat
         /\ ToSet(s) = ToSet(t) \union {Head(s)}
         /\ Rising(s) => Rising(t) /\ Behind({Head(s)}, ToSet(t))
<1>1. PICK n \in Nat : n + 1 = Len(s)
  <2>1. Len(s) \in Nat \ {0}
    OBVIOUS
  <2>2. Len(s) - 1 \in Nat /\ (Len(s) - 1) + 1 = Len(s)
    BY <2>1
  <2> QED
    BY <2>2
<1>2. PICK e \in Nat : e = Head(s) /\ e = s[1]
  OBVIOUS
<1>3. /\ t \in Seq(Nat) /\ Len(t) = n
      /\ \A i \in 1 .. n : t[i] = s[i + 1]
      /\ DOMAIN t = 1 .. n /\ DOMAIN s = 1 .. n + 1
  BY <1>1
<1>4. /\ 1 \in 1 .. n + 1 /\ \A i \in 1 .. n : i + 1 \in 1 .. n + 1 /\ 1 < i + 1
      /\ \A i \in 1 .. n, j \in 1 .. n : i < j => i + 1 < j + 1
  OBVIOUS
<1>5. \A k \in 1 .. n + 1 : k = 1 \/ \E i \in 1 .. n : k = i + 1
  <2> TAKE k \in 1 .. n + 1
  <2>1. k # 1 => k - 1 \in 1 .. n /\ k = (k - 1) + 1
    OBVIOUS
  <2> QED
    BY <2>1
<1>6. ToSet(s) = ToSet(t) \union {e}
  <2>1. ASSUME NEW k \in 1 .. n + 1 PROVE s[k] \in ToSet(t) \union {e}
    <3>1. CASE k = 1
      BY <1>2, <3>1
    <3>2. ASSUME NEW i \in 1 .. n, k = i + 1 PROVE s[k] \in ToSet(t)
      <4>1. s[k] = t[i] /\ i \in DOMAIN t
        BY <1>3, <3>2
      <4> QED
        BY <4>1 DEF ToSet
    <3> QED
      BY <1>5, <3>1, <3>2
  <2>2. e \in ToSet(s)
    BY <1>2, <1>3, <1>4 DEF ToSet
  <2>3. ASSUME NEW i \in 1 .. n PROVE t[i] \in ToSet(s)
    BY <1>3, <1>4 DEF ToSet
  <2>4. ToSet(s) \subseteq ToSet(t) \union {e}
    BY <1>3, <2>1 DEF ToSet
  <2>5. ToSet(t) \subseteq ToSet(s)
    BY <1>3, <2>3 DEF ToSet
  <2> QED
    BY <2>2, <2>4, <2>5
<1>7. ASSUME Rising(s), NEW i \in 1 .. n, NEW j \in 1 .. n, i < j, t[i] # 0, t[j] # 0
      PROVE  t[i] < t[j]
  <2>1. /\ i + 1 \in DOMAIN s /\ j + 1 \in DOMAIN s /\ i + 1 < j + 1
        /\ t[i] = s[i + 1] /\ t[j] = s[j + 1]
    BY <1>3, <1>4, <1>7
  <2> QED
    BY <1>7, <2>1 DEF Rising
<1>8. ASSUME Rising(s), NEW i \in 1 .. n, e # 0, t[i] # 0 PROVE e < t[i]
  <2>1. /\ i + 1 \in DOMAIN s /\ 1 \in DOMAIN s /\ 1 < i + 1 /\ t[i] = s[i + 1]
    BY <1>3, <1>4
  <2> QED
    BY <1>2, <1>8, <2>1 DEF Rising
<1>9. Rising(s) => Rising(t)
  BY <1>3, <1>7 DEF Rising
<1>10. ASSUME Rising(s), NEW y \in ToSet(t), e # 0, y # 0 PROVE e < y
  <2>1. \E i \in 1 .. n : y = t[i]
    BY <1>3 DEF ToSet
  <2> QED
    BY <1>8, <1>10, <2>1
<1>11. Rising(s) => Behind({e}, ToSet(t))
  BY <1>10 DEF Behind
<1> QED
  BY <1>2, <1>3, <1>6, <1>9, <1>11

\* A batch that leaves is the last that left.
LEMMA BatchLeaves ==
  ASSUME NEW ss \in Seq(Seq(BatchItem)), NEW s \in Seq(BatchItem), NEW ss2,
         ss2 = Append(ss, s)
  PROVE  /\ ss2 \in Seq(Seq(BatchItem)) /\ LeftIn(ss2) = LeftIn(ss) \union ToSet(s)
         /\ \A P : (\A p \in DOMAIN ss : ss[p] \in P) /\ s \in P
                   => \A p \in DOMAIN ss2 : ss2[p] \in P
         /\ \A rest : BatchesInOrder(ss, ToSet(s) \union rest) /\ Rising(s)
                      /\ Behind(ToSet(s), rest)
                      => BatchesInOrder(ss2, rest)
<1>1. PICK n \in Nat : n = Len(ss)
  OBVIOUS
<1>2. /\ ss2 \in Seq(Seq(BatchItem)) /\ Len(ss2) = n + 1 /\ ss2[n + 1] = s
      /\ \A i \in 1 .. n : ss2[i] = ss[i]
      /\ DOMAIN ss2 = 1 .. n + 1 /\ DOMAIN ss = 1 .. n
  BY <1>1
<1>3. /\ \A i \in 1 .. n + 1 : i = n + 1 \/ i \in 1 .. n
      /\ n + 1 \in 1 .. n + 1 /\ \A i \in 1 .. n : i \in 1 .. n + 1
      /\ \A i \in 1 .. n + 1 : ~(n + 1 < i)
  OBVIOUS
<1>4. LeftIn(ss2) = LeftIn(ss) \union ToSet(s)
  <2>1. ASSUME NEW x \in LeftIn(ss2) PROVE x \in LeftIn(ss) \union ToSet(s)
    <3>1. PICK p \in 1 .. n + 1 : x \in ToSet(ss2[p])
      BY <1>2 DEF LeftIn
    <3>2. CASE p = n + 1
      BY <1>2, <3>1, <3>2
    <3>3. CASE p \in 1 .. n
      BY <1>2, <3>1, <3>3 DEF LeftIn
    <3> QED
      BY <1>3, <3>2, <3>3
  <2>2. ASSUME NEW x \in LeftIn(ss) PROVE x \in LeftIn(ss2)
    <3>1. PICK p \in 1 .. n : x \in ToSet(ss[p])
      BY <1>2 DEF LeftIn
    <3>2. p \in DOMAIN ss2 /\ x \in ToSet(ss2[p])
      BY <1>2, <1>3, <3>1
    <3> QED
      BY <3>2 DEF LeftIn
  <2>3. ASSUME NEW x \in ToSet(s) PROVE x \in LeftIn(ss2)
    <3>1. n + 1 \in DOMAIN ss2 /\ x \in ToSet(ss2[n + 1])
      BY <1>2, <1>3
    <3> QED
      BY <3>1 DEF LeftIn
  <2> QED
    BY <2>1, <2>2, <2>3
<1>5. ASSUME NEW P, \A p \in DOMAIN ss : ss[p] \in P, s \in P, NEW p \in DOMAIN ss2
      PROVE  ss2[p] \in P
  BY <1>2, <1>3, <1>5
<1>6. ASSUME NEW rest, BatchesInOrder(ss, ToSet(s) \union rest), Rising(s),
             Behind(ToSet(s), rest)
      PROVE  BatchesInOrder(ss2, rest)
  <2>1. \A p \in DOMAIN ss2 : Rising(ss2[p])
    BY <1>2, <1>3, <1>6 DEF BatchesInOrder
  <2>2. Behind(LeftIn(ss2), rest)
    BY <1>4, <1>6 DEF BatchesInOrder, Behind
  <2>3. ASSUME NEW p \in DOMAIN ss2, NEW q \in DOMAIN ss2, p < q
        PROVE  Behind(ToSet(ss2[p]), ToSet(ss2[q]))
    <3>1. p \in 1 .. n /\ ss2[p] = ss[p]
      BY <1>2, <1>3, <2>3
    <3>2. CASE q \in 1 .. n
      BY <1>2, <1>6, <2>3, <3>1, <3>2 DEF BatchesInOrder
    <3>3. CASE q = n + 1
      <4>1. ToSet(ss[p]) \subseteq LeftIn(ss)
        BY <1>2, <3>1 DEF LeftIn
      <4>2. Behind(ToSet(ss[p]), ToSet(s))
        BY <1>6, <4>1 DEF BatchesInOrder, Behind
      <4> QED
        BY <1>2, <3>1, <3>3, <4>2
    <3> QED
      BY <1>2, <1>3, <3>2, <3>3
  <2> QED
    BY <2>1, <2>2, <2>3 DEF BatchesInOrder
<1> QED
  BY <1>2, <1>4, <1>5, <1>6

-----------------------------------------------------------------------------

\* The invariant at the start.
LEMMA BatchStarts == BatchInit => BatchInv
<1> SUFFICES ASSUME BatchInit PROVE BatchInv
  OBVIOUS
<1>1. /\ batch = ClosedWindow /\ batchTimer = [of |-> 0, rung |-> FALSE]
      /\ batchLine = <<>> /\ batchCmd = <<>> /\ batchShipped = <<>>
      /\ batchLost = {} /\ batchMade = 0
  BY DEF BatchInit
<1>2. ClosedWindow.buffer = <<>> /\ ClosedWindow.openedAt = 0
  BY DEF ClosedWindow
<1>3. BatchTypes
  BY <1>1 DEF BatchTypes, ClosedWindow
<1>4. LeftIn(<<>>) = {} /\ Inside(<<>>, <<>>, <<>>) = {}
  BY EmptyPlace DEF LeftIn, Inside
<1>5. BatchesInOrder(<<>>, {}) /\ PlacesInOrder(<<>>, <<>>, <<>>)
  BY <1>4, EmptyPlace DEF BatchesInOrder, PlacesInOrder, Behind
<1>6. ClockRuns(batch, batchTimer, batchLine)
  BY <1>1, <1>2 DEF ClockRuns
<1>7. SizesFit(<<>>, <<>>)
  BY BatchAssumption DEF SizesFit
<1> QED
  BY <1>1, <1>2, <1>3, <1>4, <1>5, <1>6, <1>7 DEF BatchInv

\* A fold moves what is inside from place to place, in order.
LEMMA PlacesShift ==
  ASSUME BatchInv, BatchTypes', UNCHANGED <<batchShipped, batchLost, batchMade>>,
         PlacesInOrder(batchCmd', batch'.buffer, batchLine'),
         Inside(batchCmd', batch'.buffer, batchLine')
           = Inside(batchCmd, batch.buffer, batchLine),
         SizesFit(batchCmd', batch'.buffer), ClockRuns(batch', batchTimer', batchLine')
  PROVE  BatchInv'
BY DEF BatchInv

\* Nothing is in two of the places, nor was it made later than now.
LEMMA PlacesApart ==
  ASSUME BatchInv
  PROVE  /\ \A x \in LeftIn(batchShipped) : x \in 1 .. batchMade
         /\ \A x \in Inside(batchCmd, batch.buffer, batchLine) :
              x \in 1 .. batchMade /\ x \notin LeftIn(batchShipped)
         /\ \A x \in ToSet(batch.buffer) : x \notin ToSet(batchCmd) \union ToSet(batchLine)
         /\ \A x \in ToSet(batchLine) : x = 0 \/ x \in 1 .. batchMade
         /\ 0 \notin ToSet(batchCmd) /\ 0 \notin ToSet(batch.buffer)
<1>1. /\ batch.buffer \in Seq(BatchItem) /\ batchCmd \in Seq(BatchItem)
      /\ batchLine \in Seq(Nat) /\ batchMade \in Nat
  BY DEF BatchInv, BatchTypes
<1>2. /\ ToSet(batch.buffer) \subseteq BatchItem /\ ToSet(batchCmd) \subseteq BatchItem
      /\ ToSet(batchLine) \subseteq Nat
  BY <1>1 DEF ToSet
<1>3. LeftIn(batchShipped) \union Inside(batchCmd, batch.buffer, batchLine)
        \subseteq 1 .. batchMade
  BY DEF BatchInv
<1>4. \A x \in 1 .. batchMade : x # 0 /\ ~(x < x)
  BY <1>1
<1>5. \A x \in Inside(batchCmd, batch.buffer, batchLine) : x \notin LeftIn(batchShipped)
  BY <1>3, <1>4 DEF BatchInv, BatchesInOrder, Behind
<1>6. \A x \in ToSet(batch.buffer) : x \notin ToSet(batchCmd) \union ToSet(batchLine)
  <2>1. \A x \in BatchItem : x # 0 /\ ~(x < x)
    BY DEF BatchItem
  <2>2. /\ Behind(ToSet(batchCmd), ToSet(batch.buffer))
        /\ Behind(ToSet(batch.buffer), ToSet(batchLine))
    BY DEF BatchInv, PlacesInOrder
  <2> QED
    BY <1>2, <2>1, <2>2 DEF Behind
<1>7. \A x \in ToSet(batchLine) : x = 0 \/ x \in 1 .. batchMade
  BY <1>3 DEF Inside
<1>8. 0 \notin ToSet(batchCmd) /\ 0 \notin ToSet(batch.buffer)
  BY <1>2 DEF BatchItem
<1> QED
  BY <1>3, <1>5, <1>6, <1>7, <1>8

\* An item comes onto the line behind all there are.
LEMMA BatchArrivesKeeps == BatchInv /\ ItemArrives => BatchInv'
<1> SUFFICES ASSUME BatchInv, ItemArrives PROVE BatchInv'
  OBVIOUS
<1>1. /\ batchMade' = batchMade + 1 /\ batchLine' = Append(batchLine, batchMade + 1)
      /\ batch' = batch /\ batchTimer' = batchTimer /\ batchCmd' = batchCmd
      /\ batchShipped' = batchShipped /\ batchLost' = batchLost
  BY DEF ItemArrives
<1>2. BatchTypes /\ PlacesInOrder(batchCmd, batch.buffer, batchLine)
  BY DEF BatchInv
<1>3. PICK x \in Nat : x = batchMade + 1 /\ x \notin 1 .. batchMade
  BY <1>2 DEF BatchTypes
<1>4. /\ batchLine' \in Seq(Nat) /\ ToSet(batchLine') = ToSet(batchLine) \union {x}
      /\ Rising(batchLine) /\ Behind(ToSet(batchLine), {x}) => Rising(batchLine')
  <2>1. batchLine \in Seq(Nat) /\ batchLine' = Append(batchLine, x) /\ Nat \subseteq Nat
    BY <1>1, <1>2, <1>3 DEF BatchTypes
  <2>2. PICK e \in Nat : e = x
    OBVIOUS
  <2>3. batchLine' = Append(batchLine, e)
    BY <1>1, <2>1, <2>2
  <2>4. /\ batchLine' \in Seq(Nat) /\ ToSet(batchLine') = ToSet(batchLine) \union {e}
        /\ Rising(batchLine) /\ Behind(ToSet(batchLine), {e}) => Rising(batchLine')
    BY <2>1, <2>3, PlaceGains
  <2> QED
    BY <2>2, <2>4
<1>5. /\ 1 .. batchMade' = (1 .. batchMade) \union {x} /\ x # 0
      /\ \A y \in 1 .. batchMade : y < x
      /\ batchMade' \in Nat
  BY <1>1, <1>2, <1>3 DEF BatchTypes
<1>6. BatchTypes'
  BY <1>1, <1>2, <1>4, <1>5 DEF BatchTypes
<1> DEFINE inside == Inside(batchCmd, batch.buffer, batchLine)
<1>7. Inside(batchCmd', batch'.buffer, batchLine') = inside \union {x}
  BY <1>1, <1>4, <1>5 DEF Inside
<1>8. /\ Behind(LeftIn(batchShipped), {x}) /\ Behind(ToSet(batchLine), {x})
      /\ Behind(ToSet(batchCmd), {x}) /\ Behind(ToSet(batch.buffer), {x})
  <2>1. ToSet(batchCmd) \subseteq inside /\ ToSet(batch.buffer) \subseteq inside
    BY DEF Inside
  <2> QED
    BY <1>5, <2>1, PlacesApart DEF Behind
<1>9. BatchesInOrder(batchShipped', inside \union {x})
  BY <1>1, <1>8 DEF BatchInv, BatchesInOrder, Behind
<1>10. PlacesInOrder(batchCmd', batch'.buffer, batchLine')
  BY <1>1, <1>2, <1>4, <1>8 DEF PlacesInOrder, Behind
<1>11. LeftIn(batchShipped') \union (inside \union {x}) = (1 .. batchMade') \ batchLost'
  <2>1. LeftIn(batchShipped) \union inside = (1 .. batchMade) \ batchLost
    BY DEF BatchInv
  <2>2. x \notin batchLost
    BY <1>2, <1>3 DEF BatchTypes
  <2> HIDE DEF inside
  <2>3. ((1 .. batchMade) \union {x}) \ batchLost = ((1 .. batchMade) \ batchLost) \union {x}
    BY <2>2
  <2> QED
    BY <1>1, <1>5, <2>1, <2>3
<1>12. ClockRuns(batch', batchTimer', batchLine')
  BY <1>1, <1>4 DEF BatchInv, ClockRuns
<1> QED
  BY <1>1, <1>6, <1>7, <1>9, <1>10, <1>11, <1>12 DEF BatchInv

\* The timer rings behind what is on the line.
LEMMA BatchRingsKeeps == BatchInv /\ BatchRings => BatchInv'
<1> SUFFICES ASSUME BatchInv, BatchRings PROVE BatchInv'
  OBVIOUS
<1>1. /\ batchTimer' = [batchTimer EXCEPT !.rung = TRUE]
      /\ batchLine' = Append(batchLine, 0)
      /\ batch' = batch /\ batchCmd' = batchCmd
      /\ UNCHANGED <<batchShipped, batchLost, batchMade>>
  BY DEF BatchRings, WindowExpired
<1>2. BatchTypes /\ PlacesInOrder(batchCmd, batch.buffer, batchLine)
  BY DEF BatchInv
<1>3. /\ batchLine' \in Seq(Nat) /\ ToSet(batchLine') = ToSet(batchLine) \union {0}
      /\ Rising(batchLine) /\ Behind(ToSet(batchLine), {0}) => Rising(batchLine')
  <2>1. batchLine \in Seq(Nat) /\ Nat \subseteq Nat /\ 0 \in Nat
    BY <1>2 DEF BatchTypes
  <2>2. PICK e \in Nat : e = 0
    OBVIOUS
  <2>3. batchLine' = Append(batchLine, e)
    BY <1>1, <2>1, <2>2
  <2>4. /\ batchLine' \in Seq(Nat) /\ ToSet(batchLine') = ToSet(batchLine) \union {e}
        /\ Rising(batchLine) /\ Behind(ToSet(batchLine), {e}) => Rising(batchLine')
    BY <2>1, <2>3, PlaceGains
  <2> QED
    BY <2>2, <2>4
<1>4. /\ batchTimer' \in [of : Nat, rung : BOOLEAN] /\ batchTimer'.of = batchTimer.of
  BY <1>1, <1>2 DEF BatchTypes
<1>5. BatchTypes'
  BY <1>1, <1>2, <1>3, <1>4 DEF BatchTypes
<1>6. Inside(batchCmd', batch'.buffer, batchLine') = Inside(batchCmd, batch.buffer, batchLine)
  BY <1>1, <1>3 DEF Inside
<1>7. PlacesInOrder(batchCmd', batch'.buffer, batchLine')
  BY <1>1, <1>2, <1>3 DEF PlacesInOrder, Behind
<1>8. ClockRuns(batch', batchTimer', batchLine')
  BY <1>1, <1>3, <1>4 DEF BatchInv, ClockRuns
<1>9. SizesFit(batchCmd', batch'.buffer)
  BY <1>1 DEF BatchInv
<1> QED
  BY <1>1, <1>5, <1>6, <1>7, <1>8, <1>9, PlacesShift

\* A batch leaves behind those that have left.
LEMMA ShipKeeps == BatchInv /\ Ship => BatchInv'
<1> SUFFICES ASSUME BatchInv, Ship PROVE BatchInv'
  OBVIOUS
<1>1. /\ batchShipped' = Append(batchShipped, batchCmd) /\ batchCmd' = <<>>
      /\ batchCmd # <<>> /\ batch' = batch /\ batchTimer' = batchTimer
      /\ batchLine' = batchLine /\ batchMade' = batchMade /\ batchLost' = batchLost
  BY DEF Ship
<1>2. BatchTypes /\ PlacesInOrder(batchCmd, batch.buffer, batchLine)
  BY DEF BatchInv
<1>3. batchShipped \in Seq(Seq(BatchItem)) /\ batchCmd \in Seq(BatchItem)
  BY <1>2 DEF BatchTypes
<1> DEFINE rest == Inside(<<>>, batch.buffer, batchLine)
           P == {s \in Seq(BatchItem) : Len(s) \in 1 .. BatchMax}
<1>4. /\ batchShipped' \in Seq(Seq(BatchItem))
      /\ LeftIn(batchShipped') = LeftIn(batchShipped) \union ToSet(batchCmd)
      /\ \A Q : (\A p \in DOMAIN batchShipped : batchShipped[p] \in Q) /\ batchCmd \in Q
                => \A p \in DOMAIN batchShipped' : batchShipped'[p] \in Q
      /\ \A r : BatchesInOrder(batchShipped, ToSet(batchCmd) \union r)
                /\ Rising(batchCmd) /\ Behind(ToSet(batchCmd), r)
                => BatchesInOrder(batchShipped', r)
  BY <1>1, <1>3, BatchLeaves
<1>5. Inside(batchCmd, batch.buffer, batchLine) = ToSet(batchCmd) \union rest
  BY EmptyPlace DEF Inside
<1>6. Behind(ToSet(batchCmd), rest)
  BY <1>2, EmptyPlace DEF Inside, PlacesInOrder, Behind
<1> HIDE DEF rest
<1>7. BatchesInOrder(batchShipped', rest)
  <2>1. BatchesInOrder(batchShipped, ToSet(batchCmd) \union rest)
    BY <1>5 DEF BatchInv
  <2> QED
    BY <1>2, <1>4, <1>6, <2>1 DEF PlacesInOrder
<1>8. \A p \in DOMAIN batchShipped' : Len(batchShipped'[p]) \in 1 .. BatchMax
  <2>1. \A p \in DOMAIN batchShipped : batchShipped[p] \in P
    BY <1>3 DEF BatchInv
  <2>2. batchCmd \in P
    <3>1. Len(batchCmd) \in Nat \ {0} /\ Len(batchCmd) <= BatchMax
      BY <1>1, <1>3 DEF BatchInv, SizesFit
    <3> QED
      BY <1>3, <3>1, BatchAssumption
  <2>3. \A p \in DOMAIN batchShipped' : batchShipped'[p] \in P
    <3> HIDE DEF P
    <3> QED
      BY <1>4, <2>1, <2>2
  <2> QED
    BY <2>3
<1>9. BatchTypes'
  BY <1>1, <1>2, <1>4 DEF BatchTypes
<1>10. PlacesInOrder(batchCmd', batch'.buffer, batchLine')
  BY <1>1, <1>2, EmptyPlace DEF PlacesInOrder, Behind
<1>11. LeftIn(batchShipped') \union rest = (1 .. batchMade') \ batchLost'
  <2>1. LeftIn(batchShipped) \union (ToSet(batchCmd) \union rest)
          = (1 .. batchMade) \ batchLost
    BY <1>5 DEF BatchInv
  <2> QED
    BY <1>1, <1>4, <2>1
<1>12. SizesFit(batchCmd', batch'.buffer)
  BY <1>1, BatchAssumption DEF BatchInv, SizesFit
<1>13. ClockRuns(batch', batchTimer', batchLine')
  BY <1>1 DEF BatchInv, ClockRuns
<1>14. rest = Inside(batchCmd', batch'.buffer, batchLine')
  BY <1>1 DEF rest
<1> QED
  BY <1>7, <1>8, <1>9, <1>10, <1>11, <1>12, <1>13, <1>14 DEF BatchInv

\* The stamp of an item is no null.
LEMMA StampsAre == \A item \in Nat : StampOf(item) \in Nat \ {0}
BY DEF StampOf

\* What is inside when the head of the line is gone.
LEMMA HeadLeaves ==
  ASSUME BatchInv, batchLine # <<>>, batchCmd = <<>>
  PROVE  /\ Tail(batchLine) \in Seq(Nat) /\ Head(batchLine) \in Nat
         /\ ToSet(batchLine) = ToSet(Tail(batchLine)) \union {Head(batchLine)}
         /\ Rising(Tail(batchLine)) /\ Rising(batch.buffer)
         /\ Behind({Head(batchLine)}, ToSet(Tail(batchLine)))
         /\ Behind(ToSet(batch.buffer), ToSet(Tail(batchLine)))
         /\ Behind(ToSet(batch.buffer), {Head(batchLine)})
         /\ Inside(batchCmd, batch.buffer, batchLine)
              = ToSet(batch.buffer) \union (ToSet(batchLine) \ {0})
<1>1. /\ batchLine \in Seq(Nat) /\ Rising(batchLine) /\ Rising(batch.buffer)
      /\ Behind(ToSet(batch.buffer), ToSet(batchLine))
  BY DEF BatchInv, BatchTypes, PlacesInOrder
<1> DEFINE t == Tail(batchLine)
<1>2. /\ t \in Seq(Nat) /\ Head(batchLine) \in Nat
      /\ ToSet(batchLine) = ToSet(t) \union {Head(batchLine)}
      /\ Rising(batchLine) => Rising(t) /\ Behind({Head(batchLine)}, ToSet(t))
  BY <1>1, PlaceLoses
<1> HIDE DEF t
<1>3. /\ Behind(ToSet(batch.buffer), ToSet(t))
      /\ Behind(ToSet(batch.buffer), {Head(batchLine)})
  BY <1>1, <1>2 DEF Behind
<1>4. Inside(batchCmd, batch.buffer, batchLine)
        = ToSet(batch.buffer) \union (ToSet(batchLine) \ {0})
  BY EmptyPlace DEF Inside
<1> QED
  BY <1>1, <1>2, <1>3, <1>4 DEF t

\* What a fold leaves of the window is installed with a clock of its own.
LEMMA InstallsWindow ==
  ASSUME BatchInv, NEW w \in [buffer : Seq(BatchItem), openedAt : Nat],
         BatchInstalls(w)
  PROVE  /\ batch' = w /\ batchTimer' \in [of : Nat, rung : BOOLEAN]
         /\ batchTimer'.of = w.openedAt
         /\ batchTimer'.rung => batchTimer.rung /\ batch.openedAt = w.openedAt
<1>1. /\ batchTimer \in [of : Nat, rung : BOOLEAN] /\ batchTimer.of = batch.openedAt
  BY DEF BatchInv, BatchTypes, ClockRuns
<1>2. CASE batchTimer.of = w.openedAt
  BY <1>1, <1>2 DEF BatchInstalls
<1>3. CASE batchTimer.of # w.openedAt
  <2>1. batchTimer' = [of |-> w.openedAt, rung |-> FALSE]
    BY <1>3 DEF BatchInstalls
  <2>2. w.openedAt \in Nat /\ FALSE \in BOOLEAN
    OBVIOUS
  <2>3. /\ batchTimer' \in [of : Nat, rung : BOOLEAN]
        /\ batchTimer'.of = w.openedAt /\ ~batchTimer'.rung
    BY <2>1, <2>2
  <2> QED
    BY <2>3 DEF BatchInstalls
<1> QED
  BY <1>2, <1>3

\* The window expires.
LEMMA ExpiryKeeps ==
  ASSUME BatchInv, batchLine # <<>>, batchCmd = <<>>, Head(batchLine) = 0, OnWindow,
         batchLine' = Tail(batchLine), UNCHANGED <<batchShipped, batchLost, batchMade>>
  PROVE  BatchInv'
<1>1. BatchTypes /\ PlacesInOrder(batchCmd, batch.buffer, batchLine)
  BY DEF BatchInv
<1>2. /\ Tail(batchLine) \in Seq(Nat)
      /\ ToSet(batchLine) \ {0} = ToSet(Tail(batchLine)) \ {0}
      /\ Rising(Tail(batchLine)) /\ Rising(batch.buffer)
      /\ Behind(ToSet(batch.buffer), ToSet(Tail(batchLine)))
      /\ Inside(batchCmd, batch.buffer, batchLine)
           = ToSet(batch.buffer) \union (ToSet(batchLine) \ {0})
  BY HeadLeaves
<1>3. CASE batch.buffer = <<>>
  <2>1. batch' = batch /\ batchTimer' = batchTimer /\ batchCmd' = <<>>
    BY <1>3 DEF OnWindow
  <2>2. BatchTypes'
    BY <1>1, <1>2, <2>1 DEF BatchTypes
  <2>3. PlacesInOrder(batchCmd', batch'.buffer, batchLine')
    BY <1>2, <1>3, <2>1, EmptyPlace DEF PlacesInOrder, Behind
  <2>4. Inside(batchCmd', batch'.buffer, batchLine')
          = Inside(batchCmd, batch.buffer, batchLine)
    BY <1>2, <1>3, <2>1, EmptyPlace DEF Inside
  <2>5. SizesFit(batchCmd', batch'.buffer)
    BY <2>1 DEF BatchInv
  <2>6. ClockRuns(batch', batchTimer', batchLine')
    BY <1>3, <2>1 DEF BatchInv, ClockRuns
  <2> QED
    BY <2>2, <2>3, <2>4, <2>5, <2>6, PlacesShift
<1>4. CASE batch.buffer # <<>>
  <2>1. BatchInstalls(ClosedWindow) /\ batchCmd' = batch.buffer
    BY <1>4 DEF OnWindow, Flushed
  <2>2. /\ ClosedWindow \in [buffer : Seq(BatchItem), openedAt : Nat]
        /\ ClosedWindow.buffer = <<>> /\ ClosedWindow.openedAt = 0
    BY DEF ClosedWindow
  <2>3. /\ batch' = ClosedWindow /\ batchTimer' \in [of : Nat, rung : BOOLEAN]
        /\ batchTimer'.of = 0
    BY <2>1, <2>2, InstallsWindow
  <2>4. BatchTypes'
    BY <1>1, <1>2, <2>1, <2>2, <2>3 DEF BatchTypes
  <2>5. PlacesInOrder(batchCmd', batch'.buffer, batchLine')
    BY <1>2, <2>1, <2>2, <2>3, EmptyPlace DEF PlacesInOrder, Behind
  <2>6. Inside(batchCmd', batch'.buffer, batchLine')
          = Inside(batchCmd, batch.buffer, batchLine)
    BY <1>2, <2>1, <2>2, <2>3, EmptyPlace DEF Inside
  <2>7. SizesFit(batchCmd', batch'.buffer)
    <3>1. Len(batch.buffer) < BatchMax /\ batch.buffer \in Seq(BatchItem)
      BY <1>1 DEF BatchInv, SizesFit, BatchTypes
    <3>2. Len(batch.buffer) \in Nat
      BY <3>1
    <3>3. Len(batch'.buffer) = 0
      BY <2>2, <2>3
    <3> QED
      BY <2>1, <3>1, <3>2, <3>3, BatchAssumption DEF SizesFit
  <2>8. ClockRuns(batch', batchTimer', batchLine')
    BY <2>2, <2>3 DEF ClockRuns
  <2> QED
    BY <2>4, <2>5, <2>6, <2>7, <2>8, PlacesShift
<1> QED
  BY <1>3, <1>4

\* An item is added, and flushes the window if it fills it.
LEMMA AddKeeps ==
  ASSUME BatchInv, batchLine # <<>>, batchCmd = <<>>, NEW item \in BatchItem,
         Head(batchLine) = item, AddItem(item), batchLine' = Tail(batchLine),
         UNCHANGED <<batchShipped, batchLost, batchMade>>
  PROVE  BatchInv'
<1>1. BatchTypes /\ PlacesInOrder(batchCmd, batch.buffer, batchLine)
  BY DEF BatchInv
<1>2. /\ Tail(batchLine) \in Seq(Nat)
      /\ ToSet(batchLine) = ToSet(Tail(batchLine)) \union {item}
      /\ Rising(Tail(batchLine)) /\ Rising(batch.buffer)
      /\ Behind({item}, ToSet(Tail(batchLine)))
      /\ Behind(ToSet(batch.buffer), ToSet(Tail(batchLine)))
      /\ Behind(ToSet(batch.buffer), {item})
      /\ Inside(batchCmd, batch.buffer, batchLine)
           = ToSet(batch.buffer) \union (ToSet(batchLine) \ {0})
  BY HeadLeaves
<1> DEFINE buffer == Append(batch.buffer, item)
<1>3. /\ batch \in [buffer : Seq(BatchItem), openedAt : Nat]
      /\ batch.buffer \in Seq(BatchItem) /\ buffer \in Seq(BatchItem) /\ item # 0
      /\ item \in Nat
  BY <1>1 DEF BatchTypes, BatchItem
<1>4. /\ ToSet(buffer) = ToSet(batch.buffer) \union {item} /\ buffer # <<>>
      /\ Rising(buffer) /\ Len(buffer) = Len(batch.buffer) + 1
      /\ Head(buffer) = IF batch.buffer = <<>> THEN item ELSE Head(batch.buffer)
  <2>1. PICK e \in Nat : e = item
    BY <1>3
  <2>2. batch.buffer \in Seq(Nat)
    BY <1>3 DEF BatchItem
  <2>3. buffer = Append(batch.buffer, e)
    BY <2>1
  <2> HIDE DEF buffer
  <2>4. /\ Len(buffer) = Len(batch.buffer) + 1 /\ buffer # <<>>
        /\ ToSet(buffer) = ToSet(batch.buffer) \union {e}
        /\ Rising(batch.buffer) /\ Behind(ToSet(batch.buffer), {e}) => Rising(buffer)
        /\ Head(buffer) = IF batch.buffer = <<>> THEN e ELSE Head(batch.buffer)
    BY <2>2, <2>3, PlaceGains
  <2> QED
    BY <1>2, <2>1, <2>4
<1>5. /\ IF Len(buffer) >= BatchMax
           THEN BatchInstalls(ClosedWindow) /\ batchCmd' = buffer
           ELSE /\ BatchInstalls([buffer |-> buffer, openedAt |-> Opens(batch, item)])
                /\ UNCHANGED batchCmd
  BY DEF AddItem
<1> HIDE DEF buffer
<1>6. Behind(ToSet(buffer), ToSet(Tail(batchLine)))
  BY <1>2, <1>4 DEF Behind
<1>7. ToSet(buffer) \union (ToSet(Tail(batchLine)) \ {0})
        = Inside(batchCmd, batch.buffer, batchLine)
  <2>1. PICK B : B = ToSet(batch.buffer)
    OBVIOUS
  <2>2. PICK T : T = ToSet(Tail(batchLine))
    OBVIOUS
  <2>3. (B \union {item}) \union (T \ {0}) = B \union ((T \union {item}) \ {0})
    BY <1>3
  <2> QED
    BY <1>2, <1>4, <2>1, <2>2, <2>3
<1>8. Len(batch.buffer) < BatchMax /\ Len(batch.buffer) \in Nat /\ Len(buffer) \in Nat
  <2>1. Len(batch.buffer) < BatchMax
    BY DEF BatchInv, SizesFit
  <2> QED
    BY <1>3, <2>1
<1>9. CASE Len(buffer) >= BatchMax
  <2>1. BatchInstalls(ClosedWindow) /\ batchCmd' = buffer
    BY <1>5, <1>9
  <2>2. /\ ClosedWindow \in [buffer : Seq(BatchItem), openedAt : Nat]
        /\ ClosedWindow.buffer = <<>> /\ ClosedWindow.openedAt = 0
    BY DEF ClosedWindow
  <2>3. /\ batch' = ClosedWindow /\ batchTimer' \in [of : Nat, rung : BOOLEAN]
        /\ batchTimer'.of = 0
    BY <2>1, <2>2, InstallsWindow
  <2>4. BatchTypes'
    BY <1>1, <1>2, <1>3, <2>1, <2>2, <2>3 DEF BatchTypes
  <2>5. PlacesInOrder(batchCmd', batch'.buffer, batchLine')
    BY <1>2, <1>4, <1>6, <2>1, <2>2, <2>3, EmptyPlace DEF PlacesInOrder, Behind
  <2>6. Inside(batchCmd', batch'.buffer, batchLine')
          = Inside(batchCmd, batch.buffer, batchLine)
    BY <1>7, <2>1, <2>2, <2>3, EmptyPlace DEF Inside
  <2>7. SizesFit(batchCmd', batch'.buffer)
    <3>1. Len(batch'.buffer) = 0
      BY <2>2, <2>3
    <3>2. Len(buffer) <= BatchMax /\ BatchMax > 0
      BY <1>4, <1>8, BatchAssumption
    <3> QED
      BY <2>1, <3>1, <3>2 DEF SizesFit
  <2>8. ClockRuns(batch', batchTimer', batchLine')
    BY <2>2, <2>3 DEF ClockRuns
  <2> QED
    BY <2>4, <2>5, <2>6, <2>7, <2>8, PlacesShift
<1>10. CASE ~(Len(buffer) >= BatchMax)
  <2> DEFINE w == [buffer |-> buffer, openedAt |-> Opens(batch, item)]
  <2>1. BatchInstalls(w) /\ batchCmd' = <<>>
    BY <1>5, <1>10
  <2>2. batch.openedAt = IF batch.buffer = <<>> THEN 0 ELSE StampOf(Head(batch.buffer))
    BY DEF BatchInv, ClockRuns
  <2>3. batch.buffer # <<>> => Head(batch.buffer) \in Nat
    BY <1>3 DEF BatchItem
  <2>4. Opens(batch, item) = StampOf(Head(buffer)) /\ Opens(batch, item) \in Nat \ {0}
    <3>1. CASE batch.buffer = <<>>
      BY <1>3, <1>4, <2>2, <3>1, StampsAre DEF Opens
    <3>2. CASE batch.buffer # <<>>
      BY <1>3, <1>4, <2>2, <2>3, <3>2, StampsAre DEF Opens
    <3> QED
      BY <3>1, <3>2
  <2>5. /\ w \in [buffer : Seq(BatchItem), openedAt : Nat] /\ w.buffer = buffer
        /\ w.openedAt = StampOf(Head(buffer)) /\ w.openedAt # 0
    BY <1>3, <2>4
  <2> HIDE DEF w
  <2>6. /\ batch' = w /\ batchTimer' \in [of : Nat, rung : BOOLEAN]
        /\ batchTimer'.of = w.openedAt
        /\ batchTimer'.rung => batchTimer.rung /\ batch.openedAt = w.openedAt
    BY <2>1, <2>5, InstallsWindow
  <2>7. BatchTypes'
    BY <1>1, <1>2, <2>1, <2>5, <2>6 DEF BatchTypes
  <2>8. PlacesInOrder(batchCmd', batch'.buffer, batchLine')
    BY <1>2, <1>4, <1>6, <2>1, <2>5, <2>6, EmptyPlace DEF PlacesInOrder, Behind
  <2>9. Inside(batchCmd', batch'.buffer, batchLine')
          = Inside(batchCmd, batch.buffer, batchLine)
    BY <1>7, <2>1, <2>5, <2>6, EmptyPlace DEF Inside
  <2>10. SizesFit(batchCmd', batch'.buffer)
    <3>1. Len(batchCmd') = 0
      BY <2>1
    <3> QED
      BY <1>8, <1>10, <2>5, <2>6, <3>1, BatchAssumption DEF SizesFit
  <2>11. ClockRuns(batch', batchTimer', batchLine')
    <3>1. batchTimer'.rung => 0 \in ToSet(batchLine')
      <4> SUFFICES ASSUME batchTimer'.rung PROVE 0 \in ToSet(Tail(batchLine))
        OBVIOUS
      <4>1. batchTimer.rung /\ batch.openedAt # 0
        BY <2>5, <2>6
      <4>2. 0 \in ToSet(batchLine)
        BY <2>2, <4>1 DEF BatchInv, ClockRuns
      <4> QED
        BY <1>2, <1>3, <4>2
    <3> QED
      BY <1>4, <2>5, <2>6, <3>1 DEF ClockRuns
  <2> QED
    BY <2>7, <2>8, <2>9, <2>10, <2>11, PlacesShift
<1> QED
  BY <1>9, <1>10

\* The host goes down: its line and its Cmd are lost, the buffer is not.
LEMMA HostDownKeeps == BatchInv /\ BatchHostDown => BatchInv'
<1> SUFFICES ASSUME BatchInv, BatchHostDown PROVE BatchInv'
  OBVIOUS
<1>1. /\ batchLost' = batchLost \union ToSet(batchCmd) \union (ToSet(batchLine) \ {0})
      /\ batchLine' = <<>> /\ batchCmd' = <<>>
      /\ batchTimer' = [of |-> batch.openedAt, rung |-> FALSE]
      /\ batch' = batch /\ batchShipped' = batchShipped /\ batchMade' = batchMade
  BY DEF BatchHostDown, WindowExpired
<1>2. BatchTypes /\ PlacesInOrder(batchCmd, batch.buffer, batchLine)
  BY DEF BatchInv
<1> DEFINE left == LeftIn(batchShipped)
           cmd == ToSet(batchCmd)
           buffer == ToSet(batch.buffer)
           line == ToSet(batchLine) \ {0}
<1>3. /\ left \union (cmd \union buffer \union line) = (1 .. batchMade) \ batchLost
      /\ batchLost \subseteq 1 .. batchMade
  BY <1>2 DEF BatchInv, Inside, BatchTypes
<1>4. /\ \A x \in left : x \notin cmd \union line
      /\ \A x \in buffer : x \notin cmd \union line
  BY PlacesApart DEF Inside
<1>5. Inside(batchCmd', batch'.buffer, batchLine') = buffer
  BY <1>1, EmptyPlace DEF Inside
<1>6. left \union buffer = (1 .. batchMade') \ batchLost' /\ batchLost' \subseteq 1 .. batchMade'
  <2> HIDE DEF left, cmd, buffer, line
  <2>1. batchLost' = batchLost \union cmd \union line
    BY <1>1 DEF cmd, line
  <2> QED
    BY <1>1, <1>3, <1>4, <2>1
<1>7. BatchTypes'
  BY <1>1, <1>2, <1>6 DEF BatchTypes
<1>8. BatchesInOrder(batchShipped', buffer)
  BY <1>1 DEF BatchInv, BatchesInOrder, Inside, Behind
<1>9. PlacesInOrder(batchCmd', batch'.buffer, batchLine')
  BY <1>1, <1>2, EmptyPlace DEF PlacesInOrder, Behind
<1>10. SizesFit(batchCmd', batch'.buffer)
  BY <1>1, BatchAssumption DEF BatchInv, SizesFit
<1>11. ClockRuns(batch', batchTimer', batchLine')
  BY <1>1 DEF BatchInv, ClockRuns
<1>12. \A p \in DOMAIN batchShipped' : Len(batchShipped'[p]) \in 1 .. BatchMax
  BY <1>1 DEF BatchInv
<1>13. LeftIn(batchShipped') = left
  BY <1>1
<1> HIDE DEF left, buffer
<1> QED
  BY <1>5, <1>6, <1>7, <1>8, <1>9, <1>10, <1>11, <1>12, <1>13 DEF BatchInv

\* Every step keeps the invariant.
LEMMA BatchStep == BatchInv /\ [BatchNext]_batchVars => BatchInv'
<1> SUFFICES ASSUME BatchInv, [BatchNext]_batchVars PROVE BatchInv'
  OBVIOUS
<1>1. CASE FoldBatchMsg
  <2>1. /\ batchLine # <<>> /\ batchCmd = <<>> /\ batchLine' = Tail(batchLine)
        /\ UNCHANGED <<batchShipped, batchLost, batchMade>>
        /\ IF Head(batchLine) = 0 THEN OnWindow ELSE AddItem(Head(batchLine))
    BY <1>1 DEF FoldBatchMsg, WindowExpired
  <2>2. Head(batchLine) \in Nat
    BY <2>1, HeadLeaves
  <2>3. CASE Head(batchLine) = 0
    BY <2>1, <2>3, ExpiryKeeps
  <2>4. CASE Head(batchLine) # 0
    <3>1. PICK item \in BatchItem : item = Head(batchLine)
      BY <2>2, <2>4 DEF BatchItem
    <3>2. AddItem(item)
      BY <2>1, <2>4, <3>1
    <3> QED
      BY <2>1, <3>1, <3>2, AddKeeps
  <2> QED
    BY <2>3, <2>4
<1>2. CASE ItemArrives
  BY <1>2, BatchArrivesKeeps
<1>3. CASE BatchRings
  BY <1>3, BatchRingsKeeps
<1>4. CASE Ship
  BY <1>4, ShipKeeps
<1>5. CASE BatchHostDown
  BY <1>5, HostDownKeeps
<1>6. CASE UNCHANGED batchVars
  BY <1>6 DEF batchVars, BatchInv, BatchTypes
<1> QED
  BY <1>1, <1>2, <1>3, <1>4, <1>5, <1>6 DEF BatchNext

\* The trail, of its places.
Placed(ss, cmd, buffer, line) == ss \o <<cmd, buffer, line>>

\* The trail is ordered as the places are, and holds what they hold.
LEMMA TrailPlaces ==
  ASSUME NEW ss \in Seq(Seq(Nat)), NEW cmd \in Seq(Nat), NEW buffer \in Seq(Nat),
         NEW line \in Seq(Nat), NEW trail, trail = Placed(ss, cmd, buffer, line),
         BatchesInOrder(ss, Inside(cmd, buffer, line)),
         PlacesInOrder(cmd, buffer, line)
  PROVE  /\ \A p, q \in DOMAIN trail : p < q => Behind(ToSet(trail[p]), ToSet(trail[q]))
         /\ \A p \in DOMAIN trail : Rising(trail[p])
         /\ LeftIn(trail)
              = LeftIn(ss) \union ToSet(cmd) \union ToSet(buffer) \union ToSet(line)
<1>1. PICK n \in Nat : n = Len(ss)
  OBVIOUS
<1> DEFINE tail == <<cmd, buffer, line>>
<1>2. /\ tail \in Seq(Seq(Nat)) /\ Len(tail) = 3
      /\ tail[1] = cmd /\ tail[2] = buffer /\ tail[3] = line
  OBVIOUS
<1> HIDE DEF tail
<1>3. /\ Len(trail) = n + 3 /\ trail \in Seq(Seq(Nat))
      /\ \A i \in 1 .. n + 3 : trail[i] = IF i <= n THEN ss[i] ELSE tail[i - n]
  <2>1. trail = ss \o tail
    BY DEF tail, Placed
  <2>2. /\ ss \o tail \in Seq(Seq(Nat)) /\ Len(ss \o tail) = Len(ss) + Len(tail)
        /\ \A i \in 1 .. Len(ss) + Len(tail) :
             (ss \o tail)[i] = IF i <= Len(ss) THEN ss[i] ELSE tail[i - Len(ss)]
    BY <1>2, ConcatProperties
  <2> QED
    BY <1>1, <1>2, <2>1, <2>2
<1>4. /\ DOMAIN trail = 1 .. n + 3 /\ DOMAIN ss = 1 .. n
      /\ \A i \in 1 .. n : trail[i] = ss[i]
      /\ trail[n + 1] = cmd /\ trail[n + 2] = buffer /\ trail[n + 3] = line
  <2>1. DOMAIN trail = 1 .. n + 3 /\ DOMAIN ss = 1 .. n
    BY <1>1, <1>3
  <2>2. \A i \in 1 .. n : i \in 1 .. n + 3 /\ i <= n
    OBVIOUS
  <2>3. /\ n + 1 \in 1 .. n + 3 /\ n + 2 \in 1 .. n + 3 /\ n + 3 \in 1 .. n + 3
        /\ ~(n + 1 <= n) /\ ~(n + 2 <= n) /\ ~(n + 3 <= n)
        /\ (n + 1) - n = 1 /\ (n + 2) - n = 2 /\ (n + 3) - n = 3
    OBVIOUS
  <2> QED
    BY <1>2, <1>3, <2>1, <2>2, <2>3
<1>5. \A i \in 1 .. n + 3 : i \in 1 .. n \/ i = n + 1 \/ i = n + 2 \/ i = n + 3
  OBVIOUS
<1>6. /\ \A i \in 1 .. n : i \in 1 .. n + 3
      /\ n + 1 \in 1 .. n + 3 /\ n + 2 \in 1 .. n + 3 /\ n + 3 \in 1 .. n + 3
  OBVIOUS
<1> DEFINE inside == Inside(cmd, buffer, line)
<1>7. /\ \A x \in ToSet(cmd) \union ToSet(buffer) : x \in inside \/ x = 0
      /\ \A x \in ToSet(line) : x \in inside \/ x = 0
  BY DEF Inside
<1> HIDE DEF inside
<1>8. ASSUME NEW p \in 1 .. n + 3, NEW q \in 1 .. n + 3, p < q
      PROVE  Behind(ToSet(trail[p]), ToSet(trail[q]))
  <2>1. CASE p \in 1 .. n /\ q \in 1 .. n
    BY <1>4, <1>8, <2>1 DEF BatchesInOrder
  <2>2. CASE p \in 1 .. n /\ q \notin 1 .. n
    <3>1. trail[q] \in {cmd, buffer, line}
      BY <1>4, <1>5, <2>2
    <3>2. \A x \in ToSet(trail[q]) : x \in inside \/ x = 0
      BY <1>7, <3>1
    <3>3. ToSet(trail[p]) \subseteq LeftIn(ss)
      BY <1>4, <2>2 DEF LeftIn
    <3>4. Behind(LeftIn(ss), inside)
      BY DEF BatchesInOrder, inside
    <3> QED
      BY <3>2, <3>3, <3>4 DEF Behind
  <2>3. CASE p = n + 1
    <3>1. q = n + 2 \/ q = n + 3
      BY <1>5, <1>8, <2>3
    <3> QED
      BY <1>4, <2>3, <3>1 DEF PlacesInOrder
  <2>4. CASE p = n + 2
    <3>1. q = n + 3
      BY <1>5, <1>8, <2>4
    <3> QED
      BY <1>4, <2>4, <3>1 DEF PlacesInOrder
  <2>5. p # n + 3
    BY <1>8
  <2> QED
    BY <1>5, <2>1, <2>2, <2>3, <2>4, <2>5
<1>9. ASSUME NEW p \in 1 .. n + 3 PROVE Rising(trail[p])
  BY <1>4, <1>5 DEF PlacesInOrder, BatchesInOrder
<1>10. LeftIn(trail)
         = LeftIn(ss) \union ToSet(cmd) \union ToSet(buffer) \union ToSet(line)
  <2>1. ASSUME NEW x \in LeftIn(trail)
        PROVE  x \in LeftIn(ss) \union ToSet(cmd) \union ToSet(buffer) \union ToSet(line)
    <3>1. PICK p \in 1 .. n + 3 : x \in ToSet(trail[p])
      BY <1>4 DEF LeftIn
    <3>2. CASE p \in 1 .. n
      BY <1>4, <3>1, <3>2 DEF LeftIn
    <3> QED
      BY <1>4, <1>5, <3>1, <3>2
  <2>2. ASSUME NEW x \in LeftIn(ss) PROVE x \in LeftIn(trail)
    <3>1. PICK p \in 1 .. n : x \in ToSet(ss[p])
      BY <1>4 DEF LeftIn
    <3>2. p \in DOMAIN trail /\ x \in ToSet(trail[p])
      BY <1>4, <1>6, <3>1
    <3> QED
      BY <3>2 DEF LeftIn
  <2>3. ToSet(cmd) \union ToSet(buffer) \union ToSet(line) \subseteq LeftIn(trail)
    <3>1. \A p \in DOMAIN trail : ToSet(trail[p]) \subseteq LeftIn(trail)
      BY DEF LeftIn
    <3> QED
      BY <1>4, <1>6, <3>1
  <2> QED
    BY <2>1, <2>2, <2>3
<1> QED
  BY <1>4, <1>8, <1>9, <1>10

\* What the invariant says of the trail.
LEMMA BatchesFit == BatchInv => BatchesAreExact
<1> SUFFICES ASSUME BatchInv PROVE BatchesAreExact
  OBVIOUS
<1>1. /\ batchShipped \in Seq(Seq(Nat)) /\ batchCmd \in Seq(Nat)
      /\ batch.buffer \in Seq(Nat) /\ batchLine \in Seq(Nat)
  BY DEF BatchInv, BatchTypes, BatchItem
<1>2. PICK trail : trail = Trail
  OBVIOUS
<1>3. trail = batchShipped \o <<batchCmd, batch.buffer, batchLine>>
  BY <1>2 DEF Trail
<1>4. /\ \A p, q \in DOMAIN trail : p < q => Behind(ToSet(trail[p]), ToSet(trail[q]))
      /\ \A p \in DOMAIN trail : Rising(trail[p])
      /\ LeftIn(trail) = LeftIn(batchShipped) \union ToSet(batchCmd)
                           \union ToSet(batch.buffer) \union ToSet(batchLine)
  <2>1. /\ BatchesInOrder(batchShipped, Inside(batchCmd, batch.buffer, batchLine))
        /\ PlacesInOrder(batchCmd, batch.buffer, batchLine)
    BY DEF BatchInv
  <2>2. PICK ss \in Seq(Seq(Nat)), cmd \in Seq(Nat), buffer \in Seq(Nat), line \in Seq(Nat) :
          /\ ss = batchShipped /\ cmd = batchCmd /\ buffer = batch.buffer
          /\ line = batchLine
    BY <1>1
  <2>3. /\ trail = Placed(ss, cmd, buffer, line)
        /\ BatchesInOrder(ss, Inside(cmd, buffer, line))
        /\ PlacesInOrder(cmd, buffer, line)
    BY <1>3, <2>1, <2>2 DEF Placed
  <2>4. /\ \A p, q \in DOMAIN trail : p < q => Behind(ToSet(trail[p]), ToSet(trail[q]))
        /\ \A p \in DOMAIN trail : Rising(trail[p])
        /\ LeftIn(trail)
             = LeftIn(ss) \union ToSet(cmd) \union ToSet(buffer) \union ToSet(line)
    BY <2>3, TrailPlaces
  <2> QED
    BY <2>2, <2>4
<1>5. ASSUME NEW p \in DOMAIN trail, NEW q \in DOMAIN trail,
             NEW i \in DOMAIN trail[p], NEW j \in DOMAIN trail[q],
             p < q \/ (p = q /\ i < j), 0 \notin {trail[p][i], trail[q][j]}
      PROVE  trail[p][i] < trail[q][j]
  <2>1. CASE p < q
    <3>1. trail[p][i] \in ToSet(trail[p]) /\ trail[q][j] \in ToSet(trail[q])
      BY DEF ToSet
    <3> QED
      BY <1>4, <1>5, <2>1, <3>1 DEF Behind
  <2>2. CASE p = q /\ i < j
    BY <1>4, <1>5, <2>2 DEF Rising
  <2> QED
    BY <1>5, <2>1, <2>2
<1>6. LeftIn(trail) \ {0} = (1 .. batchMade) \ batchLost
  <2>1. LeftIn(trail) \ {0}
          = (LeftIn(batchShipped) \union Inside(batchCmd, batch.buffer, batchLine)) \ {0}
    BY <1>4 DEF Inside
  <2>2. 0 \notin 1 .. batchMade
    BY DEF BatchInv, BatchTypes
  <2> QED
    BY <2>1, <2>2 DEF BatchInv
<1>7. /\ \A i \in DOMAIN batchShipped : Len(batchShipped[i]) \in 1 .. BatchMax
      /\ batch.buffer # <<>> => batchTimer.of = StampOf(Head(batch.buffer))
      /\ batch.buffer # <<>> /\ batchTimer.rung => 0 \in ToSet(batchLine)
  BY DEF BatchInv, ClockRuns
<1>8. \A p, q \in DOMAIN trail : \A i \in DOMAIN trail[p], j \in DOMAIN trail[q] :
        (p < q \/ (p = q /\ i < j)) /\ 0 \notin {trail[p][i], trail[q][j]}
        => trail[p][i] < trail[q][j]
  BY <1>5
<1>9. (UNION {ToSet(trail[p]) : p \in DOMAIN trail}) \ {0} = (1 .. batchMade) \ batchLost
  BY <1>6 DEF LeftIn
<1> QED
  BY <1>2, <1>7, <1>8, <1>9, Zenon DEF BatchesAreExact, WindowExpired

\* Every item leaves once, in order, in a batch of a fit size, unless it was
\* lost with the host, for any sizes, items and crashes.
THEOREM BatchesStayExact == BatchSpec => []BatchesAreExact
<1>1. BatchSpec => []BatchInv
  BY BatchStarts, BatchStep, PTL DEF BatchSpec
<1> QED
  BY <1>1, BatchesFit, PTL

-----------------------------------------------------------------------------
(* The intake.  A key has one item in the queue at most, and what the seen *)
(* cache says of the key bounds what that item may be (ItemFits); there is *)
(* a kick for each item a claim may reach.                                 *)

\* The ids handed out, and the items in the queue.
IntakeIds == IntakeKeys \X (1 .. accepted)
IntakeItems == ItemsOf(IntakeKeys \X Nat)

\* The types.
IntakeTypes ==
  /\ intakeAges \in BOOLEAN /\ accepted \in Nat /\ kicks \in Nat
  /\ seen \in [IntakeKeys -> {"absent", "pending", "done"}]
  /\ intakeQueue \in Seq(IntakeItems)
  /\ works \subseteq IntakeIds /\ completed \subseteq IntakeIds

\* An item of the queue: what its key, a worker and the completions make of it.
ItemFits(item) ==
  /\ item.id \in IntakeIds /\ item.status \in {"pending", "running"}
  /\ seen[ItemKey(item.id)] # "absent"
  /\ seen[ItemKey(item.id)] = "pending" =>
       item.id \notin completed /\ (item.status = "running" => item.id \in works)
  /\ seen[ItemKey(item.id)] = "done" => ~intakeAges

\* The invariant of the intake.
IntakeInv ==
  /\ IntakeTypes
  /\ OneEach(intakeQueue)
  /\ \A item \in ToSet(intakeQueue) : ItemFits(item)
  /\ \A item, other \in ToSet(intakeQueue) :
       ItemKey(item.id) = ItemKey(other.id) => item = other
  /\ \A id \in works : /\ seen[ItemKey(id)] = "pending"
                       /\ Item(id, "running") \in ToSet(intakeQueue)
  /\ \A k \in IntakeKeys : seen[k] = "pending" =>
       \E item \in ToSet(intakeQueue) : ItemKey(item.id) = k
  /\ kicks >= Cardinality(ToClaim(intakeQueue))

-----------------------------------------------------------------------------

\* The items of a queue are finitely many, and named by its ids.
LEMMA QueueItems ==
  ASSUME NEW X, NEW q \in Seq(ItemsOf(X))
  PROVE  /\ ToSet(q) \subseteq ItemsOf(X) /\ IsFiniteSet(ToSet(q))
         /\ Ids(q) = {item.id : item \in ToSet(q)}
<1>1. PICK n \in Nat : n = Len(q)
  OBVIOUS
<1>2. DOMAIN q = 1 .. n /\ \A i \in 1 .. n : q[i] \in ItemsOf(X)
  BY <1>1
<1>3. IsFiniteSet(ToSet(q))
  <2> DEFINE f == [i \in 1 .. n |-> q[i]]
  <2>1. ToSet(q) = {f[i] : i \in 1 .. n}
    BY <1>2 DEF ToSet
  <2>2. IsFiniteSet(1 .. n)
    BY FS_Interval
  <2>3. PICK g : g = f
    OBVIOUS
  <2>4. ToSet(q) = {g[i] : i \in 1 .. n}
    BY <2>1, <2>3
  <2>5. g \in [1 .. n -> ToSet(q)] /\ \A x \in ToSet(q) : \E i \in 1 .. n : g[i] = x
    BY <1>2, <2>3, <2>4
  <2>6. g \in Surjection(1 .. n, ToSet(q))
    BY <2>5 DEF Surjection
  <2> QED
    BY <2>2, <2>6, FS_Surjection
<1> QED
  BY <1>1, <1>2, <1>3 DEF ToSet, Ids

\* An item that is enqueued.
LEMMA ItemEnqueued ==
  ASSUME NEW X, NEW q \in Seq(ItemsOf(X)), OneEach(q), NEW id \in X, id \notin Ids(q),
         NEW p, p = Enqueue(q, id)
  PROVE  /\ p \in Seq(ItemsOf(X)) /\ OneEach(p)
         /\ ToSet(p) = ToSet(q) \union {Item(id, "pending")}
<1> DEFINE item == Item(id, "pending")
<1>1. item \in ItemsOf(X) /\ item.id = id
  BY DEF Item, ItemsOf, ItemStatus
<1>2. p = Append(q, item)
  BY DEF Enqueue
<1> HIDE DEF item
<1>3. PICK n \in Nat : n = Len(q)
  OBVIOUS
<1>4. /\ p \in Seq(ItemsOf(X)) /\ Len(p) = n + 1 /\ p[n + 1] = item
      /\ \A i \in 1 .. n : p[i] = q[i]
      /\ DOMAIN p = 1 .. n + 1 /\ DOMAIN q = 1 .. n
  BY <1>1, <1>2, <1>3
<1>5. /\ \A i \in 1 .. n + 1 : i = n + 1 \/ i \in 1 .. n
      /\ n + 1 \in 1 .. n + 1 /\ \A i \in 1 .. n : i \in 1 .. n + 1
  OBVIOUS
<1>6. ToSet(p) = ToSet(q) \union {item}
  BY <1>4, <1>5 DEF ToSet
<1>7. \A i \in 1 .. n : q[i].id # id
  BY <1>3 DEF Ids
<1>8. \A i, j \in 1 .. n + 1 : p[i].id = p[j].id => i = j
  BY <1>1, <1>3, <1>4, <1>5, <1>7 DEF OneEach
<1> QED
  BY <1>4, <1>6, <1>8 DEF OneEach, item

\* An item that gets another status.
LEMMA ItemRestatused ==
  ASSUME NEW X, NEW q \in Seq(ItemsOf(X)), OneEach(q), NEW k \in 1 .. Len(q),
         NEW status \in ItemStatus, NEW p, p = Restatus(q, k, status)
  PROVE  /\ p \in Seq(ItemsOf(X)) /\ OneEach(p)
         /\ ToSet(p) = (ToSet(q) \ {q[k]}) \union {Item(q[k].id, status)}
<1>1. /\ p \in Seq(ItemsOf(X)) /\ Len(p) = Len(q)
      /\ p[k] = Item(q[k].id, status)
      /\ \A i \in 1 .. Len(q) : i # k => p[i] = q[i]
  BY ItemPatched
<1>2. p[k].id = q[k].id
  BY <1>1 DEF Item
<1>3. \A i \in 1 .. Len(q) : p[i].id = q[i].id
  BY <1>1, <1>2
<1>4. OneEach(p)
  BY <1>1, <1>3 DEF OneEach
<1>5. DOMAIN q = 1 .. Len(q) /\ DOMAIN p = 1 .. Len(q)
  BY <1>1
<1>6. \A i \in 1 .. Len(q) : i # k => q[i] # q[k]
  BY DEF OneEach
<1>7. ToSet(p) = (ToSet(q) \ {q[k]}) \union {Item(q[k].id, status)}
  <2>1. ASSUME NEW i \in 1 .. Len(q)
        PROVE  p[i] \in (ToSet(q) \ {q[k]}) \union {Item(q[k].id, status)}
    BY <1>1, <1>5, <1>6 DEF ToSet
  <2>2. ASSUME NEW i \in 1 .. Len(q), q[i] # q[k] PROVE q[i] \in ToSet(p)
    BY <1>1, <1>5, <2>2 DEF ToSet
  <2>3. Item(q[k].id, status) \in ToSet(p)
    BY <1>1, <1>5 DEF ToSet
  <2> QED
    BY <1>5, <2>1, <2>2, <2>3 DEF ToSet
<1> QED
  BY <1>1, <1>4, <1>7

\* The items left when those of an id leave.
LEMMA ItemLeaves ==
  ASSUME NEW q \in Seq(IntakeItems), OneEach(q), NEW id,
         NEW p, p = MarkDone(q, id)
  PROVE  /\ p \in Seq(IntakeItems) /\ OneEach(p)
         /\ \A item : item \in ToSet(p) <=> item \in ToSet(q) /\ item.id # id
<1>1. p \in Seq(IntakeItems) /\ OneEach(p)
  BY OthersStay DEF IntakeItems
<1>2. DOMAIN q = 1 .. Len(q) /\ DOMAIN p = 1 .. Len(p)
  BY <1>1
<1>8. \A i \in 1 .. Len(p) : \E k \in 1 .. Len(q) : p[i] = q[k] /\ q[k].id # id
  BY OthersStay DEF IntakeItems
<1>7. \A k \in 1 .. Len(q) : q[k].id # id => \E i \in 1 .. Len(p) : p[i] = q[k]
  BY OthersStay DEF IntakeItems
<1>3. ASSUME NEW item \in ToSet(p) PROVE item \in ToSet(q) /\ item.id # id
  BY <1>8, <1>2 DEF ToSet
<1>4. ASSUME NEW item \in ToSet(q), item.id # id PROVE item \in ToSet(p)
  <2>1. PICK k \in 1 .. Len(q) : item = q[k]
    BY <1>2 DEF ToSet
  <2>2. PICK i \in 1 .. Len(p) : p[i] = q[k]
    BY <1>7, <1>4, <2>1
  <2> QED
    BY <1>2, <2>1, <2>2 DEF ToSet
<1> QED
  BY <1>1, <1>3, <1>4

-----------------------------------------------------------------------------

\* The invariant at the start.
LEMMA IntakeStarts == IntakeInit => IntakeInv
<1> SUFFICES ASSUME IntakeInit PROVE IntakeInv
  OBVIOUS
<1>1. /\ intakeAges \in BOOLEAN /\ intakeQueue = <<>> /\ kicks = 0 /\ works = {}
      /\ accepted = 0 /\ completed = {} /\ seen = [k \in IntakeKeys |-> "absent"]
  BY DEF IntakeInit
<1>2. ToSet(<<>>) = {} /\ OneEach(<<>>)
  BY DEF ToSet, OneEach
<1>3. ToClaim(intakeQueue) = {}
  BY <1>1, <1>2 DEF ToClaim
<1>4. IntakeTypes
  BY <1>1 DEF IntakeTypes
<1>5. Cardinality(ToClaim(intakeQueue)) = 0
  BY <1>3, FS_EmptySet
<1>6. ToSet(intakeQueue) = {} /\ OneEach(intakeQueue)
  BY <1>1, <1>2
<1>7. \A k \in IntakeKeys : seen[k] # "pending"
  BY <1>1
<1> QED
  BY <1>1, <1>4, <1>5, <1>6, <1>7 DEF IntakeInv

\* The facts the steps use.
LEMMA IntakeFacts ==
  ASSUME IntakeInv
  PROVE  /\ ToSet(intakeQueue) \subseteq IntakeItems /\ IsFiniteSet(ToSet(intakeQueue))
         /\ IsFiniteSet(ToClaim(intakeQueue))
         /\ ToClaim(intakeQueue) \subseteq ToSet(intakeQueue)
         /\ Cardinality(ToClaim(intakeQueue)) \in Nat
         /\ intakeQueue \in Seq(IntakeItems) /\ OneEach(intakeQueue)
         /\ \A item \in IntakeItems : /\ item.id \in IntakeKeys \X Nat
                                      /\ ItemKey(item.id) \in IntakeKeys
                                      /\ item = Item(item.id, item.status)
<1>1. intakeQueue \in Seq(IntakeItems) /\ OneEach(intakeQueue)
  BY DEF IntakeInv, IntakeTypes
<1>2. ToSet(intakeQueue) \subseteq IntakeItems /\ IsFiniteSet(ToSet(intakeQueue))
  BY <1>1, QueueItems DEF IntakeItems
<1>3. ToClaim(intakeQueue) \subseteq ToSet(intakeQueue)
  BY DEF ToClaim
<1>4. IsFiniteSet(ToClaim(intakeQueue)) /\ Cardinality(ToClaim(intakeQueue)) \in Nat
  BY <1>2, <1>3, FS_Subset, FS_CardinalityType
<1>5. \A item \in IntakeItems : /\ item.id \in IntakeKeys \X Nat
                                /\ ItemKey(item.id) \in IntakeKeys
                                /\ item = Item(item.id, item.status)
  BY DEF IntakeItems, ItemsOf, ItemKey, Item
<1> QED
  BY <1>1, <1>2, <1>3, <1>4, <1>5

\* A payload is accepted under a key that was never seen, or has aged out.
LEMMA AcceptKeeps ==
  ASSUME IntakeInv, NEW k \in IntakeKeys, Receive(k), ~UNCHANGED intakeVars
  PROVE  IntakeInv'
<1>1. PICK late \in {FALSE, intakeAges} :
        /\ LiveEntry(k, late) = "absent"
        /\ accepted' = accepted + 1
        /\ seen' = [seen EXCEPT ![k] = "pending"]
        /\ intakeQueue' = Enqueue(intakeQueue, <<k, accepted + 1>>)
        /\ kicks' = kicks + 1 /\ intakeAges' = intakeAges /\ works' = works
        /\ completed' = completed
  BY DEF Receive
<1> DEFINE Q == ToSet(intakeQueue)
           id == <<k, accepted + 1>>
<1>2. IntakeTypes
  BY DEF IntakeInv
<1>3. seen[k] = "absent" \/ (seen[k] = "done" /\ intakeAges)
  <2>1. intakeAges = TRUE \/ intakeAges = FALSE
    BY <1>2 DEF IntakeTypes
  <2>2. CASE intakeAges = TRUE
    BY <1>1, <2>2 DEF LiveEntry
  <2>3. CASE intakeAges = FALSE
    <3>1. late = FALSE
      BY <2>3
    <3> QED
      BY <1>1, <3>1 DEF LiveEntry
  <2> QED
    BY <2>1, <2>2, <2>3
<1>4. /\ Q \subseteq IntakeItems /\ IsFiniteSet(ToClaim(intakeQueue))
      /\ Cardinality(ToClaim(intakeQueue)) \in Nat
      /\ intakeQueue \in Seq(IntakeItems) /\ OneEach(intakeQueue)
      /\ \A item \in Q : ItemKey(item.id) \in IntakeKeys
  BY IntakeFacts
<1>5. \A item \in Q : ItemKey(item.id) # k
  BY <1>3 DEF IntakeInv, ItemFits
<1>6. id \in IntakeKeys \X Nat /\ ItemKey(id) = k /\ id \notin IntakeIds
  BY <1>2 DEF IntakeTypes, ItemKey, IntakeIds
<1>7. id \notin Ids(intakeQueue)
  <2>1. Ids(intakeQueue) = {item.id : item \in Q}
    BY <1>4, QueueItems DEF IntakeItems
  <2> QED
    BY <1>5, <1>6, <2>1
<1>8. /\ intakeQueue' \in Seq(IntakeItems) /\ OneEach(intakeQueue')
      /\ ToSet(intakeQueue') = Q \union {Item(id, "pending")}
  <2>1. PICK i \in IntakeKeys \X Nat : i = id
    BY <1>6
  <2>2. intakeQueue' = Enqueue(intakeQueue, i) /\ i \notin Ids(intakeQueue)
    BY <1>1, <1>7, <2>1
  <2>3. /\ intakeQueue' \in Seq(ItemsOf(IntakeKeys \X Nat)) /\ OneEach(intakeQueue')
        /\ ToSet(intakeQueue') = ToSet(intakeQueue) \union {Item(i, "pending")}
    BY <1>4, <2>2, ItemEnqueued DEF IntakeItems
  <2> QED
    BY <2>1, <2>3 DEF IntakeItems
<1> PICK id0 : id0 = id
  OBVIOUS
<1> PICK new : new = Item(id0, "pending")
  OBVIOUS
<1>9. new.id = id0 /\ new.status = "pending"
  BY DEF Item
<1>10. /\ IntakeIds \subseteq IntakeIds' /\ id \in IntakeIds'
       /\ seen' \in [IntakeKeys -> {"absent", "pending", "done"}]
       /\ seen'[k] = "pending" /\ \A o \in IntakeKeys : o # k => seen'[o] = seen[o]
       /\ accepted' \in Nat /\ kicks' \in Nat
  BY <1>1, <1>2 DEF IntakeTypes, IntakeIds
<1>17. ToSet(intakeQueue') = Q \union {new} /\ id0 \in IntakeIds' /\ id0 \notin IntakeIds
  BY <1>6, <1>8, <1>10
<1>18. ItemKey(id0) = k
  BY <1>6
<1> HIDE DEF id
<1>11. IntakeTypes'
  BY <1>1, <1>2, <1>8, <1>10 DEF IntakeTypes
<1>12. \A item \in ToSet(intakeQueue') : ItemFits(item)'
  <2>1. ASSUME NEW item \in Q PROVE ItemFits(item)'
    BY <1>1, <1>4, <1>5, <1>10, <2>1 DEF IntakeInv, ItemFits, ItemKey
  <2>2. ItemFits(new)'
    <3>1. id0 \notin completed' /\ seen'[ItemKey(new.id)] = "pending" /\ new.id \in IntakeIds'
      BY <1>1, <1>2, <1>9, <1>10, <1>17, <1>18 DEF IntakeTypes
    <3> QED
      BY <1>9, <3>1 DEF ItemFits
  <2> QED
    BY <1>17, <2>1, <2>2
<1>13. \A item, other \in ToSet(intakeQueue') :
         ItemKey(item.id) = ItemKey(other.id) => item = other
  BY <1>5, <1>18, <1>17, <1>9 DEF IntakeInv
<1>14. \A w \in works' : /\ seen'[ItemKey(w)] = "pending"
                        /\ Item(w, "running") \in ToSet(intakeQueue')
  <2> TAKE w \in works'
  <2>1. w \in works /\ seen[ItemKey(w)] = "pending" /\ Item(w, "running") \in Q
    BY <1>1 DEF IntakeInv
  <2>2. ItemKey(w) \in IntakeKeys
    BY <1>2, <2>1 DEF IntakeTypes, IntakeIds, ItemKey
  <2> QED
    BY <1>3, <1>8, <1>10, <2>1, <2>2
<1>15. \A o \in IntakeKeys : seen'[o] = "pending" =>
         \E item \in ToSet(intakeQueue') : ItemKey(item.id) = o
  BY <1>18, <1>17, <1>9, <1>10 DEF IntakeInv
<1>16. kicks' >= Cardinality(ToClaim(intakeQueue)')
  <2>1. ToClaim(intakeQueue)' \subseteq ToClaim(intakeQueue) \union {new}
    BY <1>4, <1>5, <1>17, <1>10 DEF ToClaim, MayClaim, AlreadyDone
  <2>2. IsFiniteSet(ToClaim(intakeQueue) \union {new})
    BY <1>4, FS_AddElement
  <2>3. Cardinality(ToClaim(intakeQueue) \union {new})
          <= Cardinality(ToClaim(intakeQueue)) + 1
    <3>1. PICK T : T = ToClaim(intakeQueue)
      OBVIOUS
    <3>2. IsFiniteSet(T) /\ Cardinality(T) \in Nat
      BY <1>4, <3>1
    <3>3. Cardinality(T \union {new}) = (IF new \in T THEN Cardinality(T) ELSE Cardinality(T) + 1)
      BY <3>2, FS_AddElement
    <3> QED
      BY <3>1, <3>2, <3>3
  <2>4. Cardinality(ToClaim(intakeQueue) \union {new}) \in Nat
    BY <2>2, FS_CardinalityType
  <2>5. /\ Cardinality(ToClaim(intakeQueue)') <= Cardinality(ToClaim(intakeQueue) \union {new})
        /\ Cardinality(ToClaim(intakeQueue)') \in Nat
    BY <2>1, <2>2, FS_Subset, FS_CardinalityType
  <2>6. kicks >= Cardinality(ToClaim(intakeQueue)) /\ kicks \in Nat
    BY <1>2 DEF IntakeInv, IntakeTypes
  <2> QED
    BY <1>1, <1>4, <2>3, <2>4, <2>5, <2>6
<1> QED
  BY <1>8, <1>11, <1>12, <1>13, <1>14, <1>15, <1>16 DEF IntakeInv

\* Fewer items to claim than kicks, once the kick that claimed one is spent.
LEMMA OneKickLess ==
  ASSUME NEW T, IsFiniteSet(T), NEW e \in T, NEW U, U \subseteq T \ {e},
         NEW n \in Nat, n >= Cardinality(T)
  PROVE  Cardinality(U) \in Nat /\ n - 1 >= Cardinality(U)
<1>1. Cardinality(T) \in Nat /\ Cardinality(T \ {e}) = Cardinality(T) - 1
  BY FS_RemoveElement, FS_CardinalityType
<1>2. IsFiniteSet(T \ {e}) /\ Cardinality(T \ {e}) \in Nat
  BY FS_Subset, FS_CardinalityType
<1>3. Cardinality(U) <= Cardinality(T \ {e}) /\ Cardinality(U) \in Nat
  BY <1>2, FS_Subset, FS_CardinalityType
<1> QED
  BY <1>1, <1>2, <1>3

\* As few items to claim as before, or fewer.
LEMMA NoMoreToClaim ==
  ASSUME NEW T, IsFiniteSet(T), NEW U, U \subseteq T, NEW n \in Nat, n >= Cardinality(T)
  PROVE  Cardinality(U) \in Nat /\ n >= Cardinality(U)
<1>1. Cardinality(T) \in Nat
  BY FS_CardinalityType
<1>2. Cardinality(U) <= Cardinality(T) /\ Cardinality(U) \in Nat
  BY FS_Subset, FS_CardinalityType
<1> QED
  BY <1>1, <1>2

\* The place a kick claims: there is none just when no item may be claimed.
LEMMA FirstToClaim ==
  ASSUME NEW q \in Seq(IntakeItems), NEW at, at = SelectInSeq(q, MayClaim)
  PROVE  \/ at = 0 /\ ToClaim(q) = {}
         \/ at # 0 /\ at \in 1 .. Len(q) /\ MayClaim(q[at])
<1> DEFINE T == {i \in 1 .. Len(q) : MayClaim(q[i])}
<1>1. at = IF T # {} THEN Min(T) ELSE 0
  BY DEF SelectInSeq
<1>2. Len(q) \in Nat /\ T \in SUBSET (1 .. Len(q))
  OBVIOUS
<1>3. \A i \in 1 .. Len(q) : i \in T <=> MayClaim(q[i])
  OBVIOUS
<1> HIDE DEF T
<1>4. CASE T = {}
  <2>1. \A i \in 1 .. Len(q) : ~MayClaim(q[i])
    BY <1>3, <1>4
  <2>2. DOMAIN q = 1 .. Len(q)
    OBVIOUS
  <2>3. ToClaim(q) = {}
    BY <2>1, <2>2 DEF ToClaim, ToSet
  <2> QED
    BY <1>1, <1>4, <2>3
<1>5. CASE T # {}
  <2>1. Min(T) \in T
    BY <1>2, <1>5, FirstPlace
  <2>2. PICK k \in 1 .. Len(q) : k = Min(T)
    BY <1>2, <2>1
  <2>3. at = k /\ k # 0 /\ MayClaim(q[k])
    BY <1>1, <1>2, <1>3, <1>5, <2>1, <2>2
  <2> QED
    BY <2>3
<1> QED
  BY <1>4, <1>5

\* A kick claims an item, or finds none that may be claimed.
LEMMA ClaimKeeps ==
  ASSUME IntakeInv, ClaimNext
  PROVE  IntakeInv'
<1> DEFINE Q == ToSet(intakeQueue)
<1>1. PICK at : at = SelectInSeq(intakeQueue, MayClaim)
  OBVIOUS
<1>2. /\ kicks > 0 /\ kicks' = kicks - 1 /\ intakeAges' = intakeAges
      /\ seen' = seen /\ accepted' = accepted /\ completed' = completed
      /\ IF at = 0 THEN intakeQueue' = intakeQueue /\ works' = works
         ELSE /\ intakeQueue' = Patch(intakeQueue, intakeQueue[at].id, "running")
              /\ works' = works \union {intakeQueue[at].id}
  BY <1>1 DEF ClaimNext
<1>3. /\ Q \subseteq IntakeItems /\ IsFiniteSet(ToClaim(intakeQueue))
      /\ ToClaim(intakeQueue) \subseteq Q /\ Cardinality(ToClaim(intakeQueue)) \in Nat
      /\ intakeQueue \in Seq(IntakeItems) /\ OneEach(intakeQueue)
      /\ \A item \in Q : ItemKey(item.id) \in IntakeKeys
  BY IntakeFacts
<1>4. IntakeTypes /\ kicks \in Nat /\ kicks' \in Nat
      /\ kicks >= Cardinality(ToClaim(intakeQueue))
  BY <1>2 DEF IntakeInv, IntakeTypes
<1>5. IntakeIds' = IntakeIds
  BY <1>2 DEF IntakeIds
<1>6. \/ at = 0 /\ ToClaim(intakeQueue) = {}
      \/ at # 0 /\ at \in 1 .. Len(intakeQueue) /\ MayClaim(intakeQueue[at])
  BY <1>1, <1>3, FirstToClaim
<1>7. CASE at = 0
  <2>1. intakeQueue' = intakeQueue /\ works' = works
    BY <1>2, <1>7
  <2>2. ToClaim(intakeQueue)' = {}
    BY <1>2, <1>6, <1>7, <2>1 DEF ToClaim, MayClaim, AlreadyDone
  <2>3. kicks' >= Cardinality(ToClaim(intakeQueue)')
    BY <1>4, <2>2, FS_EmptySet
  <2>4. IntakeTypes'
    BY <1>2, <1>4, <1>5, <2>1 DEF IntakeTypes
  <2>5. \A item \in ToSet(intakeQueue') : ItemFits(item)'
    BY <1>2, <1>5, <2>1 DEF IntakeInv, ItemFits
  <2> QED
    BY <1>2, <2>1, <2>3, <2>4, <2>5 DEF IntakeInv
<1>8. CASE at # 0
  <2>1. PICK k \in 1 .. Len(intakeQueue) : k = at
    BY <1>6, <1>8
  <2>2. PICK old \in Q : old = intakeQueue[k]
    BY <1>3 DEF ToSet
  <2>3. PICK id : id = old.id
    OBVIOUS
  <2>4. PICK new : new = Item(id, "running")
    OBVIOUS
  <2>5. new.id = id /\ new.status = "running"
    BY <2>4 DEF Item
  <2>6. /\ MayClaim(old) /\ works' = works \union {id}
        /\ intakeQueue' = Patch(intakeQueue, id, "running")
    BY <1>2, <1>6, <1>8, <2>1, <2>2, <2>3
  <2>7. intakeQueue' = Restatus(intakeQueue, k, "running")
    <3>1. "running" \in ItemStatus
      BY DEF ItemStatus
    <3>2. \/ intakeQueue' = intakeQueue /\ \A i \in 1 .. Len(intakeQueue) : intakeQueue[i].id # id
          \/ \E i \in 1 .. Len(intakeQueue) :
               /\ intakeQueue[i].id = id
               /\ intakeQueue' = Restatus(intakeQueue, i, "running")
      BY <1>3, <2>6, <3>1, PatchesFirst DEF IntakeItems
    <3>3. PICK i \in 1 .. Len(intakeQueue) :
            /\ intakeQueue[i].id = id
            /\ intakeQueue' = Restatus(intakeQueue, i, "running")
      BY <2>2, <2>3, <3>2
    <3>4. i = k
      BY <1>3, <2>2, <2>3, <3>3 DEF OneEach
    <3> QED
      BY <3>3, <3>4
  <2>8. /\ intakeQueue' \in Seq(IntakeItems) /\ OneEach(intakeQueue')
        /\ ToSet(intakeQueue') = (Q \ {old}) \union {new}
    <3>1. "running" \in ItemStatus
      BY DEF ItemStatus
    <3>2. /\ intakeQueue' \in Seq(ItemsOf(IntakeKeys \X Nat)) /\ OneEach(intakeQueue')
          /\ ToSet(intakeQueue')
               = (Q \ {intakeQueue[k]}) \union {Item(intakeQueue[k].id, "running")}
      BY <1>3, <2>7, <3>1, ItemRestatused DEF IntakeItems
    <3> QED
      BY <2>2, <2>3, <2>4, <3>2 DEF IntakeItems
  <2>9. /\ id \in IntakeIds /\ ItemKey(id) \in IntakeKeys
        /\ seen[ItemKey(id)] = "pending" /\ id \notin completed
        /\ old.status = "pending"
    <3>1. ItemFits(old) /\ seen[ItemKey(id)] # "done" /\ old.status = "pending"
      BY <2>3, <2>6 DEF IntakeInv, MayClaim, AlreadyDone
    <3>2. seen[ItemKey(id)] \in {"absent", "pending", "done"} /\ ItemKey(id) \in IntakeKeys
      BY <1>3, <1>4, <2>3 DEF IntakeTypes
    <3> QED
      BY <2>3, <3>1, <3>2 DEF ItemFits
  <2>10. \A item \in Q : item # old => ItemKey(item.id) # ItemKey(id)
    BY <2>3 DEF IntakeInv
  <2>11. IntakeTypes'
    BY <1>2, <1>4, <1>5, <2>6, <2>8, <2>9 DEF IntakeTypes
  <2>12. \A item \in ToSet(intakeQueue') : ItemFits(item)'
    <3>1. ASSUME NEW item \in Q PROVE ItemFits(item)'
      BY <1>2, <1>5, <2>6 DEF IntakeInv, ItemFits
    <3>2. ItemFits(new)'
      BY <1>2, <1>5, <2>5, <2>6, <2>9 DEF ItemFits
    <3> QED
      BY <2>8, <3>1, <3>2
  <2>13. \A item, other \in ToSet(intakeQueue') :
           ItemKey(item.id) = ItemKey(other.id) => item = other
    BY <2>5, <2>8, <2>10 DEF IntakeInv
  <2>14. \A w \in works' : /\ seen'[ItemKey(w)] = "pending"
                           /\ Item(w, "running") \in ToSet(intakeQueue')
    <3>1. ASSUME NEW w \in works
          PROVE  seen'[ItemKey(w)] = "pending" /\ Item(w, "running") \in ToSet(intakeQueue')
      <4>1. seen[ItemKey(w)] = "pending" /\ Item(w, "running") \in Q
        BY DEF IntakeInv
      <4>2. Item(w, "running").status = "running"
        BY DEF Item
      <4>3. Item(w, "running") # old
        BY <2>9, <4>2
      <4> QED
        BY <1>2, <2>8, <4>1, <4>3
    <3>2. seen'[ItemKey(id)] = "pending" /\ Item(id, "running") \in ToSet(intakeQueue')
      BY <1>2, <2>4, <2>8, <2>9
    <3> QED
      BY <2>6, <3>1, <3>2
  <2>15. \A o \in IntakeKeys : seen'[o] = "pending" =>
           \E item \in ToSet(intakeQueue') : ItemKey(item.id) = o
    <3> SUFFICES ASSUME NEW o \in IntakeKeys, seen'[o] = "pending"
                 PROVE  \E item \in ToSet(intakeQueue') : ItemKey(item.id) = o
      OBVIOUS
    <3>1. PICK item \in Q : ItemKey(item.id) = o
      BY <1>2 DEF IntakeInv
    <3>2. CASE item = old
      BY <2>3, <2>5, <2>8, <3>1, <3>2
    <3>3. CASE item # old
      BY <2>8, <3>1, <3>3
    <3> QED
      BY <3>2, <3>3
  <2>16. kicks' >= Cardinality(ToClaim(intakeQueue)')
    <3>1. PICK T : T = ToClaim(intakeQueue)
      OBVIOUS
    <3>2. old \in T
      BY <2>6, <3>1 DEF ToClaim
    <3>3. ToClaim(intakeQueue)' \subseteq T \ {old}
      BY <1>2, <2>5, <2>8, <2>9, <3>1 DEF ToClaim, MayClaim, AlreadyDone
    <3>4. IsFiniteSet(T) /\ kicks >= Cardinality(T)
      BY <1>3, <1>4, <3>1
    <3>5. PICK U : U = ToClaim(intakeQueue)'
      OBVIOUS
    <3>6. U \subseteq T \ {old}
      BY <3>3, <3>5
    <3>7. kicks - 1 >= Cardinality(U)
      BY <1>4, <3>2, <3>4, <3>6, OneKickLess
    <3> QED
      BY <1>2, <3>5, <3>7
  <2> QED
    BY <2>8, <2>11, <2>12, <2>13, <2>14, <2>15, <2>16 DEF IntakeInv
<1> QED
  BY <1>7, <1>8

\* An item may be claimed no more by a step that leaves no other item, and no
\* other key not done.
LEMMA FewerToClaim ==
  ASSUME IntakeInv, kicks' = kicks, intakeQueue' \in Seq(IntakeItems),
         \A item \in ToSet(intakeQueue') : item \in ToSet(intakeQueue),
         \A k \in IntakeKeys : seen[k] = "done" => seen'[k] = "done"
  PROVE  kicks' >= Cardinality(ToClaim(intakeQueue)')
<1>1. /\ IsFiniteSet(ToClaim(intakeQueue)) /\ ToSet(intakeQueue) \subseteq IntakeItems
      /\ \A item \in ToSet(intakeQueue) : ItemKey(item.id) \in IntakeKeys
  BY IntakeFacts
<1>2. kicks \in Nat /\ kicks >= Cardinality(ToClaim(intakeQueue))
  BY DEF IntakeInv, IntakeTypes
<1>3. ToClaim(intakeQueue)' \subseteq ToClaim(intakeQueue)
  BY <1>1 DEF ToClaim, MayClaim, AlreadyDone
<1>4. PICK T : T = ToClaim(intakeQueue)
  OBVIOUS
<1>5. PICK U : U = ToClaim(intakeQueue)'
  OBVIOUS
<1>6. kicks >= Cardinality(U)
  BY <1>1, <1>2, <1>3, <1>4, <1>5, NoMoreToClaim
<1> QED
  BY <1>5, <1>6

\* A worker's answer is folded.
LEMMA CompleteKeeps ==
  ASSUME IntakeInv, NEW id, CompleteItem(id)
  PROVE  IntakeInv'
<1> DEFINE Q == ToSet(intakeQueue)
<1>1. /\ id \in works /\ works' = works \ {id} /\ completed' = completed \union {id}
      /\ seen' = [seen EXCEPT ![ItemKey(id)] = "done"]
      /\ intakeAges' = intakeAges /\ kicks' = kicks /\ accepted' = accepted
  BY DEF CompleteItem
<1>2. intakeQueue' = IF intakeAges THEN MarkDone(intakeQueue, id) ELSE intakeQueue
  BY DEF CompleteItem
<1>3. /\ Q \subseteq IntakeItems /\ intakeQueue \in Seq(IntakeItems) /\ OneEach(intakeQueue)
      /\ \A item \in Q : ItemKey(item.id) \in IntakeKeys
  BY IntakeFacts
<1>4. IntakeTypes
  BY DEF IntakeInv
<1>5. IntakeIds' = IntakeIds /\ id \in IntakeIds
  BY <1>1, <1>4 DEF IntakeIds, IntakeTypes
<1>6. PICK k \in IntakeKeys : k = ItemKey(id)
  BY <1>5 DEF IntakeIds, ItemKey
<1>7. /\ seen' \in [IntakeKeys -> {"absent", "pending", "done"}] /\ seen'[k] = "done"
      /\ \A o \in IntakeKeys : o # k => seen'[o] = seen[o]
  BY <1>1, <1>4, <1>6 DEF IntakeTypes
<1>8. PICK old \in Q : old = Item(id, "running")
  BY <1>1 DEF IntakeInv
<1>9. old.id = id /\ \A item \in Q : ItemKey(item.id) = k => item = old
  <2>1. old.id = id
    BY <1>8 DEF Item
  <2> QED
    BY <1>6, <2>1 DEF IntakeInv
<1>10. /\ intakeQueue' \in Seq(IntakeItems) /\ OneEach(intakeQueue')
       /\ \A item \in ToSet(intakeQueue') : item \in Q
       /\ \A item \in Q : ItemKey(item.id) # k => item \in ToSet(intakeQueue')
       /\ intakeAges => \A item \in ToSet(intakeQueue') : ItemKey(item.id) # k
  <2>1. CASE intakeAges
    <3>1. PICK p : p = MarkDone(intakeQueue, id)
      OBVIOUS
    <3>2. /\ p \in Seq(IntakeItems) /\ OneEach(p)
          /\ \A item : item \in ToSet(p) <=> item \in Q /\ item.id # id
      BY <1>3, <3>1, ItemLeaves
    <3>3. intakeQueue' = p
      BY <1>2, <2>1, <3>1
    <3>4. \A item \in Q : ItemKey(item.id) # k <=> item.id # id
      BY <1>6, <1>9
    <3> QED
      BY <3>2, <3>3, <3>4
  <2>2. CASE ~intakeAges
    BY <1>2, <1>3, <2>2
  <2> QED
    BY <2>1, <2>2
<1>11. IntakeTypes'
  BY <1>1, <1>4, <1>5, <1>7, <1>10 DEF IntakeTypes
<1>12. \A item \in ToSet(intakeQueue') : ItemFits(item)'
  <2> SUFFICES ASSUME NEW item \in ToSet(intakeQueue') PROVE ItemFits(item)'
    OBVIOUS
  <2>1. item \in Q /\ ItemFits(item) /\ ItemKey(item.id) \in IntakeKeys
    BY <1>3, <1>10 DEF IntakeInv
  <2>2. CASE ItemKey(item.id) = k
    <3>1. ~intakeAges' /\ seen'[ItemKey(item.id)] = "done"
      BY <1>1, <1>7, <1>10, <2>2
    <3> QED
      BY <1>5, <2>1, <3>1 DEF ItemFits
  <2>3. CASE ItemKey(item.id) # k
    <3>1. seen'[ItemKey(item.id)] = seen[ItemKey(item.id)] /\ item.id # id
      BY <1>6, <1>7, <2>1, <2>3
    <3> QED
      BY <1>1, <1>5, <2>1, <3>1 DEF ItemFits
  <2> QED
    BY <2>2, <2>3
<1>13. \A item, other \in ToSet(intakeQueue') :
         ItemKey(item.id) = ItemKey(other.id) => item = other
  BY <1>10 DEF IntakeInv
<1>14. \A w \in works' : /\ seen'[ItemKey(w)] = "pending"
                         /\ Item(w, "running") \in ToSet(intakeQueue')
  <2> TAKE w \in works'
  <2>1. PICK item \in Q : item = Item(w, "running")
    BY <1>1 DEF IntakeInv
  <2>2. item.id = w /\ w # id /\ seen[ItemKey(w)] = "pending"
    BY <1>1, <2>1 DEF IntakeInv, Item
  <2>3. ItemKey(w) # k /\ ItemKey(w) \in IntakeKeys
    BY <1>3, <1>9, <2>2
  <2> QED
    BY <1>7, <1>10, <2>1, <2>2, <2>3
<1>15. \A o \in IntakeKeys : seen'[o] = "pending" =>
         \E item \in ToSet(intakeQueue') : ItemKey(item.id) = o
  BY <1>7, <1>10 DEF IntakeInv
<1>16. kicks' >= Cardinality(ToClaim(intakeQueue)')
  BY <1>1, <1>7, <1>10, FewerToClaim
<1> QED
  BY <1>10, <1>11, <1>12, <1>13, <1>14, <1>15, <1>16 DEF IntakeInv

\* A host whose keys stay clears an item it completed.
LEMMA IntakeClearKeeps ==
  ASSUME IntakeInv, NEW id, Clear(id)
  PROVE  IntakeInv'
<1> DEFINE Q == ToSet(intakeQueue)
<1>1. /\ intakeQueue' = MarkDone(intakeQueue, id) /\ seen[ItemKey(id)] = "done"
      /\ intakeAges' = intakeAges /\ kicks' = kicks /\ accepted' = accepted
      /\ seen' = seen /\ works' = works /\ completed' = completed
  BY DEF Clear, AlreadyDone
<1>2. /\ Q \subseteq IntakeItems /\ intakeQueue \in Seq(IntakeItems) /\ OneEach(intakeQueue)
  BY IntakeFacts
<1>3. /\ intakeQueue' \in Seq(IntakeItems) /\ OneEach(intakeQueue')
      /\ \A item : item \in ToSet(intakeQueue') <=> item \in Q /\ item.id # id
  <2>1. PICK p : p = MarkDone(intakeQueue, id)
    OBVIOUS
  <2>2. /\ p \in Seq(IntakeItems) /\ OneEach(p)
        /\ \A item : item \in ToSet(p) <=> item \in Q /\ item.id # id
    BY <1>2, <2>1, ItemLeaves
  <2> QED
    BY <1>1, <2>1, <2>2
<1>4. IntakeIds' = IntakeIds
  BY <1>1 DEF IntakeIds
<1>5. IntakeTypes'
  BY <1>1, <1>3, <1>4 DEF IntakeInv, IntakeTypes
<1>6. \A item \in ToSet(intakeQueue') : ItemFits(item)'
  BY <1>1, <1>3, <1>4 DEF IntakeInv, ItemFits
<1>7. \A w \in works' : /\ seen'[ItemKey(w)] = "pending"
                        /\ Item(w, "running") \in ToSet(intakeQueue')
  <2> TAKE w \in works'
  <2>1. seen[ItemKey(w)] = "pending" /\ Item(w, "running") \in Q
    BY <1>1 DEF IntakeInv
  <2>2. Item(w, "running").id = w /\ w # id
    BY <1>1, <2>1 DEF Item
  <2> QED
    BY <1>1, <1>3, <2>1, <2>2
<1>8. \A o \in IntakeKeys : seen'[o] = "pending" =>
        \E item \in ToSet(intakeQueue') : ItemKey(item.id) = o
  <2> SUFFICES ASSUME NEW o \in IntakeKeys, seen'[o] = "pending"
               PROVE  \E item \in ToSet(intakeQueue') : ItemKey(item.id) = o
    OBVIOUS
  <2>1. PICK item \in Q : ItemKey(item.id) = o
    BY <1>1 DEF IntakeInv
  <2>2. item.id # id
    BY <1>1, <2>1
  <2> QED
    BY <1>3, <2>1, <2>2
<1>9. kicks' >= Cardinality(ToClaim(intakeQueue)')
  BY <1>1, <1>3, FewerToClaim
<1>10. \A item, other \in ToSet(intakeQueue') :
         ItemKey(item.id) = ItemKey(other.id) => item = other
  BY <1>3 DEF IntakeInv
<1> QED
  BY <1>3, <1>5, <1>6, <1>7, <1>8, <1>9, <1>10 DEF IntakeInv

\* The host goes down, and boots what was durable.
LEMMA BootKeeps ==
  ASSUME IntakeInv, GoDownAndBoot
  PROVE  IntakeInv'
<1> DEFINE Q == ToSet(intakeQueue)
<1>1. /\ works' = {} /\ kicks' = Cardinality(ToClaim(intakeQueue'))
      /\ intakeQueue' = [i \in DOMAIN intakeQueue |-> Rearmed(intakeQueue[i])]
      /\ intakeAges' = intakeAges /\ seen' = seen /\ accepted' = accepted
      /\ completed' = completed
  BY DEF GoDownAndBoot
<1>2. /\ Q \subseteq IntakeItems /\ intakeQueue \in Seq(IntakeItems) /\ OneEach(intakeQueue)
  BY IntakeFacts
<1>3. IntakeIds' = IntakeIds
  BY <1>1 DEF IntakeIds
<1>4. \A item \in IntakeItems : /\ Rearmed(item) \in IntakeItems
                                /\ Rearmed(item).id = item.id
                                /\ \/ Rearmed(item).status = "pending"
                                   \/ /\ Rearmed(item) = item
                                      /\ item.status = "running" => AlreadyDone(item.id)
                                /\ Rearmed(item).status \in {"pending", item.status}
  BY DEF Rearmed, IntakeItems, ItemsOf, ItemStatus, Item
<1>5. PICK n \in Nat : n = Len(intakeQueue)
  BY <1>2
<1>6. DOMAIN intakeQueue = 1 .. n /\ \A i \in 1 .. n : intakeQueue[i] \in IntakeItems
  BY <1>2, <1>5
<1>7. /\ intakeQueue' \in Seq(IntakeItems) /\ Len(intakeQueue') = n
      /\ DOMAIN intakeQueue' = 1 .. n
      /\ \A i \in 1 .. n : intakeQueue'[i] = Rearmed(intakeQueue[i])
  BY <1>1, <1>4, <1>6
<1>8. OneEach(intakeQueue')
  BY <1>2, <1>4, <1>5, <1>6, <1>7 DEF OneEach
<1>9. /\ \A item \in Q : Rearmed(item) \in ToSet(intakeQueue')
      /\ \A item \in ToSet(intakeQueue') : \E old \in Q : item = Rearmed(old)
  BY <1>6, <1>7 DEF ToSet
<1>10. kicks' \in Nat /\ kicks' = Cardinality(ToClaim(intakeQueue)')
  <2>1. IsFiniteSet(ToSet(intakeQueue'))
    BY <1>7, QueueItems DEF IntakeItems
  <2>2. ToClaim(intakeQueue') \subseteq ToSet(intakeQueue')
    BY DEF ToClaim
  <2>3. Cardinality(ToClaim(intakeQueue')) \in Nat
    BY <2>1, <2>2, FS_Subset, FS_CardinalityType
  <2>4. ToClaim(intakeQueue)' = ToClaim(intakeQueue')
    BY <1>1 DEF ToClaim, MayClaim, AlreadyDone
  <2> QED
    BY <1>1, <2>3, <2>4
<1>11. IntakeTypes'
  BY <1>1, <1>3, <1>7, <1>10 DEF IntakeInv, IntakeTypes
<1>12. \A item \in ToSet(intakeQueue') : ItemFits(item)'
  <2> SUFFICES ASSUME NEW item \in ToSet(intakeQueue') PROVE ItemFits(item)'
    OBVIOUS
  <2>1. PICK old \in Q : item = Rearmed(old)
    BY <1>9
  <2>2. ItemFits(old)
    BY DEF IntakeInv
  <2>3. /\ item.id = old.id /\ item.status \in {"pending", "running"}
        /\ item.status = "running" => seen[ItemKey(old.id)] = "done"
    BY <1>2, <1>4, <2>1, <2>2 DEF AlreadyDone, ItemFits
  <2> QED
    BY <1>1, <1>3, <2>2, <2>3 DEF ItemFits
<1>13. \A item, other \in ToSet(intakeQueue') :
         ItemKey(item.id) = ItemKey(other.id) => item = other
  BY <1>2, <1>4, <1>9 DEF IntakeInv
<1>14. \A o \in IntakeKeys : seen'[o] = "pending" =>
         \E item \in ToSet(intakeQueue') : ItemKey(item.id) = o
  <2> SUFFICES ASSUME NEW o \in IntakeKeys, seen'[o] = "pending"
               PROVE  \E item \in ToSet(intakeQueue') : ItemKey(item.id) = o
    OBVIOUS
  <2>1. PICK item \in Q : ItemKey(item.id) = o
    BY <1>1 DEF IntakeInv
  <2> QED
    BY <1>2, <1>4, <1>9, <2>1
<1>15. kicks' >= Cardinality(ToClaim(intakeQueue)')
  BY <1>10
<1> QED
  BY <1>1, <1>8, <1>11, <1>12, <1>13, <1>14, <1>15 DEF IntakeInv

-----------------------------------------------------------------------------

\* Every step keeps the invariant.
LEMMA IntakeStep == IntakeInv /\ [IntakeNext]_intakeVars => IntakeInv'
<1> SUFFICES ASSUME IntakeInv, [IntakeNext]_intakeVars PROVE IntakeInv'
  OBVIOUS
<1>1. CASE UNCHANGED intakeVars
  BY <1>1 DEF intakeVars, IntakeInv, IntakeTypes, IntakeIds, IntakeItems, ItemFits,
              ToClaim, MayClaim, AlreadyDone
<1>2. ASSUME NEW k \in IntakeKeys, Receive(k) PROVE IntakeInv'
  BY <1>1, <1>2, AcceptKeeps
<1>3. CASE ClaimNext
  BY <1>3, ClaimKeeps
<1>4. CASE GoDownAndBoot
  BY <1>4, BootKeeps
<1>5. ASSUME NEW id, CompleteItem(id) PROVE IntakeInv'
  BY <1>5, CompleteKeeps
<1>6. ASSUME NEW id, Clear(id) PROVE IntakeInv'
  BY <1>6, IntakeClearKeeps
<1> QED
  BY <1>1, <1>2, <1>3, <1>4, <1>5, <1>6 DEF IntakeNext

\* What the invariant says of the work: it is done once.
LEMMA IntakeInvDone == IntakeInv => WorkIsDoneOnce
<1> SUFFICES ASSUME IntakeInv PROVE WorkIsDoneOnce
  OBVIOUS
<1> DEFINE Q == ToSet(intakeQueue)
<1>1. \A w \in works : /\ w \notin completed /\ seen[ItemKey(w)] = "pending"
                       /\ Item(w, "running") \in Q
  <2> TAKE w \in works
  <2>1. PICK item \in Q : item = Item(w, "running")
    BY DEF IntakeInv
  <2>2. item.id = w /\ ItemFits(item) /\ seen[ItemKey(w)] = "pending"
    BY <2>1 DEF IntakeInv, Item
  <2> QED
    BY <2>1, <2>2 DEF ItemFits
<1>2. \A w, other \in works : ItemKey(w) = ItemKey(other) => w = other
  <2> SUFFICES ASSUME NEW w \in works, NEW other \in works, ItemKey(w) = ItemKey(other)
               PROVE  w = other
    OBVIOUS
  <2>1. Item(w, "running").id = w /\ Item(other, "running").id = other
    BY DEF Item
  <2>2. PICK a \in Q, b \in Q : a = Item(w, "running") /\ b = Item(other, "running")
    BY <1>1
  <2>3. a = b
    BY <2>1, <2>2 DEF IntakeInv
  <2> QED
    BY <2>1, <2>2, <2>3
<1>3. ASSUME NEW k \in IntakeKeys, seen[k] = "pending"
      PROVE  \/ \E id \in works : ItemKey(id) = k
             \/ /\ \E item \in ToClaim(intakeQueue) : ItemKey(item.id) = k
                /\ kicks >= Cardinality(ToClaim(intakeQueue))
  <2>1. PICK item \in Q : ItemKey(item.id) = k
    BY <1>3 DEF IntakeInv
  <2>2. /\ item.status \in {"pending", "running"}
        /\ item.status = "running" => item.id \in works
    BY <1>3, <2>1 DEF IntakeInv, ItemFits
  <2>3. CASE item.status = "running"
    BY <2>1, <2>2, <2>3
  <2>4. CASE item.status = "pending"
    <3>1. item \in ToClaim(intakeQueue)
      BY <1>3, <2>1, <2>4 DEF ToClaim, MayClaim, AlreadyDone
    <3>2. kicks >= Cardinality(ToClaim(intakeQueue))
      BY DEF IntakeInv
    <3> QED
      BY <2>1, <3>1, <3>2
  <2> QED
    BY <2>2, <2>3, <2>4
<1> QED
  BY <1>1, <1>2, <1>3 DEF WorkIsDoneOnce

\* The work of a payload is done once: whatever duplicates arrive, however
\* late, and wherever the host goes down (claimNext, complete, boot).
THEOREM WorkStaysDoneOnce == IntakeSpec => []WorkIsDoneOnce
<1>1. IntakeSpec => []IntakeInv
  BY IntakeStarts, IntakeStep, PTL DEF IntakeSpec
<1> QED
  BY <1>1, IntakeInvDone, PTL

-----------------------------------------------------------------------------
(* The durable workflow.  What the ledger owes fits the steps: an activity *)
(* under the id that is its number, then the undos, the later steps first  *)
(* (OwesFit).  Memory is at most one result ahead of the durable model,    *)
(* the fold of all that landed: the result whose append is under way.      *)
(* What is performed is owed by the durable model, and so is what a        *)
(* caller has yet to perform, whether the snapshot that is due has been    *)
(* put by then or not (WfInv).                                             *)

\* One caller of the grain at a time.
OneCaller == \E c : WfCallers = {c}

WfStatuses == {"running", "compensating", "completed", "failed",
               "failed_compensated", "compensation_failed"}
WfResults == [side : {"do", "undo"}, ok : BOOLEAN, id : Nat]
WfEvents == [type : {"effect_owed", "effect_confirmed"}, id : Nat,
             what : {"none", "do", "undo"} \X Nat]
WfModels == [wf : [status : WfStatuses, completed : Nat, undone : Seq(Nat),
                   index : Nat, id : Nat],
             ledger : Seq(WfEvents), counter : Nat]

\* Of a set of ledger events, those that owe; and what they ask to be performed.
WfOwing(L) == {e \in L : e.type = "effect_owed"}
Asked(L) == {[id |-> e.id, what |-> e.what] : e \in WfOwing(L)}

\* The completed steps that can be undone.
UndoableOf(plan, did) == {i \in 1 .. did : plan[i]}

\* What the events of a ledger owe, when completed steps are and those in U are
\* undone: activities under their numbers, then undos, the later steps first.
IsDo(e, did) == e.what = <<"do", e.id>> /\ e.id <= did + 1
IsUndo(e, plan, did, U) ==
  /\ e.what[1] = "undo" /\ e.what = <<"undo", e.what[2]>>
  /\ e.id > did + 1
  /\ e.what[2] \in UndoableOf(plan, did)
  /\ \A i \in UndoableOf(plan, did) : i > e.what[2] => i \in U

OwesFit(plan, did, U, L) ==
  /\ \A e \in WfOwing(L) : IsDo(e, did) \/ IsUndo(e, plan, did, U)
  /\ \A d, e \in WfOwing(L) :
       d.what[1] = "undo" /\ e.what[1] = "undo" =>
         /\ d.id < e.id => d.what[2] > e.what[2]
         /\ d.id = e.id => d.what[2] = e.what[2]

\* How far the workflow is, by its status.
StageFits(plan, status, did, U, index, L, n) ==
  /\ did <= Len(plan)
  /\ status = "running" =>
       /\ n = did + 1 /\ index = n /\ did < Len(plan) /\ U = {}
       /\ \A e \in WfOwing(L) : IsDo(e, did)
  /\ status = "compensating" =>
       /\ n > did + 1
       /\ index \in UndoableOf(plan, did)
       /\ U = {i \in UndoableOf(plan, did) : i > index}
       /\ \A e \in WfOwing(L) : e.what[1] = "undo" => e.what[2] >= index
  /\ status = "failed_compensated" => U = UndoableOf(plan, did)

\* The ids go up to the counter, which is that of the effect in flight.
IdsFit(id, L, n) ==
  /\ id = n /\ n >= 1
  /\ \A e \in L : e.id \in 1 .. n
  /\ \E e \in L : e.id = n

WfFits(plan, m) ==
  /\ m \in WfModels
  /\ OwesFit(plan, m.wf.completed, ToSet(m.wf.undone), ToSet(m.ledger))
  /\ StageFits(plan, m.wf.status, m.wf.completed, ToSet(m.wf.undone), m.wf.index,
               ToSet(m.ledger), m.counter)
  /\ IdsFit(m.wf.id, ToSet(m.ledger), m.counter)

-----------------------------------------------------------------------------
\* What a sequence holds once an element is added to it.
LEMMA Appended ==
  ASSUME NEW S, NEW s \in Seq(S), NEW x \in S
  PROVE  Append(s, x) \in Seq(S) /\ ToSet(Append(s, x)) = ToSet(s) \union {x}
<1>1. Append(s, x) \in Seq(S) /\ Len(Append(s, x)) = Len(s) + 1
  OBVIOUS
<1>2. \A i \in 1 .. Len(s) : Append(s, x)[i] = s[i]
  OBVIOUS
<1>3. Append(s, x)[Len(s) + 1] = x
  OBVIOUS
<1>4. DOMAIN s = 1 .. Len(s) /\ DOMAIN Append(s, x) = 1 .. (Len(s) + 1)
  BY <1>1
<1> QED
  BY <1>1, <1>2, <1>3, <1>4 DEF ToSet

\* The step to undo is the last one below that can be undone, if there is one.
LEMMA NextUndoFits ==
  ASSUME NEW plan, NEW below \in Nat, below > 0
  PROVE  /\ NextUndo(plan, below) \in Nat
         /\ NextUndo(plan, below) = 0 => \A j \in 1 .. below - 1 : ~plan[j]
         /\ NextUndo(plan, below) # 0 =>
              /\ NextUndo(plan, below) \in 1 .. below - 1
              /\ plan[NextUndo(plan, below)]
              /\ \A j \in 1 .. below - 1 : plan[j] => j <= NextUndo(plan, below)
<1> DEFINE T == {i \in 1 .. below - 1 : plan[i]} \union {0}
           U == {k \in 0 .. below : below - k \in T}
<1>1. U \subseteq Nat /\ \A t \in T : below - t \in U
  <2>1. \A t \in T : t \in 0 .. below /\ below - t \in 0 .. below /\ below - (below - t) = t
    OBVIOUS
  <2> QED
    BY <2>1
<1>2. U # {}
  BY <1>1
<1> HIDE DEF U
<1>3. PICK x \in U : \A y \in U : x <= y
  BY <1>1, <1>2, NatLeast
<1>4. below - x \in T /\ \A t \in T : below - x >= t
  <2>1. below - x \in T /\ x \in 0 .. below
    BY DEF U
  <2>2. \A t \in T : x <= below - t /\ t \in 0 .. below
    BY <1>1, <1>3
  <2> QED
    BY <2>1, <2>2
<1>5. NextUndo(plan, below) = CHOOSE y \in T : \A t \in T : y >= t
  BY DEF NextUndo, Max
<1>6. NextUndo(plan, below) \in T /\ \A t \in T : NextUndo(plan, below) >= t
  BY <1>4, <1>5
<1> QED
  BY <1>6

\* A recorder that counts on from the ledger counts on from where it was.
LEMMA RehydrateFits ==
  ASSUME NEW plan, NEW m, WfFits(plan, m), NEW k \in Nat
  PROVE  Rehydrate([m EXCEPT !.counter = k]) = m /\ Rehydrate(m) = m
<1> DEFINE T == {e.id : e \in ToSet(m.ledger)} \union {0}
<1>1. m \in WfModels /\ IdsFit(m.wf.id, ToSet(m.ledger), m.counter)
  BY DEF WfFits
<1>2. m.counter \in T /\ \A t \in T : m.counter >= t /\ t \in Nat
  BY <1>1 DEF IdsFit, WfModels
<1>3. Max(T) = m.counter
  <2>1. Max(T) = CHOOSE y \in T : \A t \in T : y >= t
    BY DEF Max
  <2>2. PICK y : y = Max(T)
    OBVIOUS
  <2>3. y \in T /\ \A t \in T : y >= t
    BY <1>2, <2>1, <2>2
  <2>4. y \in Nat /\ y >= m.counter /\ m.counter >= y /\ m.counter \in Nat
    BY <1>2, <2>3
  <2> QED
    BY <2>2, <2>4
<1>4. Rehydrate(m) = [m EXCEPT !.counter = Max(T)]
  BY DEF Rehydrate
<1>5. [m EXCEPT !.counter = k].ledger = m.ledger
  BY <1>1 DEF WfModels
<1>6. Rehydrate([m EXCEPT !.counter = k])
        = [[m EXCEPT !.counter = k] EXCEPT !.counter = Max(T)]
  BY <1>5 DEF Rehydrate
<1> HIDE DEF T
<1>7. m = [wf |-> m.wf, ledger |-> m.ledger, counter |-> m.counter]
  BY <1>1 DEF WfModels
<1>8. [m EXCEPT !.counter = m.counter] = m
  BY <1>7
<1>9. [[m EXCEPT !.counter = k] EXCEPT !.counter = m.counter] = m
  BY <1>7
<1> QED
  BY <1>3, <1>4, <1>6, <1>8, <1>9

-----------------------------------------------------------------------------
\* The parts of a model, its sequences as the sets of what they hold.
WfIs(m, status, did, U, index, id, n, L) ==
  /\ m \in WfModels
  /\ m.wf.status = status /\ m.wf.completed = did /\ ToSet(m.wf.undone) = U
  /\ m.wf.index = index /\ m.wf.id = id
  /\ m.counter = n /\ ToSet(m.ledger) = L

\* What each part of a verb makes of a model.
LEMMA ConfirmOf ==
  ASSUME NEW given \in WfModels
  PROVE  /\ Confirm(given) \in WfModels
         /\ Confirm(given).wf = given.wf /\ Confirm(given).counter = given.counter
         /\ ToSet(Confirm(given).ledger) = ToSet(given.ledger) \union {ConfirmedOf(given.wf.id)}
<1>1. /\ given.wf \in [status : WfStatuses, completed : Nat, undone : Seq(Nat),
                   index : Nat, id : Nat]
      /\ given.ledger \in Seq(WfEvents) /\ given.counter \in Nat
      /\ given = [wf |-> given.wf, ledger |-> given.ledger, counter |-> given.counter]
  BY DEF WfModels
<1> DEFINE e == ConfirmedOf(given.wf.id)
           l == Append(given.ledger, e)
<1>2. e \in WfEvents
  BY <1>1 DEF ConfirmedOf, WfEvents
<1>3. l \in Seq(WfEvents) /\ ToSet(l) = ToSet(given.ledger) \union {e}
  <2> HIDE DEF e
  <2> QED
    BY <1>1, <1>2, Appended
<1>4. Confirm(given) = [given EXCEPT !.ledger = l]
  BY DEF Confirm
<1> HIDE DEF e, l
<1>5. Confirm(given) = [wf |-> given.wf, ledger |-> l, counter |-> given.counter]
  BY <1>1, <1>4
<1>6. Confirm(given) \in WfModels
  BY <1>1, <1>3, <1>5 DEF WfModels
<1> QED
  BY <1>3, <1>5, <1>6 DEF e

LEMMA ComesToOf ==
  ASSUME NEW given \in WfModels, NEW next \in WfStatuses
  PROVE  /\ ComesTo(given, next) \in WfModels
         /\ ComesTo(given, next).wf = [given.wf EXCEPT !.status = next]
         /\ ComesTo(given, next).wf.status = next
         /\ ComesTo(given, next).wf.completed = given.wf.completed
         /\ ComesTo(given, next).wf.undone = given.wf.undone
         /\ ComesTo(given, next).wf.index = given.wf.index
         /\ ComesTo(given, next).wf.id = given.wf.id
         /\ ComesTo(given, next).ledger = given.ledger
         /\ ComesTo(given, next).counter = given.counter
<1>1. /\ given.wf \in [status : WfStatuses, completed : Nat, undone : Seq(Nat),
                   index : Nat, id : Nat]
      /\ given.ledger \in Seq(WfEvents) /\ given.counter \in Nat
      /\ given = [wf |-> given.wf, ledger |-> given.ledger, counter |-> given.counter]
  BY DEF WfModels
<1> DEFINE w == [given.wf EXCEPT !.status = next]
<1>2. /\ w \in [status : WfStatuses, completed : Nat, undone : Seq(Nat),
                index : Nat, id : Nat]
      /\ w.status = next /\ w.completed = given.wf.completed
      /\ w.undone = given.wf.undone /\ w.index = given.wf.index /\ w.id = given.wf.id
  BY <1>1
<1>3. ComesTo(given, next) = [given EXCEPT !.wf = w]
  BY DEF ComesTo
<1>4. w = [given.wf EXCEPT !.status = next]
  OBVIOUS
<1> HIDE DEF w
<1>5. ComesTo(given, next) = [wf |-> w, ledger |-> given.ledger, counter |-> given.counter]
  BY <1>1, <1>3
<1>6. ComesTo(given, next) \in WfModels
  BY <1>1, <1>2, <1>5 DEF WfModels
<1> QED
  BY <1>2, <1>4, <1>5, <1>6

LEMMA OweIs ==
  ASSUME NEW m, NEW st, NEW k, NEW U, NEW ix, NEW id, NEW n, NEW L,
         WfIs(m, st, k, U, ix, id, n, L),
         NEW side \in {"do", "undo"}, NEW i \in Nat
  PROVE  WfIs(Owe(m, side, i), st, k, U, i, n + 1, n + 1,
              L \union {OwedOf(n + 1, <<side, i>>)})
<1>1. /\ m \in WfModels /\ m.wf \in [status : WfStatuses, completed : Nat, undone : Seq(Nat),
                   index : Nat, id : Nat]
      /\ m.ledger \in Seq(WfEvents) /\ n \in Nat /\ m.counter = n
  BY DEF WfModels, WfIs
<1> DEFINE e == OwedOf(n + 1, <<side, i>>)
           w == [m.wf EXCEPT !.index = i, !.id = n + 1]
           l == Append(m.ledger, e)
<1>2. e \in WfEvents
  BY <1>1 DEF OwedOf, WfEvents
<1>3. l \in Seq(WfEvents) /\ ToSet(l) = ToSet(m.ledger) \union {e}
  <2> HIDE DEF e
  <2> QED
    BY <1>1, <1>2, Appended
<1>4. /\ w \in [status : WfStatuses, completed : Nat, undone : Seq(Nat),
                index : Nat, id : Nat]
      /\ w.status = m.wf.status /\ w.completed = m.wf.completed
      /\ w.undone = m.wf.undone /\ w.index = i /\ w.id = n + 1
  <2>1. PICK v : v = m.wf
    OBVIOUS
  <2>2. PICK c \in Nat : c = n + 1
    BY <1>1
  <2>3. v = [status |-> v.status, completed |-> v.completed, undone |-> v.undone,
             index |-> v.index, id |-> v.id]
    BY <1>1, <2>1
  <2>4. w = [v EXCEPT !.index = i, !.id = c]
    BY <2>1, <2>2
  <2> HIDE DEF w
  <2>5. w = [status |-> v.status, completed |-> v.completed, undone |-> v.undone,
             index |-> i, id |-> c]
    BY <2>3, <2>4
  <2> QED
    BY <1>1, <2>1, <2>2, <2>5
<1>5. Owe(m, side, i) = [wf |-> w, ledger |-> l, counter |-> n + 1]
  BY <1>1 DEF Owe
<1> HIDE DEF e, w, l
<1>6. Owe(m, side, i) \in WfModels
  BY <1>1, <1>3, <1>4, <1>5 DEF WfModels
<1>7. WfIs(Owe(m, side, i), st, k, U, i, n + 1, n + 1, L \union {e})
  BY <1>3, <1>4, <1>5, <1>6 DEF WfIs
<1> QED
  BY <1>7 DEF e

LEMMA ConfirmIs ==
  ASSUME NEW m, NEW st, NEW k, NEW U, NEW ix, NEW id, NEW n, NEW L,
         WfIs(m, st, k, U, ix, id, n, L)
  PROVE  WfIs(Confirm(m), st, k, U, ix, id, n, L \union {ConfirmedOf(id)})
<1>1. m \in WfModels /\ m.wf.id = id
  BY DEF WfIs
<1>2. /\ Confirm(m) \in WfModels
      /\ Confirm(m).wf = m.wf /\ Confirm(m).counter = m.counter
      /\ ToSet(Confirm(m).ledger) = ToSet(m.ledger) \union {ConfirmedOf(id)}
  BY <1>1, ConfirmOf
<1> QED
  BY <1>2 DEF WfIs

LEMMA ComesToIs ==
  ASSUME NEW m, NEW st, NEW k, NEW U, NEW ix, NEW id, NEW n, NEW L,
         WfIs(m, st, k, U, ix, id, n, L), NEW st2 \in WfStatuses
  PROVE  WfIs(ComesTo(m, st2), st2, k, U, ix, id, n, L)
<1>1. m \in WfModels
  BY DEF WfIs
<1>2. /\ ComesTo(m, st2) \in WfModels
      /\ ComesTo(m, st2).wf.status = st2
      /\ ComesTo(m, st2).wf.completed = m.wf.completed
      /\ ComesTo(m, st2).wf.undone = m.wf.undone
      /\ ComesTo(m, st2).wf.index = m.wf.index
      /\ ComesTo(m, st2).wf.id = m.wf.id
      /\ ComesTo(m, st2).ledger = m.ledger
      /\ ComesTo(m, st2).counter = m.counter
  BY <1>1, ComesToOf
<1> QED
  BY <1>2 DEF WfIs

\* A step completed, a step undone.
LEMMA CompletedIs ==
  ASSUME NEW m, NEW st, NEW k \in Nat, NEW U, NEW ix, NEW id, NEW n, NEW L,
         WfIs(m, st, k, U, ix, id, n, L)
  PROVE  WfIs([m EXCEPT !.wf.completed = @ + 1], st, k + 1, U, ix, id, n, L)
<1>1. /\ m.wf \in [status : WfStatuses, completed : Nat, undone : Seq(Nat),
                   index : Nat, id : Nat]
      /\ m = [wf |-> m.wf, ledger |-> m.ledger, counter |-> m.counter]
      /\ m.ledger \in Seq(WfEvents) /\ m.counter \in Nat
      /\ m.wf.completed = k
  BY DEF WfIs, WfModels
<1>2. PICK v : v = m.wf
  OBVIOUS
<1>3. v = [status |-> v.status, completed |-> k, undone |-> v.undone,
           index |-> v.index, id |-> v.id]
  BY <1>1, <1>2
<1> DEFINE w == [status |-> v.status, completed |-> k + 1, undone |-> v.undone,
                 index |-> v.index, id |-> v.id]
           r == [wf |-> w, ledger |-> m.ledger, counter |-> m.counter]
<1>4. [m EXCEPT !.wf.completed = @ + 1] = r
  <2>1. [v EXCEPT !.completed = k + 1] = w
    BY <1>3
  <2> HIDE DEF w
  <2>2. [m EXCEPT !.wf.completed = @ + 1] = [m EXCEPT !.wf = [v EXCEPT !.completed = k + 1]]
    BY <1>1, <1>2
  <2>3. PICK led, cnt : led = m.ledger /\ cnt = m.counter
    OBVIOUS
  <2>4. m = [wf |-> v, ledger |-> led, counter |-> cnt]
    BY <1>1, <1>2, <2>3
  <2>5. [m EXCEPT !.wf = w] = [wf |-> w, ledger |-> led, counter |-> cnt]
    BY <2>4
  <2> QED
    BY <2>1, <2>2, <2>3, <2>5
<1>5. r \in WfModels
  BY <1>1, <1>2 DEF WfModels
<1> QED
  BY <1>2, <1>4, <1>5 DEF WfIs

LEMMA UndoneIs ==
  ASSUME NEW m, NEW st, NEW k, NEW U, NEW ix \in Nat, NEW id, NEW n, NEW L,
         WfIs(m, st, k, U, ix, id, n, L), NEW j \in Nat
  PROVE  WfIs([m EXCEPT !.wf.undone = Append(@, j)], st, k, U \union {j}, ix, id, n, L)
<1>1. /\ m.wf \in [status : WfStatuses, completed : Nat, undone : Seq(Nat),
                   index : Nat, id : Nat]
      /\ m = [wf |-> m.wf, ledger |-> m.ledger, counter |-> m.counter]
      /\ m.ledger \in Seq(WfEvents) /\ m.counter \in Nat
      /\ ToSet(m.wf.undone) = U
  BY DEF WfIs, WfModels
<1>2. PICK v : v = m.wf
  OBVIOUS
<1>3. PICK l : l = Append(v.undone, j)
  OBVIOUS
<1>4. l \in Seq(Nat) /\ ToSet(l) = U \union {j}
  <2>1. PICK u \in Seq(Nat) : u = v.undone
    BY <1>1, <1>2
  <2>2. Append(u, j) \in Seq(Nat) /\ ToSet(Append(u, j)) = ToSet(u) \union {j}
    BY Appended
  <2> QED
    BY <1>1, <1>2, <1>3, <2>1, <2>2
<1>5. v = [status |-> v.status, completed |-> v.completed, undone |-> v.undone,
           index |-> v.index, id |-> v.id]
  BY <1>1, <1>2
<1> DEFINE w == [status |-> v.status, completed |-> v.completed, undone |-> l,
                 index |-> v.index, id |-> v.id]
           r == [wf |-> w, ledger |-> m.ledger, counter |-> m.counter]
<1>6. [m EXCEPT !.wf.undone = Append(@, j)] = r
  <2>1. [v EXCEPT !.undone = l] = w
    BY <1>5
  <2> HIDE DEF w
  <2>2. [m EXCEPT !.wf.undone = Append(@, j)] = [m EXCEPT !.wf = [v EXCEPT !.undone = l]]
    BY <1>1, <1>2, <1>3
  <2>3. PICK led, cnt : led = m.ledger /\ cnt = m.counter
    OBVIOUS
  <2>4. m = [wf |-> v, ledger |-> led, counter |-> cnt]
    BY <1>1, <1>2, <2>3
  <2>5. [m EXCEPT !.wf = w] = [wf |-> w, ledger |-> led, counter |-> cnt]
    BY <2>4
  <2> QED
    BY <2>1, <2>2, <2>3, <2>5
<1>7. r \in WfModels
  BY <1>1, <1>2, <1>4 DEF WfModels
<1>8. WfIs(r, st, k, U \union {j}, ix, id, n, L)
  BY <1>2, <1>4, <1>7 DEF WfIs
<1> HIDE DEF r
<1> QED
  BY <1>6, <1>8

-----------------------------------------------------------------------------
\* What a confirmation, and what one more effect, makes of what is owed.
LEMMA OwingOf ==
  ASSUME NEW T, NEW o, NEW asks
  PROVE  /\ WfOwing(T \union {ConfirmedOf(o)}) = WfOwing(T)
         /\ WfOwing(T \union {OwedOf(o, asks)}) = WfOwing(T) \union {OwedOf(o, asks)}
         /\ OwedOf(o, asks).id = o /\ OwedOf(o, asks).what = asks
         /\ ConfirmedOf(o).id = o
BY DEF WfOwing, ConfirmedOf, OwedOf

\* The first activity is owed.
LEMMA InitWfFits ==
  ASSUME NEW plan \in Seq(BOOLEAN), plan # <<>>
  PROVE  WfFits(plan, InitWf)
<1>1. Blank \in WfModels /\ Blank.wf.status = "running" /\ Blank.wf.completed = 0
      /\ Blank.wf.undone = <<>> /\ Blank.counter = 0 /\ Blank.ledger = <<>>
  BY DEF Blank, WfModels, WfStatuses
<1>2. ToSet(<<>>) = {}
  BY DEF ToSet
<1> DEFINE e == OwedOf(1, <<"do", 1>>)
<1>3. WfIs(InitWf, "running", 0, {}, 1, 1, 1, {e})
  <2>1. PICK b : b = Blank
    OBVIOUS
  <2>2. WfIs(b, "running", 0, {}, 0, 0, 0, {})
    BY <1>1, <1>2, <2>1 DEF WfIs, Blank
  <2>3. WfIs(Owe(b, "do", 1), "running", 0, {}, 1, 0 + 1, 0 + 1,
             {} \union {OwedOf(0 + 1, <<"do", 1>>)})
    BY <2>2, OweIs
  <2> QED
    BY <2>1, <2>3 DEF InitWf
<1>4. WfOwing({e}) = {e} /\ e.id = 1 /\ e.what = <<"do", 1>>
  BY DEF WfOwing, OwedOf
<1> HIDE DEF e
<1>5. OwesFit(plan, 0, {}, {e})
  <2>1. IsDo(e, 0)
    BY <1>4 DEF IsDo
  <2>2. e.what[1] # "undo"
    BY <1>4
  <2> QED
    BY <1>4, <2>1, <2>2 DEF OwesFit
<1>6. StageFits(plan, "running", 0, {}, 1, {e}, 1)
  <2>1. Len(plan) \in Nat \ {0}
    BY EmptySeq, Zenon
  <2>2. \A d \in WfOwing({e}) : IsDo(d, 0)
    BY <1>4 DEF IsDo
  <2>3. 0 <= Len(plan) /\ 0 < Len(plan) /\ 1 = 0 + 1
    BY <2>1
  <2>4. "running" # "compensating" /\ "running" # "failed_compensated"
    OBVIOUS
  <2> QED
    BY <2>2, <2>3, <2>4, Zenon DEF StageFits
<1>7. IdsFit(1, {e}, 1)
  BY <1>4 DEF IdsFit
<1> QED
  BY <1>3, <1>5, <1>6, <1>7 DEF WfFits, WfIs

-----------------------------------------------------------------------------
\* A model fits by its parts.
LEMMA PartsFit ==
  ASSUME NEW plan, NEW m, NEW st, NEW k, NEW U, NEW ix, NEW id, NEW n, NEW L,
         WfIs(m, st, k, U, ix, id, n, L)
  PROVE  WfFits(plan, m) <=> /\ OwesFit(plan, k, U, L)
                             /\ StageFits(plan, st, k, U, ix, L, n)
                             /\ IdsFit(id, L, n)
BY DEF WfIs, WfFits

LEMMA PartsTyped ==
  ASSUME NEW m, NEW st, NEW k, NEW U, NEW ix, NEW id, NEW n, NEW L,
         WfIs(m, st, k, U, ix, id, n, L)
  PROVE  st \in WfStatuses /\ k \in Nat /\ ix \in Nat /\ id \in Nat /\ n \in Nat
BY DEF WfIs, WfModels

\* An activity that succeeds completes its step and owes the next, if there is one.
LEMMA ActivityOkFits ==
  ASSUME NEW plan \in Seq(BOOLEAN), NEW m, NEW k, NEW U, NEW ix, NEW id, NEW n, NEW L,
         WfIs(m, "running", k, U, ix, id, n, L), WfFits(plan, m)
  PROVE  /\ WfFits(plan, ActivityOk(plan, m))
         /\ L \subseteq ToSet(ActivityOk(plan, m).ledger)
<1>1. k \in Nat /\ ix \in Nat /\ id \in Nat /\ n \in Nat
  BY PartsTyped
<1>2. PICK len \in Nat : len = Len(plan)
  OBVIOUS
<1>3. /\ id = n /\ n = k + 1 /\ ix = k + 1 /\ k < len /\ U = {}
      /\ \A e \in WfOwing(L) : IsDo(e, k)
      /\ \A e \in L : e.id \in 1 .. k + 1
      /\ \E e \in L : e.id = k + 1
  <2>1. StageFits(plan, "running", k, U, ix, L, n) /\ IdsFit(id, L, n)
    BY PartsFit
  <2> QED
    BY <1>1, <1>2, <2>1 DEF StageFits, IdsFit
<1> DEFINE c == Confirm(m)
           done == [c EXCEPT !.wf.completed = @ + 1]
           M == L \union {ConfirmedOf(k + 1)}
<1>4. WfIs(c, "running", k, {}, k + 1, k + 1, k + 1, M)
  BY <1>3, ConfirmIs
<1>5. m.wf.index = k + 1
  BY <1>3 DEF WfIs
<1> HIDE DEF c, M
<1>6. WfIs(done, "running", k + 1, {}, k + 1, k + 1, k + 1, M)
  BY <1>1, <1>4, CompletedIs
<1> HIDE DEF done
<1>7. /\ WfOwing(M) = WfOwing(L) /\ L \subseteq M
      /\ \A e \in M : e.id \in 1 .. k + 1
      /\ \E e \in M : e.id = k + 1
  <2>1. WfOwing(M) = WfOwing(L) /\ ConfirmedOf(k + 1).id = k + 1
    BY OwingOf DEF M
  <2> QED
    BY <1>1, <1>3, <2>1 DEF M
<1>8. \A e \in WfOwing(M) : IsDo(e, k + 1) /\ e.what[1] # "undo" /\ e.id \in 1 .. k + 1
  <2> SUFFICES ASSUME NEW e \in WfOwing(M)
               PROVE  IsDo(e, k + 1) /\ e.what[1] # "undo" /\ e.id \in 1 .. k + 1
    OBVIOUS
  <2>1. e.what = <<"do", e.id>> /\ e.id \in 1 .. k + 1
    BY <1>3, <1>7 DEF IsDo, WfOwing
  <2> QED
    BY <1>1, <2>1 DEF IsDo
<1>9. CASE k + 1 = len
  <2>1. ActivityOk(plan, m) = ComesTo(done, "completed")
    BY <1>2, <1>5, <1>9 DEF ActivityOk, done, c
  <2>2. WfIs(ComesTo(done, "completed"), "completed", k + 1, {}, k + 1, k + 1, k + 1, M)
    BY <1>6, ComesToIs DEF WfStatuses
  <2>3. OwesFit(plan, k + 1, {}, M)
    BY <1>8 DEF OwesFit
  <2>4. StageFits(plan, "completed", k + 1, {}, k + 1, M, k + 1)
    BY <1>2, <1>9 DEF StageFits
  <2>5. IdsFit(k + 1, M, k + 1)
    BY <1>1, <1>7 DEF IdsFit
  <2>6. WfFits(plan, ComesTo(done, "completed"))
    BY <2>2, <2>3, <2>4, <2>5, PartsFit
  <2> QED
    BY <1>7, <2>1, <2>2, <2>6 DEF WfIs
<1>10. CASE k + 1 # len
  <2>1. ActivityOk(plan, m) = Owe(done, "do", k + 1 + 1)
    BY <1>2, <1>5, <1>10 DEF ActivityOk, done, c
  <2> DEFINE e == OwedOf(k + 1 + 1, <<"do", k + 1 + 1>>)
             N == M \union {e}
  <2>2. WfIs(Owe(done, "do", k + 1 + 1), "running", k + 1, {}, k + 1 + 1, k + 1 + 1,
             k + 1 + 1, N)
    BY <1>1, <1>6, OweIs
  <2>3. WfOwing(N) = WfOwing(M) \union {e} /\ e.id = k + 2 /\ e.what = <<"do", k + 2>>
    <3>1. e.type = "effect_owed" /\ e.id = k + 1 + 1 /\ e.what = <<"do", k + 1 + 1>>
      BY DEF OwedOf
    <3> HIDE DEF e
    <3> QED
      BY <1>1, <3>1 DEF WfOwing
  <2>4. (\A d \in N : d \in M \/ d = e) /\ M \subseteq N /\ e \in N
    OBVIOUS
  <2> HIDE DEF e, N
  <2>5. \A d \in WfOwing(N) : IsDo(d, k + 1) /\ d.what[1] # "undo"
    <3>1. IsDo(e, k + 1)
      BY <1>1, <2>3 DEF IsDo
    <3>2. e.what[1] # "undo"
      BY <2>3
    <3> QED
      BY <1>8, <2>3, <3>1, <3>2
  <2>6. OwesFit(plan, k + 1, {}, N)
    BY <2>5 DEF OwesFit
  <2>7. StageFits(plan, "running", k + 1, {}, k + 1 + 1, N, k + 1 + 1)
    BY <1>1, <1>2, <1>3, <1>10, <2>5 DEF StageFits
  <2>8. IdsFit(k + 1 + 1, N, k + 1 + 1)
    <3>1. \A d \in N : d.id \in 1 .. k + 2
      BY <1>1, <1>7, <2>3, <2>4
    <3> QED
      BY <1>1, <2>3, <2>4, <3>1 DEF IdsFit
  <2>9. WfFits(plan, Owe(done, "do", k + 1 + 1))
    BY <2>2, <2>6, <2>7, <2>8, PartsFit
  <2> QED
    BY <1>7, <2>1, <2>2, <2>4, <2>9 DEF WfIs
<1> QED
  BY <1>9, <1>10

\* A rollback that goes on below a step undoes the next one, or has undone them all.
LEMMA UnwindFits ==
  ASSUME NEW plan \in Seq(BOOLEAN), NEW m, NEW st, NEW k, NEW U, NEW ix, NEW id,
         NEW n, NEW L, WfIs(m, st, k, U, ix, id, n, L),
         NEW below \in Nat, 0 < below, below <= k + 1, k <= Len(plan), n >= k + 1,
         OwesFit(plan, k, U, L), IdsFit(id, L, n),
         U = {i \in UndoableOf(plan, k) : i >= below},
         \A e \in WfOwing(L) : e.what[1] = "undo" => e.what[2] >= below,
         NEW rest \in {"failed", "failed_compensated"}
  PROVE  /\ WfFits(plan, Unwind(plan, m, below, rest))
         /\ L \subseteq ToSet(Unwind(plan, m, below, rest).ledger)
<1>1. k \in Nat /\ ix \in Nat /\ id \in Nat /\ n \in Nat
  BY PartsTyped
<1>2. PICK i \in Nat : i = NextUndo(plan, below)
  BY NextUndoFits
<1>3. /\ i = 0 => \A j \in 1 .. below - 1 : ~plan[j]
      /\ i # 0 => /\ i \in 1 .. below - 1 /\ plan[i]
                  /\ \A j \in 1 .. below - 1 : plan[j] => j <= i
  BY <1>2, NextUndoFits
<1>4. CASE i = 0
  <2>1. Unwind(plan, m, below, rest) = ComesTo(m, rest)
    BY <1>2, <1>4 DEF Unwind
  <2>2. WfIs(ComesTo(m, rest), rest, k, U, ix, id, n, L)
    BY ComesToIs DEF WfStatuses
  <2>3. U = UndoableOf(plan, k)
    BY <1>1, <1>3, <1>4 DEF UndoableOf
  <2>4. StageFits(plan, rest, k, U, ix, L, n)
    BY <2>3 DEF StageFits
  <2>5. WfFits(plan, ComesTo(m, rest))
    BY <2>2, <2>4, PartsFit
  <2> QED
    BY <2>1, <2>2, <2>5 DEF WfIs
<1>5. CASE i # 0
  <2> DEFINE c == ComesTo(m, "compensating")
             e == OwedOf(n + 1, <<"undo", i>>)
             N == L \union {e}
  <2>1. Unwind(plan, m, below, rest) = Owe(c, "undo", i)
    BY <1>2, <1>5 DEF Unwind
  <2>2. WfIs(c, "compensating", k, U, ix, id, n, L)
    BY ComesToIs DEF WfStatuses
  <2> HIDE DEF c
  <2>3. WfIs(Owe(c, "undo", i), "compensating", k, U, i, n + 1, n + 1, N)
    BY <2>2, OweIs
  <2>4. e.type = "effect_owed" /\ e.id = n + 1 /\ e.what = <<"undo", i>>
    BY DEF OwedOf
  <2> HIDE DEF e
  <2>5. WfOwing(N) = WfOwing(L) \union {e} /\ L \subseteq N
    BY <2>4 DEF WfOwing
  <2>6. /\ i \in UndoableOf(plan, k)
        /\ U = {j \in UndoableOf(plan, k) : j > i}
        /\ i < below
    BY <1>1, <1>3, <1>5 DEF UndoableOf
  <2>7. IsUndo(e, plan, k, U)
    <3>1. e.what[1] = "undo" /\ e.what[2] = i
      BY <2>4
    <3>2. e.what = <<"undo", e.what[2]>>
      BY <2>4, <3>1
    <3>3. e.id > k + 1
      BY <1>1, <2>4
    <3>4. \A j \in UndoableOf(plan, k) : j > e.what[2] => j \in U
      BY <2>6, <3>1
    <3> QED
      BY <2>6, <3>1, <3>2, <3>3, <3>4 DEF IsUndo
  <2>8. \A d \in L : d.id \in 1 .. n
    BY DEF IdsFit
  <2>9. \A d \in WfOwing(L) : d.what[1] = "undo" => d.id < e.id /\ d.what[2] > e.what[2]
    <3> SUFFICES ASSUME NEW d \in WfOwing(L), d.what[1] = "undo"
                 PROVE  d.id < e.id /\ d.what[2] > e.what[2]
      OBVIOUS
    <3>1. d.id \in 1 .. n /\ d.what[2] >= below
      BY <2>8 DEF WfOwing
    <3>2. IsDo(d, k) \/ IsUndo(d, plan, k, U)
      BY DEF OwesFit
    <3>3. d.what[2] \in Nat
      <4>1. ~IsDo(d, k)
        BY DEF IsDo
      <4>2. d.what[2] \in UndoableOf(plan, k)
        BY <3>2, <4>1 DEF IsUndo
      <4> QED
        BY <4>2 DEF UndoableOf
    <3>4. e.what[2] = i /\ e.id = n + 1
      BY <2>4
    <3> QED
      BY <1>1, <2>6, <3>1, <3>3, <3>4
  <2> HIDE DEF N
  <2>10. OwesFit(plan, k, U, N)
    <3>1. \A d \in WfOwing(N) : IsDo(d, k) \/ IsUndo(d, plan, k, U)
      BY <2>5, <2>7 DEF OwesFit
    <3>2. ASSUME NEW a \in WfOwing(N), NEW b \in WfOwing(N),
                 a.what[1] = "undo", b.what[1] = "undo"
          PROVE  /\ a.id < b.id => a.what[2] > b.what[2]
                 /\ a.id = b.id => a.what[2] = b.what[2]
      <4>1. \A d \in WfOwing(L) : d.id \in 1 .. n
        BY <2>8 DEF WfOwing
      <4>2. CASE a \in WfOwing(L) /\ b \in WfOwing(L)
        BY <3>2, <4>2 DEF OwesFit
      <4>3. CASE a = e /\ b = e
        BY <1>1, <2>4, <4>3
      <4>4. CASE a \in WfOwing(L) /\ b = e
        <5>1. a.id < e.id /\ a.what[2] > e.what[2] /\ a.id \in 1 .. n /\ e.id = n + 1
          BY <2>4, <2>9, <3>2, <4>1, <4>4
        <5> QED
          BY <1>1, <4>4, <5>1
      <4>5. CASE a = e /\ b \in WfOwing(L)
        <5>1. b.id \in 1 .. n /\ e.id = n + 1
          BY <2>4, <4>1, <4>5
        <5> QED
          BY <1>1, <4>5, <5>1
      <4> QED
        BY <2>5, <4>2, <4>3, <4>4, <4>5
    <3> QED
      BY <3>1, <3>2 DEF OwesFit
  <2>11. StageFits(plan, "compensating", k, U, i, N, n + 1)
    <3>1. \A d \in WfOwing(N) : d.what[1] = "undo" => d.what[2] >= i
      <4>1. e.what[2] = i
        BY <2>4
      <4>2. \A d \in WfOwing(L) : d.what[1] = "undo" => d.what[2] \in Nat
        <5> SUFFICES ASSUME NEW d \in WfOwing(L), d.what[1] = "undo" PROVE d.what[2] \in Nat
          OBVIOUS
        <5>1. ~IsDo(d, k)
          BY DEF IsDo
        <5>2. d.what[2] \in UndoableOf(plan, k)
          BY <5>1 DEF OwesFit, IsUndo
        <5> QED
          BY <5>2 DEF UndoableOf
      <4> QED
        BY <2>5, <2>6, <4>1, <4>2
    <3> QED
      BY <1>1, <2>6, <3>1 DEF StageFits
  <2>12. IdsFit(n + 1, N, n + 1)
    <3>1. e \in N /\ \A d \in N : d \in L \/ d = e
      BY DEF N
    <3>2. \A d \in N : d.id \in 1 .. n + 1
      BY <1>1, <2>4, <2>8, <3>1
    <3> QED
      BY <1>1, <2>4, <3>1, <3>2 DEF IdsFit
  <2>13. WfFits(plan, Owe(c, "undo", i))
    BY <2>3, <2>10, <2>11, <2>12, PartsFit
  <2> QED
    BY <2>1, <2>3, <2>5, <2>13 DEF WfIs
<1> QED
  BY <1>4, <1>5

\* A confirmation owes nothing, and has an id that is there.
LEMMA ConfirmedFits ==
  ASSUME NEW plan, NEW k, NEW U, NEW L, NEW n \in Nat, NEW M, OwesFit(plan, k, U, L),
         IdsFit(n, L, n), M = L \union {ConfirmedOf(n)}
  PROVE  OwesFit(plan, k, U, M) /\ IdsFit(n, M, n) /\ WfOwing(M) = WfOwing(L)
<1>1. ConfirmedOf(n).type # "effect_owed" /\ ConfirmedOf(n).id = n
  BY DEF ConfirmedOf
<1>2. WfOwing(M) = WfOwing(L)
  BY <1>1 DEF WfOwing
<1>3. IdsFit(n, M, n)
  BY <1>1 DEF IdsFit
<1> QED
  BY <1>2, <1>3 DEF OwesFit

\* A failed activity begins the rollback, from the last step that is completed.
LEMMA ActivityErrFits ==
  ASSUME NEW plan \in Seq(BOOLEAN), NEW m, NEW k, NEW U, NEW ix, NEW id, NEW n, NEW L,
         WfIs(m, "running", k, U, ix, id, n, L), WfFits(plan, m)
  PROVE  /\ WfFits(plan, ActivityErr(plan, m))
         /\ L \subseteq ToSet(ActivityErr(plan, m).ledger)
<1>1. k \in Nat /\ ix \in Nat /\ id \in Nat /\ n \in Nat
  BY PartsTyped
<1>2. /\ OwesFit(plan, k, U, L) /\ IdsFit(id, L, n)
      /\ StageFits(plan, "running", k, U, ix, L, n)
  BY PartsFit
<1>3. id = n /\ n = k + 1 /\ k <= Len(plan) /\ U = {} /\ \A e \in WfOwing(L) : IsDo(e, k)
  BY <1>2 DEF StageFits, IdsFit
<1>4. PICK c : c = Confirm(m)
  OBVIOUS
<1>5. PICK M : M = L \union {ConfirmedOf(n)}
  OBVIOUS
<1>6. WfIs(c, "running", k, U, ix, id, n, M)
  BY <1>3, <1>4, <1>5, ConfirmIs
<1>7. OwesFit(plan, k, U, M) /\ IdsFit(id, M, n) /\ WfOwing(M) = WfOwing(L) /\ L \subseteq M
  BY <1>1, <1>2, <1>3, <1>5, ConfirmedFits
<1>8. PICK below \in Nat : below = k + 1
  BY <1>1
<1>9. ActivityErr(plan, m) = Unwind(plan, c, below, "failed")
  BY <1>4, <1>8 DEF ActivityErr, WfIs
<1>10. U = {i \in UndoableOf(plan, k) : i >= below}
  BY <1>1, <1>3, <1>8 DEF UndoableOf
<1>11. \A e \in WfOwing(M) : e.what[1] = "undo" => e.what[2] >= below
  BY <1>3, <1>7 DEF IsDo
<1>12. /\ 0 < below /\ below <= k + 1 /\ n >= k + 1
       /\ "failed" \in {"failed", "failed_compensated"}
  BY <1>1, <1>3, <1>8
<1>13. /\ WfFits(plan, Unwind(plan, c, below, "failed"))
       /\ M \subseteq ToSet(Unwind(plan, c, below, "failed").ledger)
  BY <1>3, <1>6, <1>7, <1>10, <1>11, <1>12, UnwindFits
<1> QED
  BY <1>7, <1>9, <1>13

\* A step undone, the rollback goes on below it.
LEMMA CompensationOkFits ==
  ASSUME NEW plan \in Seq(BOOLEAN), NEW m, NEW k, NEW U, NEW ix, NEW id, NEW n, NEW L,
         WfIs(m, "compensating", k, U, ix, id, n, L), WfFits(plan, m)
  PROVE  /\ WfFits(plan, CompensationOk(plan, m))
         /\ L \subseteq ToSet(CompensationOk(plan, m).ledger)
<1>1. k \in Nat /\ ix \in Nat /\ id \in Nat /\ n \in Nat
  BY PartsTyped
<1>2. /\ OwesFit(plan, k, U, L) /\ IdsFit(id, L, n)
      /\ StageFits(plan, "compensating", k, U, ix, L, n)
  BY PartsFit
<1>3. /\ id = n /\ n > k + 1 /\ k <= Len(plan) /\ ix \in UndoableOf(plan, k)
      /\ U = {i \in UndoableOf(plan, k) : i > ix}
      /\ \A e \in WfOwing(L) : e.what[1] = "undo" => e.what[2] >= ix
  BY <1>2 DEF StageFits, IdsFit
<1>4. PICK c : c = [Confirm(m) EXCEPT !.wf.undone = Append(@, m.wf.index)]
  OBVIOUS
<1>5. PICK M : M = L \union {ConfirmedOf(n)}
  OBVIOUS
<1>6. PICK V : V = U \union {ix}
  OBVIOUS
<1>7. m.wf.index = ix
  BY DEF WfIs
<1>8. WfIs(c, "compensating", k, V, ix, id, n, M)
  <2>1. WfIs(Confirm(m), "compensating", k, U, ix, id, n, M)
    BY <1>3, <1>5, ConfirmIs
  <2>2. WfIs([Confirm(m) EXCEPT !.wf.undone = Append(@, ix)],
             "compensating", k, V, ix, id, n, M)
    BY <1>1, <1>6, <2>1, UndoneIs
  <2> QED
    BY <1>4, <1>7, <2>2
<1>9. OwesFit(plan, k, U, M) /\ IdsFit(id, M, n) /\ WfOwing(M) = WfOwing(L) /\ L \subseteq M
  BY <1>1, <1>2, <1>3, <1>5, ConfirmedFits
<1>10. OwesFit(plan, k, V, M)
  BY <1>6, <1>9 DEF OwesFit, IsUndo
<1>11. V = {i \in UndoableOf(plan, k) : i >= ix}
  BY <1>1, <1>3, <1>6 DEF UndoableOf
<1>12. \A e \in WfOwing(M) : e.what[1] = "undo" => e.what[2] >= ix
  BY <1>3, <1>9
<1>13. /\ 0 < ix /\ ix <= k + 1 /\ n >= k + 1
       /\ "failed_compensated" \in {"failed", "failed_compensated"}
  BY <1>1, <1>3 DEF UndoableOf
<1>14. CompensationOk(plan, m) = Unwind(plan, c, ix, "failed_compensated")
  BY <1>4, <1>7 DEF CompensationOk
<1>15. /\ WfFits(plan, Unwind(plan, c, ix, "failed_compensated"))
       /\ M \subseteq ToSet(Unwind(plan, c, ix, "failed_compensated").ledger)
  BY <1>1, <1>3, <1>8, <1>9, <1>10, <1>11, <1>12, <1>13, UnwindFits
<1> QED
  BY <1>9, <1>14, <1>15

\* An undo that fails ends the rollback where it is.
LEMMA CompensationErrFits ==
  ASSUME NEW plan \in Seq(BOOLEAN), NEW m, NEW k, NEW U, NEW ix, NEW id, NEW n, NEW L,
         WfIs(m, "compensating", k, U, ix, id, n, L), WfFits(plan, m)
  PROVE  /\ WfFits(plan, CompensationErr(m))
         /\ L \subseteq ToSet(CompensationErr(m).ledger)
<1>1. k \in Nat /\ ix \in Nat /\ id \in Nat /\ n \in Nat
  BY PartsTyped
<1>2. /\ OwesFit(plan, k, U, L) /\ IdsFit(id, L, n)
      /\ StageFits(plan, "compensating", k, U, ix, L, n)
  BY PartsFit
<1>3. id = n /\ k <= Len(plan)
  BY <1>2 DEF StageFits, IdsFit
<1>4. PICK M : M = L \union {ConfirmedOf(n)}
  OBVIOUS
<1>5. WfIs(Confirm(m), "compensating", k, U, ix, id, n, M)
  BY <1>3, <1>4, ConfirmIs
<1>6. OwesFit(plan, k, U, M) /\ IdsFit(id, M, n) /\ L \subseteq M
  BY <1>1, <1>2, <1>3, <1>4, ConfirmedFits
<1>7. WfIs(CompensationErr(m), "compensation_failed", k, U, ix, id, n, M)
  BY <1>5, ComesToIs DEF CompensationErr, WfStatuses
<1>8. StageFits(plan, "compensation_failed", k, U, ix, M, n)
  BY <1>3 DEF StageFits
<1>9. WfFits(plan, CompensationErr(m))
  BY <1>6, <1>7, <1>8, PartsFit
<1> QED
  BY <1>6, <1>7, <1>9 DEF WfIs

\* Whatever result comes in, the model fits, and what was owed is on the ledger still.
LEMMA RouteFits ==
  ASSUME NEW plan \in Seq(BOOLEAN), NEW m, WfFits(plan, m), NEW msg \in WfResults
  PROVE  /\ WfFits(plan, Route(plan, m, msg))
         /\ ToSet(m.ledger) \subseteq ToSet(Route(plan, m, msg).ledger)
<1>1. PICK st, k, U, ix, id, n, L :
        /\ st = m.wf.status /\ k = m.wf.completed /\ U = ToSet(m.wf.undone)
        /\ ix = m.wf.index /\ id = m.wf.id /\ n = m.counter /\ L = ToSet(m.ledger)
  OBVIOUS
<1>2. WfIs(m, st, k, U, ix, id, n, L)
  BY <1>1 DEF WfIs, WfFits
<1>3. CASE ~Expects(m, msg)
  BY <1>3 DEF Route
<1>4. CASE Expects(m, msg) /\ msg.side = "do" /\ msg.ok
  <2>1. st = "running" /\ Route(plan, m, msg) = ActivityOk(plan, m)
    BY <1>1, <1>4 DEF Expects, Route
  <2> QED
    BY <1>1, <1>2, <2>1, ActivityOkFits
<1>5. CASE Expects(m, msg) /\ msg.side = "do" /\ ~msg.ok
  <2>1. st = "running" /\ Route(plan, m, msg) = ActivityErr(plan, m)
    BY <1>1, <1>5 DEF Expects, Route
  <2> QED
    BY <1>1, <1>2, <2>1, ActivityErrFits
<1>6. CASE Expects(m, msg) /\ msg.side # "do" /\ msg.ok
  <2>1. st = "compensating" /\ Route(plan, m, msg) = CompensationOk(plan, m)
    BY <1>1, <1>6 DEF Expects, Route
  <2> QED
    BY <1>1, <1>2, <2>1, CompensationOkFits
<1>7. CASE Expects(m, msg) /\ msg.side # "do" /\ ~msg.ok
  <2>1. st = "compensating" /\ Route(plan, m, msg) = CompensationErr(m)
    BY <1>1, <1>7 DEF Expects, Route
  <2> QED
    BY <1>1, <1>2, <2>1, CompensationErrFits
<1> QED
  BY <1>3, <1>4, <1>5, <1>6, <1>7

-----------------------------------------------------------------------------
\* What the effects asked of a ledger that fits are: exact.
LEMMA AskedAreExact ==
  ASSUME WfFits(wfPlan, wfLive), wfPerformed \subseteq Asked(ToSet(wfLive.ledger))
  PROVE  EffectsAreExact
<1>1. PICK st, k, U, ix, id, n, L :
        /\ st = wfLive.wf.status /\ k = wfLive.wf.completed
        /\ U = ToSet(wfLive.wf.undone) /\ ix = wfLive.wf.index /\ id = wfLive.wf.id
        /\ n = wfLive.counter /\ L = ToSet(wfLive.ledger)
  OBVIOUS
<1>2. WfIs(wfLive, st, k, U, ix, id, n, L)
  BY <1>1 DEF WfIs, WfFits
<1>3. /\ OwesFit(wfPlan, k, U, L) /\ StageFits(wfPlan, st, k, U, ix, L, n)
      /\ IdsFit(id, L, n) /\ k \in Nat /\ n \in Nat
  BY <1>2, PartsFit, PartsTyped
<1>4. Undoable = UndoableOf(wfPlan, k)
  BY <1>1 DEF Undoable, UndoableOf
<1>5. ASSUME NEW p \in wfPerformed
      PROVE  \E e \in WfOwing(L) : p.id = e.id /\ p.what = e.what
  BY <1>1 DEF Asked
<1>6. \A e \in WfOwing(L) : e.id \in Nat /\ (IsDo(e, k) \/ IsUndo(e, wfPlan, k, U))
  BY <1>3 DEF OwesFit, IdsFit, WfOwing
<1>7. ASSUME NEW p \in wfPerformed, NEW q \in wfPerformed PROVE p.id = q.id <=> p.what = q.what
  <2>1. PICK d \in WfOwing(L) : p.id = d.id /\ p.what = d.what
    BY <1>5
  <2>2. PICK e \in WfOwing(L) : q.id = e.id /\ q.what = e.what
    BY <1>5
  <2>3. d.id \in Nat /\ e.id \in Nat
    BY <1>6
  <2>4. CASE IsDo(d, k) /\ IsDo(e, k)
    BY <2>1, <2>2, <2>4 DEF IsDo
  <2>5. CASE IsDo(d, k) /\ IsUndo(e, wfPlan, k, U)
    <3>1. d.id # e.id
      BY <1>3, <2>3, <2>5 DEF IsDo, IsUndo
    <3>2. d.what[1] # e.what[1]
      BY <2>5 DEF IsDo, IsUndo
    <3> QED
      BY <2>1, <2>2, <3>1, <3>2
  <2>6. CASE IsUndo(d, wfPlan, k, U) /\ IsDo(e, k)
    <3>1. d.id # e.id
      BY <1>3, <2>3, <2>6 DEF IsDo, IsUndo
    <3>2. d.what[1] # e.what[1]
      BY <2>6 DEF IsDo, IsUndo
    <3> QED
      BY <2>1, <2>2, <3>1, <3>2
  <2>7. CASE IsUndo(d, wfPlan, k, U) /\ IsUndo(e, wfPlan, k, U)
    <3>1. /\ d.what = <<"undo", d.what[2]>> /\ e.what = <<"undo", e.what[2]>>
          /\ d.what[1] = "undo" /\ e.what[1] = "undo"
          /\ d.what[2] \in Nat /\ e.what[2] \in Nat
      BY <2>7 DEF IsUndo, UndoableOf
    <3>2. /\ d.id < e.id => d.what[2] > e.what[2]
          /\ e.id < d.id => e.what[2] > d.what[2]
          /\ d.id = e.id => d.what[2] = e.what[2]
      BY <1>3, <3>1 DEF OwesFit
    <3>3. d.id = e.id <=> d.what[2] = e.what[2]
      BY <2>3, <3>1, <3>2
    <3>4. d.what = e.what <=> d.what[2] = e.what[2]
      BY <3>1
    <3> QED
      BY <2>1, <2>2, <3>3, <3>4
  <2> QED
    BY <1>6, <2>4, <2>5, <2>6, <2>7
<1>8. ASSUME NEW p \in wfPerformed, p.what[1] = "undo"
      PROVE  /\ p.what[2] \in Undoable
             /\ {i \in Undoable : i > p.what[2]} \subseteq ToSet(wfLive.wf.undone)
  <2>1. PICK e \in WfOwing(L) : p.what = e.what
    BY <1>5
  <2>2. IsUndo(e, wfPlan, k, U)
    BY <1>6, <1>8, <2>1 DEF IsDo
  <2> QED
    BY <1>1, <1>4, <2>1, <2>2 DEF IsUndo
<1>9. wfLive.wf.status = "failed_compensated" => ToSet(wfLive.wf.undone) = Undoable
  BY <1>1, <1>3, <1>4 DEF StageFits
<1> QED
  BY <1>7, <1>8, <1>9 DEF EffectsAreExact, OneIdPerEffect, UnwindIsExact

-----------------------------------------------------------------------------
\* The models after the results of a log, one by one.
IsPlan(plan) == plan \in Seq(BOOLEAN) /\ plan # <<>>
Replays(f, plan, log, n) ==
  /\ f[0] = InitWf
  /\ \A k \in 0 .. n : WfFits(plan, f[k])
  /\ \A k \in 1 .. n : f[k] = Route(plan, f[k - 1], log[k])

\* A load with no snapshot folds the results from the first.
LEMMA LoadFolds ==
  ASSUME NEW plan, IsPlan(plan), NEW log \in Seq(WfResults),
         NEW n \in Nat, n = Len(log), NEW snapshot, snapshot.seq = 0
  PROVE  \E f : Replays(f, plan, log, n) /\ LoadGrain(plan, log, snapshot) = f[n]
<1> DEFINE X == {m \in WfModels : WfFits(plan, m)}
           G == [p \in (1 .. n) \X X |-> Route(plan, p[2], log[p[1]])]
           Rec(f) == f = [k \in 0 .. n |-> IF k = 0 THEN InitWf
                                           ELSE Route(plan, f[k - 1], log[k])]
<1>1. \A m : WfFits(plan, m) => m \in X
  BY DEF WfFits
<1>2. plan \in Seq(BOOLEAN) /\ InitWf \in X
  BY <1>1, InitWfFits DEF IsPlan
<1>3. \A k \in 1 .. n : log[k] \in WfResults
  OBVIOUS
<1>4. \A m \in X : WfFits(plan, m)
  OBVIOUS
<1> HIDE DEF X
<1>5. \A k \in 1 .. n, m \in X : Route(plan, m, log[k]) \in X
  BY <1>1, <1>2, <1>3, <1>4, RouteFits
<1>6. G \in [(1 .. n) \X X -> X]
  BY <1>5
<1>7. \A k \in 1 .. n, m \in X : G[<<k, m>>] = Route(plan, m, log[k])
  OBVIOUS
<1> HIDE DEF G
<1>8. PICK g : g \in Recursions(n, X, InitWf, G)
  BY <1>2, <1>6, RecursionExists
<1>9. Rec(g)
  <2>1. /\ g \in [0 .. n -> X]
        /\ \A k \in 0 .. n : g[k] = IF k = 0 THEN InitWf ELSE G[<<k, g[k - 1]>>]
    BY <1>8 DEF Recursions
  <2>2. \A k \in 1 .. n : g[k] = Route(plan, g[k - 1], log[k])
    <3> TAKE k \in 1 .. n
    <3>1. k # 0 /\ k \in 0 .. n /\ k - 1 \in 0 .. n
      OBVIOUS
    <3>2. g[k] = G[<<k, g[k - 1]>>] /\ g[k - 1] \in X
      BY <2>1, <3>1
    <3> QED
      BY <1>7, <3>2
  <2>3. \A k \in 0 .. n : k # 0 => k \in 1 .. n
    OBVIOUS
  <2>4. g[0] = InitWf
    <3>1. 0 \in 0 .. n
      OBVIOUS
    <3> QED
      BY <2>1, <3>1
  <2> QED
    BY <2>1, <2>2, <2>3, <2>4
<1> DEFINE f == CHOOSE x : Rec(x)
<1>10. Rec(f)
  BY <1>9
<1>11. LoadGrain(plan, log, snapshot) = Rehydrate(f[n])
  BY DEF LoadGrain
<1> HIDE DEF f
<1>12. /\ f[0] = InitWf
       /\ \A k \in 1 .. n : f[k] = Route(plan, f[k - 1], log[k])
  <2>1. 0 \in 0 .. n /\ \A k \in 1 .. n : k \in 0 .. n /\ k # 0
    OBVIOUS
  <2>2. \A k \in 0 .. n : f[k] = IF k = 0 THEN InitWf ELSE Route(plan, f[k - 1], log[k])
    BY <1>10, Zenon
  <2> HIDE DEF Rec
  <2> QED
    BY <2>1, <2>2
<1> HIDE DEF Rec
<1> DEFINE P == {k \in Nat : k <= n => f[k] \in X}
<1>13. 0 \in P
  BY <1>2, <1>12
<1>14. ASSUME NEW k \in Nat, k \in P PROVE k + 1 \in P
  <2> SUFFICES ASSUME k + 1 <= n PROVE f[k + 1] \in X
    OBVIOUS
  <2>1. k + 1 \in 1 .. n /\ (k + 1) - 1 = k /\ f[k] \in X
    BY <1>14
  <2>2. f[k + 1] = Route(plan, f[k], log[k + 1])
    BY <1>12, <2>1
  <2> QED
    BY <1>5, <2>1, <2>2
<1> HIDE DEF P
<1>15. \A k \in Nat : k \in P
  BY <1>13, <1>14, NumberInduction
<1>16. \A k \in 0 .. n : f[k] \in X
  BY <1>15 DEF P
<1>17. \A k \in 0 .. n : WfFits(plan, f[k])
  BY <1>4, <1>16
<1>18. WfFits(plan, f[n])
  BY <1>17
<1>19. LoadGrain(plan, log, snapshot) = f[n]
  BY <1>11, <1>18, RehydrateFits
<1>20. Replays(f, plan, log, n)
  BY <1>12, <1>17 DEF Replays
<1> QED
  BY <1>19, <1>20

\* One more result is folded after the rest.
LEMMA LoadExtends ==
  ASSUME NEW plan, IsPlan(plan), NEW log \in Seq(WfResults),
         NEW msg \in WfResults, NEW snapshot, snapshot.seq = 0
  PROVE  LoadGrain(plan, Append(log, msg), snapshot)
           = Route(plan, LoadGrain(plan, log, snapshot), msg)
<1>1. PICK n \in Nat : n = Len(log)
  OBVIOUS
<1>2. PICK long : long = Append(log, msg)
  OBVIOUS
<1>3. /\ long \in Seq(WfResults) /\ Len(long) = n + 1 /\ long[n + 1] = msg
      /\ \A k \in 1 .. n : long[k] = log[k]
  BY <1>1, <1>2
<1>4. PICK f : Replays(f, plan, log, n) /\ LoadGrain(plan, log, snapshot) = f[n]
  BY <1>1, LoadFolds
<1>5. PICK l \in Nat : l = n + 1
  OBVIOUS
<1>6. PICK g : Replays(g, plan, long, l) /\ LoadGrain(plan, long, snapshot) = g[l]
  BY <1>3, <1>5, LoadFolds
<1>7. /\ f[0] = InitWf /\ \A k \in 1 .. n : f[k] = Route(plan, f[k - 1], log[k])
  BY <1>4 DEF Replays
<1>8. /\ g[0] = InitWf /\ \A k \in 1 .. n + 1 : g[k] = Route(plan, g[k - 1], long[k])
  BY <1>5, <1>6 DEF Replays
<1> DEFINE P == {k \in Nat : k <= n => f[k] = g[k]}
<1>9. 0 \in P
  BY <1>7, <1>8
<1>10. ASSUME NEW k \in Nat, k \in P PROVE k + 1 \in P
  <2> SUFFICES ASSUME k + 1 <= n PROVE f[k + 1] = g[k + 1]
    OBVIOUS
  <2>1. k + 1 \in 1 .. n /\ k + 1 \in 1 .. n + 1 /\ (k + 1) - 1 = k /\ f[k] = g[k]
    BY <1>10
  <2>2. f[k + 1] = Route(plan, f[k], log[k + 1])
    BY <1>7, <2>1
  <2>3. g[k + 1] = Route(plan, g[k], long[k + 1])
    BY <1>8, <2>1
  <2> QED
    BY <1>3, <2>1, <2>2, <2>3
<1> HIDE DEF P
<1>11. \A k \in Nat : k \in P
  BY <1>9, <1>10, NumberInduction
<1>12. f[n] = g[n]
  BY <1>11 DEF P
<1>13. g[n + 1] = Route(plan, g[n], msg)
  <2>1. n + 1 \in 1 .. n + 1 /\ (n + 1) - 1 = n
    OBVIOUS
  <2> QED
    BY <1>3, <1>8, <2>1
<1> QED
  BY <1>2, <1>4, <1>5, <1>6, <1>12, <1>13

\* A load with a snapshot of all there is takes the snapshot.
LEMMA LoadTakes ==
  ASSUME NEW plan, NEW log, NEW n \in Nat \ {0}, Len(log) = n,
         NEW m, WfFits(plan, m), NEW snapshot, snapshot.seq = n, snapshot.of = m
  PROVE  LoadGrain(plan, log, snapshot) = m
<1> DEFINE base == [m EXCEPT !.counter = 0]
           Rec(f) == f = [k \in n .. n |-> IF k = n THEN base
                                           ELSE Route(plan, f[k - 1], log[k])]
           g == [k \in n .. n |-> base]
<1>1. Rec(g)
  <2>1. \A k \in n .. n : k = n
    OBVIOUS
  <2> QED
    BY <2>1
<1> DEFINE f == CHOOSE x : Rec(x)
<1>2. Rec(f)
  BY <1>1
<1>3. LoadGrain(plan, log, snapshot) = Rehydrate(f[n])
  BY DEF LoadGrain
<1> HIDE DEF f, base
<1>4. f[n] = base
  <2>1. n \in n .. n
    OBVIOUS
  <2>2. \A k \in n .. n : f[k] = IF k = n THEN base ELSE Route(plan, f[k - 1], log[k])
    BY <1>2, Zenon
  <2> HIDE DEF Rec
  <2> QED
    BY <2>1, <2>2
<1>5. Rehydrate(base) = m
  BY RehydrateFits DEF base
<1> QED
  BY <1>3, <1>4, <1>5

-----------------------------------------------------------------------------
\* An event of the ledger adds nothing to what is pending but what it owes itself.
LEMMA ApplyKeeps ==
  ASSUME NEW pending \in Seq(WfEvents), NEW T, ToSet(pending) \subseteq T,
         NEW e \in WfEvents, e.type = "effect_owed" => e \in T
  PROVE  /\ ApplyEffect(pending, e) \in Seq(WfEvents)
         /\ ToSet(ApplyEffect(pending, e)) \subseteq T
<1> DEFINE S == {o \in ToSet(pending) : o.id # e.id}
<1>1. PICK others : others = Kept(pending, S)
  OBVIOUS
<1>2. S \subseteq T
  OBVIOUS
<1>3. PICK again : again = [i \in DOMAIN pending |->
                              IF pending[i].id = e.id THEN e ELSE pending[i]]
  OBVIOUS
<1>4. ApplyEffect(pending, e) = IF e.type = "effect_confirmed" THEN others
                                ELSE IF others = pending THEN Append(pending, e)
                                ELSE again
  BY <1>1, <1>3 DEF ApplyEffect
<1>5. e.type = "effect_confirmed" \/ e \in T
  BY DEF WfEvents
<1> HIDE DEF S
<1>6. others \in Seq(WfEvents) /\ ToSet(others) \subseteq T
  <2>1. others \in Seq(WfEvents) /\ \E h : Picks(h, others, pending, Len(pending), S)
    BY <1>1, KeptPicks
  <2> QED
    BY <1>2, <2>1 DEF Picks, ToSet
<1>7. CASE e.type = "effect_confirmed"
  BY <1>4, <1>6, <1>7
<1>8. CASE e.type # "effect_confirmed" /\ others = pending
  <2>1. /\ Append(pending, e) \in Seq(WfEvents)
        /\ ToSet(Append(pending, e)) = ToSet(pending) \union {e}
    BY Appended
  <2> QED
    BY <1>4, <1>5, <1>8, <2>1
<1>9. CASE e.type # "effect_confirmed" /\ others # pending
  <2>1. \A i \in 1 .. Len(pending) : pending[i] \in WfEvents /\ pending[i] \in T
    BY DEF ToSet
  <2>2. again \in [1 .. Len(pending) -> WfEvents]
    BY <1>3, <2>1
  <2>3. again \in Seq(WfEvents) /\ DOMAIN again = 1 .. Len(pending)
    BY <2>2
  <2>4. \A i \in 1 .. Len(pending) : again[i] \in T
    BY <1>3, <1>5, <1>9, <2>1
  <2>5. ToSet(again) \subseteq T
    BY <2>3, <2>4 DEF ToSet
  <2> QED
    BY <1>4, <1>9, <2>3, <2>5
<1> QED
  BY <1>7, <1>8, <1>9

\* What is still owed is among what the ledger owes.
LEMMA SurvivingOwed ==
  ASSUME NEW l \in Seq(WfEvents)
  PROVE  /\ Surviving(l) \in Seq(WfEvents)
         /\ ToSet(Surviving(l)) \subseteq WfOwing(ToSet(l))
<1>1. PICK n \in Nat : n = Len(l)
  OBVIOUS
<1>2. PICK T : T = WfOwing(ToSet(l))
  OBVIOUS
<1> DEFINE X == {q \in Seq(WfEvents) : ToSet(q) \subseteq T}
           G == [p \in (1 .. n) \X X |-> ApplyEffect(p[2], l[p[1]])]
           Rec(f) == f = [k \in 0 .. n |-> IF k = 0 THEN <<>>
                                           ELSE ApplyEffect(f[k - 1], l[k])]
<1>3. \A k \in 1 .. n : l[k] \in WfEvents /\ (l[k].type = "effect_owed" => l[k] \in T)
  <2>1. \A k \in 1 .. n : l[k] \in WfEvents /\ l[k] \in ToSet(l)
    BY <1>1 DEF ToSet
  <2> QED
    BY <1>2, <2>1 DEF WfOwing
<1>4. <<>> \in X
  BY DEF ToSet
<1>5. \A q \in X : q \in Seq(WfEvents) /\ ToSet(q) \subseteq T
  OBVIOUS
<1>6. \A q : q \in Seq(WfEvents) /\ ToSet(q) \subseteq T => q \in X
  OBVIOUS
<1> HIDE DEF X
<1>7. \A k \in 1 .. n, q \in X : ApplyEffect(q, l[k]) \in X
  BY <1>3, <1>5, <1>6, ApplyKeeps
<1>8. G \in [(1 .. n) \X X -> X]
  BY <1>7
<1>9. \A k \in 1 .. n, q \in X : G[<<k, q>>] = ApplyEffect(q, l[k])
  OBVIOUS
<1> HIDE DEF G
<1>10. PICK g : g \in Recursions(n, X, <<>>, G)
  BY <1>4, <1>8, RecursionExists
<1>11. Rec(g)
  <2>1. /\ g \in [0 .. n -> X]
        /\ \A k \in 0 .. n : g[k] = IF k = 0 THEN <<>> ELSE G[<<k, g[k - 1]>>]
    BY <1>10 DEF Recursions
  <2>2. \A k \in 1 .. n : g[k] = ApplyEffect(g[k - 1], l[k])
    <3> TAKE k \in 1 .. n
    <3>1. k # 0 /\ k \in 0 .. n /\ k - 1 \in 0 .. n
      OBVIOUS
    <3>2. g[k] = G[<<k, g[k - 1]>>] /\ g[k - 1] \in X
      BY <2>1, <3>1
    <3> QED
      BY <1>9, <3>2
  <2>3. \A k \in 0 .. n : k # 0 => k \in 1 .. n
    OBVIOUS
  <2>4. g[0] = <<>>
    <3>1. 0 \in 0 .. n
      OBVIOUS
    <3> QED
      BY <2>1, <3>1
  <2> QED
    BY <2>1, <2>2, <2>3, <2>4
<1> DEFINE f == CHOOSE x : Rec(x)
<1>12. Rec(f)
  BY <1>11
<1>13. Surviving(l) = f[n]
  BY <1>1 DEF Surviving
<1> HIDE DEF f
<1>14. /\ f[0] = <<>>
       /\ \A k \in 1 .. n : f[k] = ApplyEffect(f[k - 1], l[k])
  <2>1. 0 \in 0 .. n /\ \A k \in 1 .. n : k \in 0 .. n /\ k # 0
    OBVIOUS
  <2>2. \A k \in 0 .. n : f[k] = IF k = 0 THEN <<>> ELSE ApplyEffect(f[k - 1], l[k])
    BY <1>12, Zenon
  <2> HIDE DEF Rec
  <2> QED
    BY <2>1, <2>2
<1> HIDE DEF Rec
<1> DEFINE P == {k \in Nat : k <= n => f[k] \in X}
<1>15. 0 \in P
  BY <1>4, <1>14
<1>16. ASSUME NEW k \in Nat, k \in P PROVE k + 1 \in P
  <2> SUFFICES ASSUME k + 1 <= n PROVE f[k + 1] \in X
    OBVIOUS
  <2>1. k + 1 \in 1 .. n /\ (k + 1) - 1 = k /\ f[k] \in X
    BY <1>16
  <2>2. f[k + 1] = ApplyEffect(f[k], l[k + 1])
    BY <1>14, <2>1
  <2> QED
    BY <1>7, <2>1, <2>2
<1> HIDE DEF P
<1>17. \A k \in Nat : k \in P
  BY <1>15, <1>16, NumberInduction
<1>18. f[n] \in X
  BY <1>17 DEF P
<1> QED
  BY <1>2, <1>5, <1>13, <1>18

\* One sequence after the other.
LEMMA JoinedSets ==
  ASSUME NEW S, NEW a \in Seq(S), NEW b \in Seq(S), NEW T, ToSet(a) \subseteq T,
         ToSet(b) \subseteq T
  PROVE  a \o b \in Seq(S) /\ ToSet(a \o b) \subseteq T
<1>1. /\ a \o b \in Seq(S) /\ Len(a \o b) = Len(a) + Len(b)
      /\ \A i \in 1 .. Len(a \o b) :
           (a \o b)[i] = IF i <= Len(a) THEN a[i] ELSE b[i - Len(a)]
  BY ConcatProperties
<1>2. Len(a) \in Nat /\ Len(b) \in Nat
  OBVIOUS
<1>3. \A i \in 1 .. Len(a) : a[i] \in T
  BY DEF ToSet
<1>4. \A i \in 1 .. Len(b) : b[i] \in T
  BY DEF ToSet
<1>5. PICK c \in Seq(S) : c = a \o b
  BY <1>1
<1>6. \A i \in 1 .. Len(c) : c[i] \in T
  <2> TAKE i \in 1 .. Len(c)
  <2>1. i <= Len(a) => i \in 1 .. Len(a)
    BY <1>2
  <2>2. ~(i <= Len(a)) => i - Len(a) \in 1 .. Len(b)
    BY <1>1, <1>2, <1>5
  <2>3. c[i] = IF i <= Len(a) THEN a[i] ELSE b[i - Len(a)]
    BY <1>1, <1>5
  <2> QED
    BY <1>3, <1>4, <2>1, <2>2, <2>3
<1>7. ToSet(c) \subseteq T
  BY <1>6 DEF ToSet
<1> QED
  BY <1>1, <1>5, <1>7

LEMMA TailSet ==
  ASSUME NEW S, NEW a \in Seq(S), a # <<>>
  PROVE  Tail(a) \in Seq(S) /\ ToSet(Tail(a)) \subseteq ToSet(a) /\ Head(a) \in ToSet(a)
BY DEF ToSet

\* A load with no snapshot is that of all the results.
LEMMA LoadAnew ==
  ASSUME NEW plan, NEW log, NEW snapshot, snapshot.seq = 0
  PROVE  LoadGrain(plan, log, snapshot) = LoadGrain(plan, log, NoWfSnapshot)
BY DEF LoadGrain, NoWfSnapshot

-----------------------------------------------------------------------------
\* The durable model: all the results that landed, folded from the first.
Landed == LoadGrain(wfPlan, wfLog, NoWfSnapshot)

\* A snapshot of all that landed is the durable model.
SnapshotTakes(D) ==
  /\ wfSnapshot.seq \in 0 .. Len(wfLog)
  /\ wfSnapshot.seq # 0 /\ wfSnapshot.seq = Len(wfLog) => wfSnapshot.of = D

\* Against the durable model D: what callers have yet to perform, and what was
\* performed, is owed there; memory is ahead by the result whose event is under
\* way, and no more when it is the snapshot.
EventUnderWay(D, c) ==
  /\ wfPuts = <<>>
  /\ \E msg \in WfResults : /\ wfAppends = <<[msg |-> msg, by |-> c]>>
                             /\ wfLive = Route(wfPlan, D, msg)

SnapshotUnderWay(D, c) ==
  /\ wfAppends = <<>> /\ wfLive = D
  /\ wfPuts = <<[seq |-> Len(wfLog), of |-> D, by |-> c]>>

NoneUnderWay(D) == wfAppends = <<>> /\ wfPuts = <<>> /\ wfLive = D

BehindBy(D, c) ==
  IF wfChains[c].at = "append" THEN EventUnderWay(D, c) \/ SnapshotUnderWay(D, c)
                               ELSE NoneUnderWay(D)

ChainsTyped ==
  wfChains \in [WfCallers -> [at : {"rest", "perform", "append"}, todo : Seq(WfEvents)]]

ChainFits(D, c) ==
  /\ ToSet(wfChains[c].todo) \subseteq WfOwing(ToSet(D.ledger))
  /\ wfChains[c].at = "perform" => wfChains[c].todo # <<>>

Durably(D) ==
  /\ WfFits(wfPlan, D)
  /\ ChainsTyped
  /\ \A c \in WfCallers : ChainFits(D, c) /\ BehindBy(D, c)
  /\ wfPerformed \subseteq Asked(ToSet(D.ledger))

WfInv ==
  /\ IsPlan(wfPlan) /\ wfLog \in Seq(WfResults)
  /\ SnapshotTakes(Landed)
  /\ Durably(Landed)

\* A ledger that grows owes what it did.
LEMMA AskedGrows ==
  ASSUME NEW L, NEW M, L \subseteq M
  PROVE  WfOwing(L) \subseteq WfOwing(M) /\ Asked(L) \subseteq Asked(M)
BY DEF WfOwing, Asked

LEMMA WfStarts == WfInit => WfInv
<1> SUFFICES ASSUME WfInit PROVE WfInv
  OBVIOUS
<1>1. IsPlan(wfPlan)
  BY WorkflowAssumption DEF WfInit, IsPlan
<1>2. WfFits(wfPlan, InitWf)
  BY <1>1, InitWfFits DEF IsPlan
<1>3. wfLive = InitWf
  BY <1>2, RehydrateFits DEF WfInit
<1>4. /\ wfLog = <<>> /\ wfAppends = <<>> /\ wfPuts = <<>> /\ wfSnapshot.seq = 0
      /\ wfPerformed = {} /\ wfChains = AllResting
  BY DEF WfInit, NoWfSnapshot
<1>5. wfLog \in Seq(WfResults) /\ Len(wfLog) = 0
  BY <1>4
<1>6. Landed = InitWf
  <2>1. PICK n \in Nat : n = Len(wfLog)
    BY <1>5
  <2>2. PICK p, l, s : p = wfPlan /\ l = wfLog /\ s = NoWfSnapshot
    OBVIOUS
  <2>3. IsPlan(p) /\ l \in Seq(WfResults) /\ n = Len(l) /\ s.seq = 0
    BY <1>1, <1>5, <2>1, <2>2 DEF NoWfSnapshot
  <2>4. PICK f : Replays(f, p, l, n) /\ LoadGrain(p, l, s) = f[n]
    BY <2>3, LoadFolds
  <2> QED
    BY <1>5, <2>1, <2>2, <2>4 DEF Replays, Landed
<1>7. SnapshotTakes(InitWf)
  BY <1>4, <1>5 DEF SnapshotTakes
<1>8. Durably(InitWf)
  <2>1. \A c \in WfCallers : wfChains[c] = [at |-> "rest", todo |-> <<>>]
    BY <1>4 DEF AllResting, Resting
  <2>2. ChainsTyped
    BY <1>4 DEF AllResting, Resting, ChainsTyped
  <2>3. ToSet(<<>>) = {}
    BY DEF ToSet
  <2>4. \A c \in WfCallers : ChainFits(InitWf, c) /\ BehindBy(InitWf, c)
    BY <1>3, <1>4, <2>1, <2>3 DEF ChainFits, BehindBy, NoneUnderWay
  <2> QED
    BY <1>2, <1>4, <2>2, <2>4 DEF Durably
<1> QED
  BY <1>1, <1>5, <1>6, <1>7, <1>8 DEF WfInv

-----------------------------------------------------------------------------
\* The steps, of the one caller there is.

\* Where log and snapshot stay, the durable model does.
LEMMA LandedStays ==
  ASSUME UNCHANGED <<wfPlan, wfLog, wfSnapshot>>
  PROVE  Landed' = Landed /\ (SnapshotTakes(Landed) => SnapshotTakes(Landed)')
<1>1. Landed' = Landed
  BY DEF Landed
<1>2. SnapshotTakes(Landed)' <=> SnapshotTakes(Landed)
  BY <1>1 DEF SnapshotTakes
<1> QED
  BY <1>1, <1>2

\* A result is folded into memory, and its append begun.
LEMMA DeliverKeeps ==
  ASSUME WfInv, NEW c, WfCallers = {c}, wfChains[c].at # "append",
         NEW msg \in WfResults, NEW todo \in Seq(WfEvents),
         ToSet(todo) \subseteq ToSet(wfChains[c].todo),
         DeliverResult(c, msg, todo)
  PROVE  WfInv'
<1>1. PICK D : D = Landed
  OBVIOUS
<1>2. IsPlan(wfPlan) /\ wfLog \in Seq(WfResults) /\ SnapshotTakes(Landed) /\ Durably(D)
  BY <1>1 DEF WfInv
<1>3. /\ ChainsTyped /\ ChainFits(D, c) /\ BehindBy(D, c)
      /\ wfPerformed \subseteq Asked(ToSet(D.ledger)) /\ WfFits(wfPlan, D)
  BY <1>2 DEF Durably
<1>4. wfAppends = <<>> /\ wfPuts = <<>> /\ wfLive = D
  BY <1>3 DEF BehindBy, NoneUnderWay
<1>5. /\ wfPlan' = wfPlan /\ wfLog' = wfLog /\ wfPuts' = wfPuts
      /\ wfSnapshot' = wfSnapshot /\ wfPerformed' = wfPerformed
      /\ wfLive' = Route(wfPlan, D, msg) /\ wfAppends' = <<[msg |-> msg, by |-> c]>>
      /\ wfChains' = [wfChains EXCEPT ![c] = [at |-> "append", todo |-> todo]]
  BY <1>4 DEF DeliverResult
<1>6. wfChains'[c] = [at |-> "append", todo |-> todo] /\ ChainsTyped'
  BY <1>3, <1>5 DEF ChainsTyped
<1>7. Durably(D)'
  <2>1. /\ wfChains'[c].at = "append" /\ wfChains'[c].todo = todo
        /\ ToSet(todo) \subseteq WfOwing(ToSet(D.ledger))
    BY <1>3, <1>6 DEF ChainFits
  <2>2. EventUnderWay(D, c)'
    BY <1>4, <1>5 DEF EventUnderWay
  <2>3. ChainFits(D, c)' /\ BehindBy(D, c)'
    BY <2>1, <2>2 DEF ChainFits, BehindBy
  <2>4. (\A d \in WfCallers : ChainFits(D, d) /\ BehindBy(D, d))'
    BY <2>3
  <2> QED
    BY <1>3, <1>5, <1>6, <2>4 DEF Durably
<1>8. Landed' = D /\ SnapshotTakes(Landed)'
  BY <1>1, <1>2, <1>5, LandedStays
<1> QED
  BY <1>2, <1>5, <1>7, <1>8 DEF WfInv

\* A caller goes on with what the durable model owes.
LEMMA GoesOnFits ==
  ASSUME NEW c, WfCallers = {c}, ChainsTyped, NEW D, NEW todo \in Seq(WfEvents),
         ToSet(todo) \subseteq WfOwing(ToSet(D.ledger)),
         wfPerformed \subseteq Asked(ToSet(D.ledger)), GoesOn(c, todo)
  PROVE  /\ ChainsTyped' /\ ChainFits(D, c)' /\ wfChains'[c].at # "append"
         /\ wfPerformed' \subseteq Asked(ToSet(D.ledger))
<1>1. ToSet(<<>>) = {}
  BY DEF ToSet
<1>2. CASE todo = <<>>
  <2>1. wfChains' = [wfChains EXCEPT ![c] = [at |-> "rest", todo |-> <<>>]]
    BY <1>2 DEF GoesOn, Resting
  <2>2. wfChains'[c] = [at |-> "rest", todo |-> <<>>] /\ ChainsTyped'
    BY <2>1 DEF ChainsTyped
  <2>3. wfPerformed' = wfPerformed
    <3>1. {1} \intersect DOMAIN todo = {}
      BY <1>2
    <3> QED
      BY <3>1 DEF GoesOn
  <2> QED
    BY <1>1, <2>2, <2>3 DEF ChainFits
<1>3. CASE todo # <<>>
  <2>1. wfChains' = [wfChains EXCEPT ![c] = [at |-> "perform", todo |-> todo]]
    BY <1>3 DEF GoesOn
  <2>2. wfChains'[c] = [at |-> "perform", todo |-> todo] /\ ChainsTyped'
    BY <2>1 DEF ChainsTyped
  <2>3. \A i \in DOMAIN todo : todo[i] \in WfOwing(ToSet(D.ledger))
    BY DEF ToSet
  <2>4. wfPerformed' \subseteq Asked(ToSet(D.ledger))
    BY <2>3 DEF GoesOn, Asked
  <2> QED
    BY <1>3, <2>2, <2>4 DEF ChainFits
<1> QED
  BY <1>2, <1>3

\* What is asked of a ledger that fits names a side, and an id.
LEMMA ResultOf ==
  ASSUME NEW plan, NEW m, WfFits(plan, m), NEW e \in WfOwing(ToSet(m.ledger)),
         NEW ok \in BOOLEAN
  PROVE  Result(e.what[1], ok, e.id) \in WfResults
<1>1. PICK k, U : OwesFit(plan, k, U, ToSet(m.ledger))
  BY DEF WfFits
<1>2. e.what[1] \in {"do", "undo"}
  BY <1>1 DEF OwesFit, IsDo, IsUndo
<1>3. e.id \in Nat
  BY DEF WfFits, IdsFit, WfOwing
<1> QED
  BY <1>2, <1>3 DEF Result, WfResults

\* The append of the caller is over: what it performs next is what M owes.
LEMMA EndsFit ==
  ASSUME NEW c, WfCallers = {c}, ChainsTyped, NEW M, WfFits(wfPlan, M), wfLive = M,
         ToSet(wfChains[c].todo) \subseteq WfOwing(ToSet(M.ledger)),
         wfPerformed \subseteq Asked(ToSet(M.ledger)), AppendEnds(c)
  PROVE  /\ ChainsTyped' /\ ChainFits(M, c)' /\ wfChains'[c].at # "append"
         /\ wfPerformed' \subseteq Asked(ToSet(M.ledger))
<1>1. PICK l \in Seq(WfEvents) : l = M.ledger
  BY DEF WfFits, WfModels
<1>2. PICK a, b : a = Surviving(l) /\ b = wfChains[c].todo
  OBVIOUS
<1>3. PICK T : T = WfOwing(ToSet(l))
  OBVIOUS
<1>4. a \in Seq(WfEvents) /\ ToSet(a) \subseteq T
  BY <1>2, <1>3, SurvivingOwed
<1>5. b \in Seq(WfEvents) /\ ToSet(b) \subseteq T
  BY <1>1, <1>2, <1>3 DEF ChainsTyped
<1>6. a \o b \in Seq(WfEvents) /\ ToSet(a \o b) \subseteq T
  BY <1>4, <1>5, JoinedSets
<1>7. PICK todo : todo = a \o b
  OBVIOUS
<1>8. todo \in Seq(WfEvents) /\ ToSet(todo) \subseteq WfOwing(ToSet(M.ledger))
  BY <1>1, <1>3, <1>6, <1>7
<1>9. GoesOn(c, todo)
  BY <1>1, <1>2, <1>7 DEF AppendEnds
<1> QED
  BY <1>8, <1>9, GoesOnFits

LEMMA DriveKeeps ==
  ASSUME WfInv, NEW c, WfCallers = {c}, DriveGrain(c)
  PROVE  WfInv'
<1>1. PICK D : D = Landed
  OBVIOUS
<1>2. Durably(D) /\ SnapshotTakes(Landed)
  BY <1>1 DEF WfInv
<1>3. /\ ChainsTyped /\ ChainFits(D, c) /\ BehindBy(D, c)
      /\ wfPerformed \subseteq Asked(ToSet(D.ledger)) /\ WfFits(wfPlan, D)
  BY <1>2 DEF Durably
<1>4. wfAppends = <<>> /\ wfPuts = <<>> /\ wfLive = D
  BY <1>3 DEF BehindBy, NoneUnderWay, DriveGrain
<1>5. UNCHANGED <<wfPlan, wfLive, wfLog, wfSnapshot, wfAppends, wfPuts>>
  BY DEF DriveGrain
<1>6. PICK todo : todo = Surviving(D.ledger)
  OBVIOUS
<1>7. todo \in Seq(WfEvents) /\ ToSet(todo) \subseteq WfOwing(ToSet(D.ledger))
  <2>1. PICK l \in Seq(WfEvents) : l = D.ledger
    BY <1>3 DEF WfFits, WfModels
  <2>2. Surviving(l) \in Seq(WfEvents) /\ ToSet(Surviving(l)) \subseteq WfOwing(ToSet(l))
    BY SurvivingOwed
  <2> QED
    BY <1>6, <2>1, <2>2
<1>8. GoesOn(c, todo)
  BY <1>4, <1>6 DEF DriveGrain
<1>9. /\ ChainsTyped' /\ ChainFits(D, c)' /\ wfChains'[c].at # "append"
      /\ wfPerformed' \subseteq Asked(ToSet(D.ledger))
  BY <1>3, <1>7, <1>8, GoesOnFits
<1>10. BehindBy(D, c)'
  BY <1>4, <1>5, <1>9 DEF BehindBy, NoneUnderWay
<1>11. Durably(D)'
  <2>1. (\A d \in WfCallers : ChainFits(D, d) /\ BehindBy(D, d))'
    BY <1>9, <1>10
  <2> QED
    BY <1>3, <1>5, <1>9, <2>1 DEF Durably
<1>12. Landed' = D /\ SnapshotTakes(Landed)'
  BY <1>1, <1>2, <1>5, LandedStays
<1> QED
  BY <1>5, <1>11, <1>12 DEF WfInv

LEMMA PerformedKeeps ==
  ASSUME WfInv, NEW c, WfCallers = {c}, NEW ok \in BOOLEAN, Performed(c, ok)
  PROVE  WfInv'
<1>1. PICK D : D = Landed
  OBVIOUS
<1>2. ChainsTyped /\ ChainFits(D, c) /\ WfFits(wfPlan, D)
  BY <1>1 DEF WfInv, Durably
<1>3. wfChains[c].at = "perform"
  BY DEF Performed
<1>4. PICK t \in Seq(WfEvents) : t = wfChains[c].todo
  BY <1>2 DEF ChainsTyped
<1>5. t # <<>> /\ ToSet(t) \subseteq WfOwing(ToSet(D.ledger))
  BY <1>2, <1>3, <1>4 DEF ChainFits
<1>6. Tail(t) \in Seq(WfEvents) /\ ToSet(Tail(t)) \subseteq ToSet(t) /\ Head(t) \in ToSet(t)
  BY <1>5, TailSet
<1>7. PICK e, rest : e = Head(t) /\ rest = Tail(t)
  OBVIOUS
<1>8. PICK msg : msg = Result(e.what[1], ok, e.id)
  OBVIOUS
<1>9. msg \in WfResults
  BY <1>2, <1>5, <1>6, <1>7, <1>8, ResultOf
<1>10. DeliverResult(c, msg, rest)
  BY <1>4, <1>7, <1>8 DEF Performed
<1>11. wfChains[c].at # "append" /\ rest \in Seq(WfEvents)
       /\ ToSet(rest) \subseteq ToSet(wfChains[c].todo)
  BY <1>3, <1>4, <1>6, <1>7
<1> QED
  BY <1>9, <1>10, <1>11, DeliverKeeps

LEMMA RedeliverKeeps ==
  ASSUME WfInv, NEW c, WfCallers = {c}, NEW ok \in BOOLEAN, Redeliver(c, ok)
  PROVE  WfInv'
<1>1. PICK D : D = Landed
  OBVIOUS
<1>2. WfFits(wfPlan, D) /\ wfPerformed \subseteq Asked(ToSet(D.ledger))
  BY <1>1 DEF WfInv, Durably
<1>3. PICK p \in wfPerformed : /\ wfChains[c].at = "rest"
                               /\ DeliverResult(c, Result(p.what[1], ok, p.id), <<>>)
  BY DEF Redeliver
<1>4. PICK e \in WfOwing(ToSet(D.ledger)) : p.id = e.id /\ p.what = e.what
  BY <1>2 DEF Asked
<1>5. PICK msg : msg = Result(e.what[1], ok, e.id)
  OBVIOUS
<1>6. msg \in WfResults
  BY <1>2, <1>5, ResultOf
<1>7. PICK rest : rest = <<>>
  OBVIOUS
<1>8. rest \in Seq(WfEvents) /\ ToSet(rest) \subseteq ToSet(wfChains[c].todo)
  BY <1>7 DEF ToSet
<1>9. DeliverResult(c, msg, rest) /\ wfChains[c].at # "append"
  BY <1>3, <1>4, <1>5, <1>7
<1> QED
  BY <1>6, <1>8, <1>9, DeliverKeeps

LEMMA RejectsKeeps ==
  ASSUME WfInv, NEW c, WfCallers = {c}, PerformRejects(c)
  PROVE  WfInv'
<1>1. PICK D : D = Landed
  OBVIOUS
<1>2. Durably(D) /\ SnapshotTakes(Landed)
  BY <1>1 DEF WfInv
<1>3. /\ ChainsTyped /\ ChainFits(D, c) /\ BehindBy(D, c)
      /\ wfPerformed \subseteq Asked(ToSet(D.ledger)) /\ WfFits(wfPlan, D)
  BY <1>2 DEF Durably
<1>4. /\ wfChains[c].at = "perform"
      /\ wfChains' = [wfChains EXCEPT ![c] = [at |-> "rest", todo |-> <<>>]]
      /\ UNCHANGED <<wfPlan, wfLive, wfLog, wfSnapshot, wfAppends, wfPuts, wfPerformed>>
  BY DEF PerformRejects, Resting
<1>5. wfChains'[c] = [at |-> "rest", todo |-> <<>>] /\ ChainsTyped'
  BY <1>3, <1>4 DEF ChainsTyped
<1>6. Durably(D)'
  <2>1. ToSet(<<>>) = {}
    BY DEF ToSet
  <2>2. ChainFits(D, c)' /\ BehindBy(D, c)'
    BY <1>3, <1>4, <1>5, <2>1 DEF ChainFits, BehindBy, NoneUnderWay
  <2>3. (\A d \in WfCallers : ChainFits(D, d) /\ BehindBy(D, d))'
    BY <2>2
  <2> QED
    BY <1>3, <1>4, <1>5, <2>3 DEF Durably
<1>7. Landed' = D /\ SnapshotTakes(Landed)'
  BY <1>1, <1>2, <1>4, LandedStays
<1> QED
  BY <1>4, <1>6, <1>7 DEF WfInv

\* An activation that folds no result onto a snapshot comes to the durable model:
\* it folds them all, or takes a snapshot of them all.
LEMMA EvictGrainKeeps ==
  ASSUME WfInv, NEW c, WfCallers = {c}, EvictGrain, ~wfAnew'
  PROVE  WfInv'
<1>1. PICK D : D = Landed
  OBVIOUS
<1>2. /\ IsPlan(wfPlan) /\ wfLog \in Seq(WfResults)
      /\ Durably(D) /\ SnapshotTakes(Landed)
  BY <1>1 DEF WfInv
<1>3. wfPerformed \subseteq Asked(ToSet(D.ledger)) /\ WfFits(wfPlan, D)
  BY <1>2 DEF Durably
<1>4. /\ wfLive' = LoadGrain(wfPlan, wfLog, wfSnapshot)
      /\ wfAppends' = <<>> /\ wfPuts' = <<>> /\ wfChains' = AllResting
      /\ UNCHANGED <<wfPlan, wfLog, wfSnapshot, wfPerformed>>
      /\ wfSnapshot.seq = 0 \/ wfSnapshot.seq = Len(wfLog)
  BY DEF EvictGrain, LeavesTail
<1>5. wfLive' = D
  <2>1. PICK p, l, s : p = wfPlan /\ l = wfLog /\ s = wfSnapshot
    OBVIOUS
  <2>2. CASE wfSnapshot.seq = 0
    <3>1. LoadGrain(p, l, s) = LoadGrain(p, l, NoWfSnapshot)
      BY <2>1, <2>2, LoadAnew
    <3> QED
      BY <1>1, <1>4, <2>1, <3>1 DEF Landed
  <2>3. CASE wfSnapshot.seq # 0
    <3>1. PICK n : n = Len(wfLog)
      OBVIOUS
    <3>2. wfSnapshot.seq = n /\ wfSnapshot.of = D
      BY <1>1, <1>2, <1>4, <2>3, <3>1 DEF SnapshotTakes
    <3>3. n \in Nat \ {0}
      BY <1>2, <2>3, <3>1, <3>2
    <3>4. Len(l) = n /\ WfFits(p, D) /\ s.seq = n /\ s.of = D
      BY <1>3, <2>1, <3>1, <3>2
    <3>5. LoadGrain(p, l, s) = D
      BY ONLY <3>3, <3>4, LoadTakes
    <3> QED
      BY <1>4, <2>1, <3>5
  <2> QED
    BY <2>2, <2>3
<1>6. wfChains'[c] = [at |-> "rest", todo |-> <<>>] /\ ChainsTyped'
  BY <1>4 DEF ChainsTyped, AllResting, Resting
<1>7. Durably(D)'
  <2>1. ToSet(<<>>) = {}
    BY DEF ToSet
  <2>2. ChainFits(D, c)' /\ BehindBy(D, c)'
    BY <1>4, <1>5, <1>6, <2>1 DEF ChainFits, BehindBy, NoneUnderWay
  <2>3. (\A d \in WfCallers : ChainFits(D, d) /\ BehindBy(D, d))'
    BY <2>2
  <2> QED
    BY <1>3, <1>4, <1>6, <2>3 DEF Durably
<1>8. Landed' = D /\ SnapshotTakes(Landed)'
  BY <1>1, <1>2, <1>4, LandedStays
<1> QED
  BY <1>2, <1>4, <1>7, <1>8 DEF WfInv

\* Where the event lands the durable model comes to be what memory is.  Where a
\* snapshot is due the caller waits for that as well.
LEMMA LandsKeeps ==
  ASSUME WfInv, NEW c, WfCallers = {c}, AppendLands
  PROVE  WfInv'
<1>1. PICK D : D = Landed
  OBVIOUS
<1>2. /\ IsPlan(wfPlan) /\ wfLog \in Seq(WfResults)
      /\ SnapshotTakes(Landed) /\ Durably(D)
  BY <1>1 DEF WfInv
<1>3. /\ ChainsTyped /\ ChainFits(D, c) /\ BehindBy(D, c)
      /\ wfPerformed \subseteq Asked(ToSet(D.ledger)) /\ WfFits(wfPlan, D)
  BY <1>2 DEF Durably
<1>4. EventUnderWay(D, c) /\ wfChains[c].at = "append"
  BY <1>3 DEF BehindBy, NoneUnderWay, SnapshotUnderWay, AppendLands
<1>5. PICK msg \in WfResults : /\ wfAppends = <<[msg |-> msg, by |-> c]>>
                               /\ wfLive = Route(wfPlan, D, msg) /\ wfPuts = <<>>
  BY <1>4 DEF EventUnderWay
<1>6. PICK n \in Nat : n = Len(wfLog)
  BY <1>2
<1>7. PICK M : M = wfLive
  OBVIOUS
<1>8. WfFits(wfPlan, M) /\ ToSet(D.ledger) \subseteq ToSet(M.ledger)
  <2>1. wfPlan \in Seq(BOOLEAN)
    BY <1>2 DEF IsPlan
  <2> QED
    BY <1>3, <1>5, <1>7, <2>1, RouteFits
<1>9. /\ wfAppends' = <<>> /\ wfLog' = Append(wfLog, msg)
      /\ UNCHANGED <<wfPlan, wfLive, wfSnapshot>>
  BY <1>5 DEF AppendLands
<1>10. wfLog' \in Seq(WfResults) /\ Len(wfLog') = n + 1
  BY <1>2, <1>6, <1>9
<1>11. Landed' = M
  <2>1. PICK p, l : p = wfPlan /\ l = wfLog
    OBVIOUS
  <2>2. PICK s : s = NoWfSnapshot
    OBVIOUS
  <2>3. s.seq = 0
    BY <2>2 DEF NoWfSnapshot
  <2>4. IsPlan(p) /\ l \in Seq(WfResults)
    BY <1>2, <2>1
  <2>5. LoadGrain(p, Append(l, msg), s) = Route(p, LoadGrain(p, l, s), msg)
    BY <2>3, <2>4, LoadExtends
  <2> QED
    BY <1>1, <1>5, <1>7, <1>9, <2>1, <2>2, <2>5 DEF Landed
<1>12. SnapshotTakes(Landed)'
  BY <1>2, <1>6, <1>9, <1>10 DEF SnapshotTakes
<1>13. /\ ToSet(wfChains[c].todo) \subseteq WfOwing(ToSet(M.ledger))
       /\ wfPerformed \subseteq Asked(ToSet(M.ledger))
  BY <1>3, <1>8, AskedGrows DEF ChainFits
<1>14. CASE AppendEnds(c) /\ UNCHANGED wfPuts
  <2>1. /\ ChainsTyped' /\ ChainFits(M, c)' /\ wfChains'[c].at # "append"
        /\ wfPerformed' \subseteq Asked(ToSet(M.ledger))
    BY <1>3, <1>7, <1>8, <1>13, <1>14, EndsFit
  <2>2. BehindBy(M, c)'
    BY <1>5, <1>7, <1>9, <1>14, <2>1 DEF BehindBy, NoneUnderWay
  <2>3. (\A d \in WfCallers : ChainFits(M, d) /\ BehindBy(M, d))'
    BY <2>1, <2>2
  <2>4. Durably(M)'
    BY <1>8, <1>9, <2>1, <2>3 DEF Durably
  <2> QED
    BY <1>2, <1>9, <1>10, <1>11, <1>12, <2>4 DEF WfInv
<1>15. CASE /\ wfPuts' = Append(wfPuts, [seq |-> n + 1, of |-> wfLive, by |-> c])
            /\ UNCHANGED <<wfChains, wfPerformed>>
  <2>1. wfPuts' = <<[seq |-> n + 1, of |-> M, by |-> c]>>
    BY <1>5, <1>7, <1>15
  <2>2. SnapshotUnderWay(M, c)'
    BY <1>7, <1>9, <1>10, <2>1 DEF SnapshotUnderWay
  <2>3. ChainsTyped' /\ ChainFits(M, c)' /\ BehindBy(M, c)'
    <3>1. ChainsTyped'
      BY <1>3, <1>15 DEF ChainsTyped
    <3>2. ChainFits(M, c)'
      BY <1>3, <1>13, <1>15 DEF ChainFits
    <3> QED
      BY <1>4, <1>15, <2>2, <3>1, <3>2 DEF BehindBy
  <2>4. (\A d \in WfCallers : ChainFits(M, d) /\ BehindBy(M, d))'
    BY <2>3
  <2>5. Durably(M)'
    BY <1>8, <1>9, <1>13, <1>15, <2>3, <2>4 DEF Durably
  <2> QED
    BY <1>2, <1>9, <1>10, <1>11, <1>12, <2>5 DEF WfInv
<1>16. \/ AppendEnds(c) /\ UNCHANGED wfPuts
       \/ /\ wfPuts' = Append(wfPuts, [seq |-> n + 1, of |-> wfLive, by |-> c])
          /\ UNCHANGED <<wfChains, wfPerformed>>
  BY <1>5, <1>6 DEF AppendLands
<1> QED
  BY <1>14, <1>15, <1>16

\* The snapshot that lands is the durable model, and the caller goes on with it.
LEMMA SnapshotLandsKeeps ==
  ASSUME WfInv, NEW c, WfCallers = {c}, SnapshotLands
  PROVE  WfInv'
<1>1. PICK D : D = Landed
  OBVIOUS
<1>2. /\ IsPlan(wfPlan) /\ wfLog \in Seq(WfResults)
      /\ SnapshotTakes(Landed) /\ Durably(D)
  BY <1>1 DEF WfInv
<1>3. /\ ChainsTyped /\ ChainFits(D, c) /\ BehindBy(D, c)
      /\ wfPerformed \subseteq Asked(ToSet(D.ledger)) /\ WfFits(wfPlan, D)
  BY <1>2 DEF Durably
<1>4. SnapshotUnderWay(D, c)
  BY <1>3 DEF BehindBy, NoneUnderWay, EventUnderWay, SnapshotLands
<1>5. PICK n \in Nat : n = Len(wfLog)
  BY <1>2
<1>6. wfAppends = <<>> /\ wfLive = D /\ wfPuts = <<[seq |-> n, of |-> D, by |-> c]>>
  BY <1>4, <1>5 DEF SnapshotUnderWay
<1>7. /\ wfPuts' = <<>> /\ wfSnapshot' = [seq |-> n, of |-> D]
      /\ AppendEnds(c) /\ UNCHANGED <<wfPlan, wfLive, wfLog, wfAppends>>
  BY <1>6 DEF SnapshotLands
<1>8. Landed' = D
  BY <1>1, <1>7 DEF Landed
<1>9. SnapshotTakes(Landed)'
  BY <1>5, <1>7, <1>8 DEF SnapshotTakes
<1>10. /\ ChainsTyped' /\ ChainFits(D, c)' /\ wfChains'[c].at # "append"
       /\ wfPerformed' \subseteq Asked(ToSet(D.ledger))
  BY <1>3, <1>6, <1>7, EndsFit DEF ChainFits
<1>11. Durably(D)'
  <2>1. BehindBy(D, c)'
    BY <1>6, <1>7, <1>10 DEF BehindBy, NoneUnderWay
  <2>2. (\A d \in WfCallers : ChainFits(D, d) /\ BehindBy(D, d))'
    BY <1>10, <2>1
  <2> QED
    BY <1>3, <1>7, <1>10, <2>2 DEF Durably
<1> QED
  BY <1>2, <1>7, <1>8, <1>9, <1>11 DEF WfInv

\* Whatever moves, as long as no activation has folded results onto a snapshot.
LEMMA WfStep ==
  ASSUME OneCaller
  PROVE  (~wfAnew => WfInv) /\ [WfNext]_wfVars => (~wfAnew => WfInv)'
<1>1. PICK c : WfCallers = {c}
  BY DEF OneCaller
<1>2. ASSUME WfNext PROVE wfAnew => wfAnew'
  BY <1>2 DEF WfNext, DriveGrain, PerformRejects, Performed, Redeliver, DeliverResult,
              AppendLands, SnapshotLands, EvictGrain
<1>3. ASSUME WfInv, WfNext, ~wfAnew' PROVE WfInv'
  <2>1. CASE DriveGrain(c)
    BY <1>1, <1>3, <2>1, DriveKeeps
  <2>2. CASE PerformRejects(c)
    BY <1>1, <1>3, <2>2, RejectsKeeps
  <2>3. ASSUME NEW ok \in BOOLEAN, Performed(c, ok) PROVE WfInv'
    BY <1>1, <1>3, <2>3, PerformedKeeps
  <2>4. ASSUME NEW ok \in BOOLEAN, Redeliver(c, ok) PROVE WfInv'
    BY <1>1, <1>3, <2>4, RedeliverKeeps
  <2>5. CASE AppendLands
    BY <1>1, <1>3, <2>5, LandsKeeps
  <2>6. CASE SnapshotLands
    BY <1>1, <1>3, <2>6, SnapshotLandsKeeps
  <2>7. CASE EvictGrain
    BY <1>1, <1>3, <2>7, EvictGrainKeeps
  <2> QED
    BY <1>1, <1>3, <2>1, <2>2, <2>3, <2>4, <2>5, <2>6, <2>7 DEF WfNext
<1>4. ASSUME UNCHANGED wfVars PROVE wfAnew' = wfAnew /\ (WfInv => WfInv')
  <2>1. wfAnew' = wfAnew /\ UNCHANGED <<wfPlan, wfLog, wfSnapshot>>
    BY <1>4 DEF wfVars
  <2>2. Landed' = Landed /\ (SnapshotTakes(Landed) => SnapshotTakes(Landed)')
    BY <2>1, LandedStays
  <2>3. PICK D : D = Landed
    OBVIOUS
  <2>4. Durably(D)' <=> Durably(D)
    BY <1>4 DEF wfVars, Durably, ChainsTyped, ChainFits, BehindBy, EventUnderWay,
                SnapshotUnderWay, NoneUnderWay
  <2> QED
    BY <2>1, <2>2, <2>3, <2>4 DEF WfInv
<1> QED
  BY <1>2, <1>3, <1>4

\* As long as no activation has folded results onto an older snapshot, what the
\* workflow does to the outside is what its log says, once: one id names one effect,
\* and a rollback undoes what was done, the later steps first; however long the log,
\* whenever snapshots are put, wherever the grain is evicted and whatever is
\* redelivered, with one caller of it at a time (workflowGrain: drive, deliver).
THEOREM EffectsStayExact ==
  ASSUME OneCaller
  PROVE  WfSpec => []EffectsAreExact
<1>1. (~wfAnew => WfInv) => EffectsAreExact
  <2> SUFFICES ASSUME WfInv PROVE EffectsAreExact
    BY DEF EffectsAreExact
  <2>1. PICK c : WfCallers = {c}
    BY DEF OneCaller
  <2>2. PICK D : D = Landed
    OBVIOUS
  <2>3. /\ BehindBy(D, c) /\ wfPerformed \subseteq Asked(ToSet(D.ledger))
        /\ WfFits(wfPlan, D) /\ wfPlan \in Seq(BOOLEAN)
    BY <2>1, <2>2 DEF WfInv, Durably, IsPlan
  <2>4. WfFits(wfPlan, wfLive) /\ ToSet(D.ledger) \subseteq ToSet(wfLive.ledger)
    <3>1. CASE wfLive = D
      BY <2>3, <3>1
    <3>2. CASE wfLive # D
      <4>1. PICK msg \in WfResults : wfLive = Route(wfPlan, D, msg)
        BY <2>3, <3>2 DEF BehindBy, EventUnderWay, SnapshotUnderWay, NoneUnderWay
      <4> QED
        BY <2>3, <4>1, RouteFits
    <3> QED
      BY <3>1, <3>2
  <2> QED
    BY <2>3, <2>4, AskedAreExact, AskedGrows
<1>2. WfInit => (~wfAnew => WfInv)
  BY WfStarts
<1>3. WfSpec => [](~wfAnew => WfInv)
  BY <1>2, WfStep, PTL DEF WfSpec
<1> QED
  BY <1>1, <1>3, PTL
=============================================================================
