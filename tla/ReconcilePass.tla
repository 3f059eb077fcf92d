--------------------------- MODULE ReconcilePass ---------------------------
(***************************************************************************)
(* createReconciler (packages/tea/src/internal/flow/reconciler/index.ts)   *)
(* over createPaginatedWalk (internal/paginate/paginated-walk/index.ts),   *)
(* the paginator and the resilient call: scan the pages of the actual      *)
(* world, plan, apply one change at a time.                                *)
(*                                                                         *)
(* The environment answers the Cmds: a fetch well, with an error, late or  *)
(* never; an apply once, when it was done.  An eviction loses the Cmds in  *)
(* flight; the host then calls applyNext, the one verb there is to resume  *)
(* with (a scan whose fetch was lost has none, and waits for its deadline  *)
(* timer).  The reconciler gives the walk no high water mark, so it never  *)
(* pauses.  A page is its number, a change its id.                         *)
(***************************************************************************)
EXTENDS ResilientSlice, Sequences

CONSTANTS
  RecPages,        \* pages of the actual world
  RecPlans,        \* the plans diff may answer: sequences of change ids
  RecConfig,       \* the knob of the page fetch: see ResilientSlice
  RecDelay,        \* the backoff of a failed fetch
  RecHorizon,      \* bound: the last instant
  RecMaxEvictions  \* bound: evictions

ASSUME RecAssumption ==
  /\ RecPages \in Nat \ {0} /\ {RecDelay, RecHorizon, RecMaxEvictions} \subseteq Nat
  /\ RecPlans \subseteq Seq(Nat)

VARIABLES
  rec,           \* the slice
  recFetch,      \* the page being fetched, 0 if none
  recApply,      \* the changes being applied, and those done but not told yet
  recNow,        \* the clock of the host
  recEvictions,
  recDone        \* history: how often each change was applied to the world

recVars == <<rec, recFetch, recApply, recNow, recEvictions, recDone>>

Changes == UNION {{plan[i] : i \in DOMAIN plan} : plan \in RecPlans}

\* The paginator: the phase and the cursor to fetch.
Walk(phase, at) == [phase |-> phase, at |-> at]
RecordPage(walk, page) ==
  IF walk.phase # "fetching" THEN walk
    ELSE IF page = RecPages THEN Walk("done", 0) ELSE Walk("fetching", page + 1)

RecInit ==
  /\ rec = [phase |-> "idle", walk |-> Walk("idle", 0),
            page |-> InitSlice(RecConfig, {"page"}), actual |-> <<>>,
            plan |-> <<>>, at |-> 1, applied |-> {}]
  /\ recFetch = 0
  /\ recApply = {}
  /\ recNow = 0 /\ recEvictions = 0
  /\ recDone = [c \in Changes |-> 0]

-----------------------------------------------------------------------------

\* A step of the walk: its slice, and the page its Cmd fetches.
FetchPage(s, walk) ==
  LET r == Attempt(RecConfig, s.page, "page", recNow, RecDelay)
  IN [s |-> [s EXCEPT !.walk = walk, !.page = r.s],
      fetch |-> IF r.run = {} THEN 0 ELSE walk.at]

WalkPageOk(s, page) ==
  LET walk == RecordPage(s.walk, page)
      settled == [s EXCEPT !.walk = walk,
                    !.page = SettleOk(RecConfig, @, "page", recNow)]
  IN IF walk.phase = "fetching" THEN FetchPage(settled, walk)
       ELSE [s |-> settled, fetch |-> 0]

\* applyNext: the first change at or after the cursor the ledger has not seen.
MutAwaitsAck(s) == {i \in s.at .. Len(s.plan) : TRUE}
AwaitsAck(s) == {i \in s.at .. Len(s.plan) : s.plan[i] \notin s.applied}

ApplyNext(s) ==
  IF s.phase # "applying" THEN [s |-> s, apply |-> {}]
  ELSE IF AwaitsAck(s) = {}
    THEN [s |-> [s EXCEPT !.phase = "done", !.at = Len(s.plan) + 1], apply |-> {}]
  ELSE LET i == CHOOSE i \in AwaitsAck(s) : \A j \in AwaitsAck(s) : i <= j
       IN [s |-> [s EXCEPT !.at = i], apply |-> {s.plan[i]}]

Planned(s, plan) ==
  ApplyNext([s EXCEPT !.phase = "applying", !.plan = plan, !.at = 1])

Applies(s, doing) ==
  /\ rec' = s
  /\ recApply' = recApply \union {[change |-> c, told |-> FALSE] : c \in doing}

\* A terminal failure of the fetch fails the pass.
Escalated(s) ==
  IF s.phase = "scanning" /\ s.page.calls["page"].phase = "failed"
    THEN [s EXCEPT !.phase = "failed"] ELSE s

Scan ==
  LET r == FetchPage([rec EXCEPT !.phase = "scanning"], Walk("fetching", 1))
  IN /\ rec.phase = "idle"
     /\ rec' = r.s
     /\ recFetch' = r.fetch
     /\ UNCHANGED <<recApply, recNow, recEvictions, recDone>>

\* Outside a scan the walk settles the page, and its next fetch is dropped.
MutAfterScan(s, page) == [s |-> [WalkPageOk(s, page).s EXCEPT
                                   !.actual = Append(@, page)], fetch |-> 0]
AfterScan(s, page) == [s |-> WalkPageOk(s, page).s, fetch |-> 0]
InScan(s, page) ==
  LET r == WalkPageOk(s, page)
  IN [r EXCEPT !.s.actual = Append(@, page)]

PageOk ==
  LET r == IF rec.phase = "scanning" THEN InScan(rec, recFetch)
                                     ELSE AfterScan(rec, recFetch)
  IN /\ recFetch # 0
     /\ recFetch' = r.fetch
     /\ IF rec.phase = "scanning" /\ r.s.walk.phase = "done"
          THEN \E plan \in RecPlans :
                 LET p == Planned(r.s, plan) IN Applies(p.s, p.apply)
          ELSE Applies(r.s, {})
     /\ UNCHANGED <<recNow, recEvictions, recDone>>

PageErr ==
  /\ recFetch # 0
  /\ recFetch' = 0
  /\ rec' = IF rec.walk.phase # "fetching" THEN rec
              ELSE Escalated([rec EXCEPT !.page =
                                SettleErr(RecConfig, @, "page", recNow, RecDelay)])
  /\ UNCHANGED <<recApply, recNow, recEvictions, recDone>>

RecTimer ==
  \E t \in Deadlines(RecConfig, rec.page) :
    LET r == OnTimer(RecConfig, rec.page, t, RecDelay)
    IN /\ t.at <= recNow
       /\ rec.walk.phase = "fetching"
       /\ rec' = Escalated([rec EXCEPT !.page = r.s])
       /\ recFetch' = IF r.run = {} THEN recFetch ELSE rec.walk.at
       /\ UNCHANGED <<recApply, recNow, recEvictions, recDone>>

\* The handler of an apply does the change, and then its ack is folded.
DoChange ==
  \E a \in recApply :
    /\ ~a.told
    /\ recApply' = (recApply \ {a}) \union {[change |-> a.change, told |-> TRUE]}
    /\ recDone' = [recDone EXCEPT ![a.change] = @ + 1]
    /\ UNCHANGED <<rec, recFetch, recNow, recEvictions>>

ChangeApplied ==
  \E a \in recApply :
    LET acked == [rec EXCEPT !.applied = @ \union {a.change}, !.at = @ + 1]
        r == ApplyNext(acked)
    IN /\ a.told
       /\ rec' = IF rec.phase = "applying" THEN r.s ELSE rec
       /\ recApply' = (recApply \ {a})
            \union {[change |-> c, told |-> FALSE] :
                      c \in IF rec.phase = "applying" THEN r.apply ELSE {}}
       /\ UNCHANGED <<recFetch, recNow, recEvictions, recDone>>

EvictPass ==
  LET r == ApplyNext(rec)
  IN /\ recEvictions < RecMaxEvictions
     /\ recEvictions' = recEvictions + 1
     /\ rec' = r.s
     /\ recFetch' = 0
     /\ recApply' = {[change |-> c, told |-> FALSE] : c \in r.apply}
     /\ UNCHANGED <<recNow, recDone>>

RecTime ==
  /\ recNow < RecHorizon
  /\ recNow' = recNow + 1
  /\ UNCHANGED <<rec, recFetch, recApply, recEvictions, recDone>>

RecNext ==
  \/ Scan \/ PageOk \/ PageErr \/ RecTimer \/ DoChange \/ ChangeApplied
  \/ EvictPass \/ RecTime

RecSpec == RecInit /\ [][RecNext]_recVars

-----------------------------------------------------------------------------

\* The i-th fetched page is page i.
Pages(n) == [i \in 1 .. n |-> i]

(* A pass is exact, whatever fetch failed, came late or was evicted, and   *)
(* wherever an eviction cut the applies: it plans on every page of the     *)
(* actual world, once and in order; it applies one change at a time; it is *)
(* done only when each change of its plan was applied; and a change is     *)
(* applied again only because an eviction lost the ack of the first time   *)
(* ("the reconcile is safe to resume from any point").                     *)
PassIsExact ==
  /\ rec.actual = Pages(Len(rec.actual))
  /\ rec.phase \in {"applying", "done"} => Len(rec.actual) = RecPages
  /\ \A a, b \in recApply : a = b
  /\ rec.phase = "done" => \A i \in DOMAIN rec.plan : recDone[rec.plan[i]] > 0
  /\ \A c \in Changes : recDone[c] <= 1 + recEvictions
=============================================================================
