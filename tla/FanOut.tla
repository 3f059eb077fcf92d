------------------------------- MODULE FanOut -------------------------------
(***************************************************************************)
(* createFanOut (packages/tea/src/internal/flow/fan-out/index.ts): a batch *)
(* of items run at most window at a time, with one join Cmd per wave.  The *)
(* verbs are pure: [s, launch, joins] is the slice, the items launched, in *)
(* order, and the join Cmds sent.  An item is its id; results and errors   *)
(* are left out.                                                           *)
(***************************************************************************)
EXTENDS QueueOps, Integers

InitFan ==
  [pending |-> <<>>, running |-> <<>>, done |-> <<>>, failed |-> <<>>,
   items |-> <<>>, doneFrom |-> 0, failedFrom |-> 0, joined |-> FALSE]

IsComplete(fan) ==
  fan.items # <<>> /\ fan.pending = <<>> /\ fan.running = <<>>

ClaimMany(items, n) ==
  LET claim(queue, i) == Claim(queue) IN FoldLeft(claim, items, [i \in 1 .. n |-> i])

Launch(fan, n) ==
  LET launch == SubSeq(fan.pending, 1, n)
  IN IF n <= 0
       THEN [s |-> fan, launch |-> <<>>, joins |-> <<>>]
       ELSE [s |-> [fan EXCEPT !.pending = SubSeq(@, n + 1, Len(@)),
                               !.running = @ \o launch,
                               !.items = ClaimMany(@, n)],
             launch |-> launch, joins |-> <<>>]

LaunchUpTo(fan, window) ==
  LET slots == window - Len(fan.running)
  IN Launch(fan, IF slots < Len(fan.pending) THEN slots ELSE Len(fan.pending))

\* A scatter into an idle fan opens a wave.
Scatter(fan, items, window) ==
  LET opens == fan.pending = <<>> /\ fan.running = <<>>
      queued == [fan EXCEPT !.pending = @ \o items,
                            !.items = FoldLeft(Enqueue, @, items),
                            !.doneFrom = IF opens THEN Len(fan.done) ELSE @,
                            !.failedFrom = IF opens THEN Len(fan.failed) ELSE @,
                            !.joined = IF opens THEN FALSE ELSE @]
  IN LaunchUpTo(queued, window)

\* The join carries the results of its wave; joins says whether one is wired.
Finish(r, joins) ==
  LET wave == SubSeq(r.s.done, r.s.doneFrom + 1, Len(r.s.done))
  IN IF joins /\ ~r.s.joined /\ IsComplete(r.s)
       THEN [r EXCEPT !.s.joined = TRUE, !.joins = <<wave>>]
       ELSE r

FinishOrLaunch(fan, window, joins) == Finish(LaunchUpTo(fan, window), joins)

\* The first running ledger entry of that id takes the status.
SettleLedger(items, id, status) ==
  LET running(i) == i.id = id /\ i.status = "running"
      at == SelectInSeq(items, running)
  IN IF at = 0 THEN items ELSE [items EXCEPT ![at].status = status]

\* An id that is not running settles nothing.
SettleItem(fan, id, status, window, joins) ==
  LET isIt(item) == item = id
      at == SelectInSeq(fan.running, isIt)
      settled == [fan EXCEPT
                    !.running = RemoveAt(@, at),
                    !.done = IF status = "done" THEN Append(@, id) ELSE @,
                    !.failed = IF status = "failed" THEN Append(@, id) ELSE @,
                    !.items = SettleLedger(@, id, status)]
  IN IF at = 0 THEN [s |-> fan, launch |-> <<>>, joins |-> <<>>]
               ELSE FinishOrLaunch(settled, window, joins)

ItemOk(fan, id, window, joins) == SettleItem(fan, id, "done", window, joins)
ItemErr(fan, id, window, joins) == SettleItem(fan, id, "failed", window, joins)
=============================================================================
