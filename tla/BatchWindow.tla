----------------------------- MODULE BatchWindow -----------------------------
(***************************************************************************)
(* createBatchWindow (packages/tea/src/internal/flow/batch-window/index.ts) *)
(* in a machine with a store: items become add Msgs on the run's line, the *)
(* built-in timer Sub counts the open window down, and the flush Cmd ships *)
(* what was buffered.  The slice is saved before the Cmd is performed; a   *)
(* host that goes down loses its line, its timer and the Cmd in flight.    *)
(***************************************************************************)
EXTENDS Integers, SequencesExt

CONSTANTS
  BatchMax,        \* maxItems
  BatchItems,      \* bound: the items that arrive
  BatchMaxCrashes  \* bound: the host goes down so often

ASSUME BatchAssumption ==
  /\ {BatchItems, BatchMaxCrashes} \subseteq Nat
  /\ BatchMax \in Nat \ {0}

VARIABLES
  batch,         \* the slice: buffer and openedAt
  batchTimer,    \* the running Sub: the window it counts, and if it has rung
  batchLine,     \* the Msgs on the run's line
  batchCmd,      \* the batch whose flush Cmd is being performed, if any
  batchShipped,  \* the batches that left
  batchLost,     \* the items lost with the host
  batchMade,     \* how many items have arrived
  batchCrashes

batchVars == <<batch, batchTimer, batchLine, batchCmd, batchShipped, batchLost,
               batchMade, batchCrashes>>

\* The instant an item is stamped with.  Two may share one; 0 stands for null.
StampOf(item) == 1 + item \div 2

ClosedWindow == [buffer |-> <<>>, openedAt |-> 0]
WindowExpired == 0      \* the Msg of the timer; an item's Msg is the item

BatchInit ==
  /\ batch = ClosedWindow
  /\ batchTimer = [of |-> 0, rung |-> FALSE]
  /\ batchLine = <<>> /\ batchCmd = <<>> /\ batchShipped = <<>>
  /\ batchLost = {} /\ batchMade = 0 /\ batchCrashes = 0

-----------------------------------------------------------------------------

\* timerFor names the timer by the instant its window was opened at: the engine
\* leaves the Sub alone while that does not change.
BatchInstalls(w) ==
  /\ batch' = w
  /\ batchTimer' = IF batchTimer.of = w.openedAt THEN batchTimer
                   ELSE [of |-> w.openedAt, rung |-> FALSE]

\* An open window keeps the instant of the item that opened it.
MutOpens(w, item) == StampOf(item)
Opens(w, item) == IF w.openedAt = 0 THEN StampOf(item) ELSE w.openedAt

AddItem(item) ==
  LET buffer == Append(batch.buffer, item)
  IN IF Len(buffer) >= BatchMax
       THEN BatchInstalls(ClosedWindow) /\ batchCmd' = buffer
       ELSE /\ BatchInstalls([buffer |-> buffer, openedAt |-> Opens(batch, item)])
            /\ UNCHANGED batchCmd

\* onWindow: what is left of a window that expired.
MutFlushed(w) == [w EXCEPT !.openedAt = 0]
Flushed(w) == ClosedWindow

\* A window the size trigger has closed already is not flushed again.
OnWindow ==
  IF batch.buffer = <<>> THEN UNCHANGED <<batch, batchTimer, batchCmd>>
  ELSE BatchInstalls(Flushed(batch)) /\ batchCmd' = batch.buffer

FoldBatchMsg ==
  /\ batchLine # <<>> /\ batchCmd = <<>>
  /\ IF Head(batchLine) = WindowExpired THEN OnWindow ELSE AddItem(Head(batchLine))
  /\ batchLine' = Tail(batchLine)
  /\ UNCHANGED <<batchShipped, batchLost, batchMade, batchCrashes>>

-----------------------------------------------------------------------------

ItemArrives ==
  /\ batchMade < BatchItems
  /\ batchMade' = batchMade + 1
  /\ batchLine' = Append(batchLine, batchMade')
  /\ UNCHANGED <<batch, batchTimer, batchCmd, batchShipped, batchLost, batchCrashes>>

BatchRings ==
  /\ batchTimer.of # 0 /\ ~batchTimer.rung
  /\ batchTimer' = [batchTimer EXCEPT !.rung = TRUE]
  /\ batchLine' = Append(batchLine, WindowExpired)
  /\ UNCHANGED <<batch, batchCmd, batchShipped, batchLost, batchMade, batchCrashes>>

Ship ==
  /\ batchCmd # <<>>
  /\ batchShipped' = Append(batchShipped, batchCmd)
  /\ batchCmd' = <<>>
  /\ UNCHANGED <<batch, batchTimer, batchLine, batchLost, batchMade, batchCrashes>>

\* The next run boots from the slice that was saved, and counts afresh.
BatchHostDown ==
  /\ batchCrashes < BatchMaxCrashes
  /\ batchCrashes' = batchCrashes + 1
  /\ batchLost' = batchLost \union ToSet(batchCmd) \union (ToSet(batchLine) \ {WindowExpired})
  /\ batchLine' = <<>> /\ batchCmd' = <<>>
  /\ batchTimer' = [of |-> batch.openedAt, rung |-> FALSE]
  /\ UNCHANGED <<batch, batchShipped, batchMade>>

BatchNext == FoldBatchMsg \/ ItemArrives \/ BatchRings \/ Ship \/ BatchHostDown

BatchSpec == BatchInit /\ [][BatchNext]_batchVars

-----------------------------------------------------------------------------

\* Where the items are, from those that left first to those on the line.
Trail == batchShipped \o <<batchCmd, batch.buffer, batchLine>>

(* Every item leaves exactly once, in the order it came, in a batch that   *)
(* is neither empty nor too large, unless the host went down with it on    *)
(* the line or in the Cmd; and what waits in the buffer is on a clock that *)
(* was started by the oldest of it ("an item never waits longer than       *)
(* maxMs"), also after a restart.                                          *)
BatchesAreExact ==
  /\ \A p, q \in DOMAIN Trail : \A i \in DOMAIN Trail[p], j \in DOMAIN Trail[q] :
       /\ p < q \/ (p = q /\ i < j)
       /\ WindowExpired \notin {Trail[p][i], Trail[q][j]}
       => Trail[p][i] < Trail[q][j]
  /\ (UNION {ToSet(Trail[p]) : p \in DOMAIN Trail}) \ {WindowExpired}
       = (1 .. batchMade) \ batchLost
  /\ \A i \in DOMAIN batchShipped : Len(batchShipped[i]) \in 1 .. BatchMax
  /\ batch.buffer # <<>> =>
       /\ batchTimer.of = StampOf(Head(batch.buffer))
       /\ batchTimer.rung => WindowExpired \in ToSet(batchLine)
=============================================================================
