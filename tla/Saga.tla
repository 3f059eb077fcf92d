-------------------------------- MODULE Saga --------------------------------
(***************************************************************************)
(* createSaga (packages/tea/src/internal/flow/saga/index.ts): run the      *)
(* steps in order, and when one fails undo those that succeeded, newest    *)
(* first.  The slice is durable; the Cmd it waits for and the answer to it *)
(* are not, so a host that was down performs the Cmd again from the        *)
(* position the slice names.  The effects are keyed, as the host's ledger  *)
(* keys them: one that stands already answers as it did.                   *)
(***************************************************************************)
EXTENDS QueueOps, Integers

CONSTANTS
  SagaSteps,       \* how many steps there are
  SagaMaxCrashes   \* bound: the host goes down so often

ASSUME SagaAssumption == {SagaSteps, SagaMaxCrashes} \subseteq Nat

VARIABLES
  saga,        \* the slice: phase, position, compensation log and ledger
  sagaCmd,     \* the Cmd being performed, if any
  sagaAnswer,  \* the answer that has not been folded, if any
  sagaWorld,   \* the steps whose effect stands
  sagaCrashes  \* how often the host went down

sagaVars == <<saga, sagaCmd, sagaAnswer, sagaWorld, sagaCrashes>>

NoCmd == [does |-> "nothing", step |-> 0]
Do(step) == [does |-> "do", step |-> step]
Undo(step) == [does |-> "undo", step |-> step]

SagaInit ==
  /\ saga = [phase |-> "idle", position |-> 1, done |-> <<>>, items |-> <<>>]
  /\ sagaCmd = NoCmd /\ sagaAnswer = "none" /\ sagaWorld = {} /\ sagaCrashes = 0

-----------------------------------------------------------------------------

\* Every step is enqueued, in order.
FreshLedger == [step \in 1 .. SagaSteps |-> Item(step, "pending")]

\* A second start, after a restart say, finds the saga under way.
Start ==
  /\ saga.phase = "idle"
  /\ IF SagaSteps = 0
       THEN saga' = [saga EXCEPT !.phase = "committed"] /\ UNCHANGED sagaCmd
       ELSE /\ saga' = [saga EXCEPT !.phase = "running",
                                    !.items = Patch(FreshLedger, 1, "running")]
            /\ sagaCmd' = Do(1)
  /\ UNCHANGED <<sagaAnswer, sagaWorld, sagaCrashes>>

StepOk ==
  LET finished == Patch(saga.items, saga.position, "done")
      log == Append(saga.done, saga.position)
      next == saga.position + 1
  IN IF next > SagaSteps
       THEN /\ saga' = [saga EXCEPT !.phase = "committed", !.done = log,
                                    !.items = finished]
            /\ UNCHANGED sagaCmd
       ELSE /\ saga' = [saga EXCEPT !.position = next, !.done = log,
                                    !.items = Patch(finished, next, "running")]
            /\ sagaCmd' = Do(next)

\* The newest step of the log is the next to be undone.
MutUndone(log) == Head(log)
Undone(log) == Last(log)

StepErr ==
  LET failed == [saga EXCEPT !.items = Patch(@, saga.position, "failed")]
  IN IF saga.done = <<>>
       THEN saga' = [failed EXCEPT !.phase = "aborted"] /\ UNCHANGED sagaCmd
       ELSE /\ saga' = [failed EXCEPT !.phase = "compensating",
                                      !.position = Undone(saga.done)]
            /\ sagaCmd' = Undo(Undone(saga.done))

UndoOk ==
  LET rest == Front(saga.done)
      undone == [saga EXCEPT !.done = rest,
                             !.items = Patch(@, Last(saga.done), "cancelled")]
  IN IF rest = <<>>
       THEN saga' = [undone EXCEPT !.phase = "aborted"] /\ UNCHANGED sagaCmd
       ELSE /\ saga' = [undone EXCEPT !.position = Undone(rest)]
            /\ sagaCmd' = Undo(Undone(rest))

\* The log stays as it is: it names what was never compensated.
UndoErr ==
  /\ saga' = [saga EXCEPT !.phase = "compensation_failed",
                          !.items = Patch(@, saga.position, "failed")]
  /\ UNCHANGED sagaCmd

\* The verbs know an answer by its kind and the phase, not by its step.
FoldAnswer ==
  /\ \/ sagaAnswer = "step_ok" /\ saga.phase = "running" /\ StepOk
     \/ sagaAnswer = "step_err" /\ saga.phase = "running" /\ StepErr
     \/ sagaAnswer = "undo_ok" /\ saga.phase = "compensating" /\ UndoOk
     \/ sagaAnswer = "undo_err" /\ saga.phase = "compensating" /\ UndoErr
  /\ sagaAnswer' = "none"
  /\ UNCHANGED <<sagaWorld, sagaCrashes>>

-----------------------------------------------------------------------------

\* The handler performs the Cmd.  What failed changed nothing; what an earlier
\* attempt did already cannot fail any more.
Perform ==
  /\ sagaCmd # NoCmd
  /\ sagaCmd' = NoCmd
  /\ \/ /\ sagaCmd.does = "do"
        /\ sagaWorld' = sagaWorld \union {sagaCmd.step}
        /\ sagaAnswer' = "step_ok"
     \/ /\ sagaCmd.does = "do" /\ sagaCmd.step \notin sagaWorld
        /\ sagaAnswer' = "step_err" /\ UNCHANGED sagaWorld
     \/ /\ sagaCmd.does = "undo"
        /\ sagaWorld' = sagaWorld \ {sagaCmd.step}
        /\ sagaAnswer' = "undo_ok"
     \/ /\ sagaCmd.does = "undo" /\ sagaCmd.step \in sagaWorld
        /\ sagaAnswer' = "undo_err" /\ UNCHANGED sagaWorld
  /\ UNCHANGED <<saga, sagaCrashes>>

\* What the slice is waiting for; a restarted host asks for it again.
Awaited(s) ==
  CASE s.phase = "running" -> Do(s.position)
    [] s.phase = "compensating" -> Undo(s.position)
    [] OTHER -> NoCmd

GoDown ==
  /\ sagaCrashes < SagaMaxCrashes
  /\ sagaCrashes' = sagaCrashes + 1
  /\ sagaCmd' = Awaited(saga)
  /\ sagaAnswer' = "none"
  /\ UNCHANGED <<saga, sagaWorld>>

SagaNext == Start \/ FoldAnswer \/ Perform \/ GoDown

SagaSpec == SagaInit /\ [][SagaNext]_sagaVars

-----------------------------------------------------------------------------

(* A settled saga tells the truth about the world, wherever it failed and  *)
(* the host went down: every step stands once it committed, none once it   *)
(* aborted, and where an undo failed exactly those the log still names     *)
(* ("the steps still in `done` were never compensated").  The ledger tells *)
(* the same: done or failed to undo stands, cancelled does not.            *)
SagaIsExact ==
  /\ saga.phase = "committed" => sagaWorld = 1 .. SagaSteps
  /\ saga.phase = "aborted" => sagaWorld = {}
  /\ saga.phase = "compensation_failed" => sagaWorld = ToSet(saga.done)
  /\ \A i \in DOMAIN saga.items :
       saga.items[i].status = "cancelled" => saga.items[i].id \notin sagaWorld
=============================================================================
