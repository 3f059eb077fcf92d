----------------------------- MODULE DurableRun -----------------------------
(***************************************************************************)
(* What a run with a store promises, with no queue, no gate and no steps:  *)
(* a program that folds States one at a time, persists them, and acts on   *)
(* the outside world only for the State it has persisted, until it is      *)
(* over.  A crash may fall anywhere: a program that starts again reads     *)
(* durable, and never finds an effect of a State it cannot see there.      *)
(***************************************************************************)
EXTENDS Integers

CONSTANTS
  States,   \* what a fold may return
  NoState   \* no State: not one of them

VARIABLES
  model,    \* the State in memory
  durable,  \* the State the store holds
  acting,   \* the State whose effects are running, if any
  over      \* the run has ended

vars == <<model, durable, acting, over>>

Init ==
  /\ model = NoState /\ durable = NoState /\ acting = NoState
  /\ over = FALSE

\* A new State, never while effects run.  Once over, none follows another.
Fold ==
  /\ acting = NoState
  /\ over => model = NoState
  /\ model' \in States
  /\ UNCHANGED <<durable, acting, over>>

Persist ==
  /\ model # NoState
  /\ durable' = model
  /\ over => over'
  /\ UNCHANGED <<model, acting>>

\* Effects begin, for the State the store holds and no other.
Act ==
  /\ ~over /\ acting = NoState /\ model # NoState /\ durable = model
  /\ acting' = model
  /\ UNCHANGED <<model, durable, over>>

Rest ==
  /\ acting # NoState
  /\ acting' = NoState
  /\ UNCHANGED <<model, durable, over>>

End ==
  /\ over' = TRUE
  /\ UNCHANGED <<model, durable, acting>>

Next == Fold \/ Persist \/ Act \/ Rest \/ End

Spec == Init /\ [][Next]_vars

=============================================================================
