------------------------------ MODULE EventLog ------------------------------
(***************************************************************************)
(* What an event-sourced actor promises: its State is a fold of Msgs, and  *)
(* an activation begins with the fold of the Msgs the one before it        *)
(* applied, in their order, less at most a last few that it was never told *)
(* were written.                                                           *)
(***************************************************************************)
EXTENDS Naturals, Sequences

CONSTANT Msgs

VARIABLES
  model,  \* the Msgs folded into the State
  kept    \* how many of them are known to be written

vars == <<model, kept>>

Init == model = <<>> /\ kept = 0

Apply ==
  /\ \E m \in Msgs : model' = Append(model, m)
  /\ UNCHANGED kept

Confirm ==
  /\ kept' \in kept .. Len(model)
  /\ UNCHANGED model

Recover ==
  /\ \E n \in kept .. Len(model) : model' = SubSeq(model, 1, n)
  /\ UNCHANGED kept

Next == Apply \/ Confirm \/ Recover

Spec == Init /\ [][Next]_vars

=============================================================================
