-------------------------- MODULE EngineLoopDurable -------------------------
(***************************************************************************)
(* The loop with a store implements DurableRun.  The invariants that show  *)
(* it hold of the loop without a store too, where its runners and handlers *)
(* do not dispatch while startLoop runs.                                   *)
(***************************************************************************)
EXTENDS EngineLoop

Acting == IF pc["main"] = "cmd" THEN step["main"].next ELSE NoState

DR == INSTANCE DurableRun WITH
        model <- state, durable <- stored, acting <- Acting,
        over <- phase = "stopped"

\* Every behaviour of a run with a store is one of DurableRun: States follow
\* one another while no effect runs, effects run for the persisted State only,
\* and after stop() has returned nothing begins.
ImplementsDurableRun == DR!Spec

-----------------------------------------------------------------------------
(* The inductive invariant of a run on one lane.                           *)

\* Nobody dispatches before startLoop has returned: with a store it returns at
\* its first await, without one only where nothing is eager.
OneLaneOnly == HasStore \/ ~EagerStart

\* So nothing is chained on the tail startLoop began with.
OneLane ==
  /\ pc["fork"] = "idle" /\ queue["fork"] = <<>>
  /\ HasStore => started

\* The loop gives up only in stop(), and stop() closes the gate to new work.
GateFollowsStop ==
  /\ gate = "abandoned" => phase \notin {"none", "drain"}
  /\ phase # "none" => gate # "open"

\* Where the step stands tells what is in memory, installed and stored.  Only
\* a boot that stop() gave up on reaches its Cmds unsaved, and runs none.
CommitOrder ==
  LET s == step["main"].next IN
  /\ pc["main"] \in {"load", "save"} => HasStore
  /\ pc["main"] = "load" => state = NoState
  /\ pc["main"] \in {"save", "install", "cmds", "cmd"} =>
       state = s /\ state # NoState
  /\ pc["main"] \in {"cmds", "cmd"} => installed = s
  /\ HasStore =>
       /\ pc["main"] \in {"install", "cmds"} /\ gate # "abandoned" => stored = s
       /\ pc["main"] = "cmd" => stored = s
  /\ phase = "final" => state # NoState

\* Work items are numbered as they are made.
Numbered ==
  /\ \A i \in 1 .. Len(queue["main"]) : queue["main"][i] <= works
  /\ step["main"].msg <= works

\* While stop() drains, only detached work joins the line; when the tail has
\* settled, nothing but detached work is left.
DrainedLine ==
  /\ phase = "drain" =>
       /\ pc["main"] # "idle" => step["main"].msg <= drainTo
       /\ \A i \in 1 .. Len(queue["main"]) :
            queue["main"][i] > drainTo =>
              origin[queue["main"][i]] = "detached"
  /\ phase \notin {"none", "drain"} /\ gate # "abandoned" =>
       /\ pc["main"] = "idle"
       /\ \A i \in 1 .. Len(queue["main"]) :
            origin[queue["main"][i]] = "detached"

LaneInv ==
  /\ TypeOK /\ OneLane /\ GateFollowsStop /\ CommitOrder /\ Numbered
  /\ DrainedLine

-----------------------------------------------------------------------------
(* The line in order: what a run on one lane keeps about its Msgs.         *)

\* The line is in the order its items were made, behind the step and behind
\* every Msg folded before.
LineInOrder ==
  LET q == queue["main"] IN
  /\ \A i, j \in 1 .. Len(q) : i < j => q[i] < q[j]
  /\ \A i \in 1 .. Len(q) : step["main"].msg < q[i]
  /\ \A i \in 1 .. Len(folded) :
       /\ folded[i] <= works
       /\ \A j \in 1 .. Len(q) : folded[i] < q[j]

\* A Msg has the fate "line" while it is on the line, and no longer.
FateOfLine ==
  /\ \A i \in 1 .. Len(queue["main"]) :
       origin[queue["main"][i]] # "detached" => fate[queue["main"][i]] = "line"
  /\ \A i \in 1 .. Len(folded) : fate[folded[i]] # "line"

\* Nothing is counted until stop() gives up; from then on every Msg that still
\* waits has been.
WaitingIsCounted ==
  /\ gate # "abandoned" => counted = {}
  /\ gate = "abandoned" =>
       \A i \in 1 .. Len(queue["main"]) :
         origin[queue["main"][i]] # "detached" => queue["main"][i] \in counted

OrderInv ==
  LineInOrder /\ FateOfLine /\ WaitingIsCounted /\ FoldsInOrder
    /\ DropsAreCounted

\* A State recorded as saved is what the store holds.
SavedIsStored == saveStatus = "saved" => stored = state

\* The tail stands for nothing that was refused: the fate of a step says that
\* it runs, and the fate of a promise on the line that it is waited for.
FateOfTail ==
  /\ pc["main"] # "idle" /\ step["main"].msg # Boot =>
       fate[step["main"].msg] = "step"
  /\ \A i \in 1 .. Len(queue["main"]) :
       origin[queue["main"][i]] = "detached" => fate[queue["main"][i]] = "wait"

=============================================================================
