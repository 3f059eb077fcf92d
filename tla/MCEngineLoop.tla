---------------------------- MODULE MCEngineLoop ----------------------------
(***************************************************************************)
(* Small machines for the model checker: the values of the constants, and  *)
(* the kinds of run that one check goes through side by side.              *)
(***************************************************************************)
EXTENDS EngineLoopDurable

\* One Sub, which a State may want or not.
OneSub == {{}, {1}}

UpToOneCmd == {0, 1}

CONSTANT Kinds  \* the kinds of run to check

VARIABLE kind   \* that of this one

MCvars == <<vars, kind>>

-----------------------------------------------------------------------------
(* "plain": all that the constants allow; "unwatched": a run for MaxWork   *)
(* work items, with no caller of done() or idle(), that neither reaches a  *)
(* terminal State nor detaches work.  The shorter ones do: "done" reaches  *)
(* terminal States and answers done(), "idle" detaches work and answers    *)
(* idle().                                                                 *)
ShortRun == 2

Within ==
  /\ kind \in {"done", "idle"} => works' <= ShortRun
  /\ kind \in {"unwatched", "idle"} => waiter' = "none" /\ ~state'.term
  /\ kind \in {"unwatched", "done"} => idle'.at = "none" /\ detached' = {}

\* "memory": a run without a store, of a machine that is rehydrated after a
\* throw; no other program tells it a Msg.  It commits its first State before
\* startLoop returns.
Memory == INSTANCE EngineLoop WITH HasStore <- FALSE, Strategy <- "restart",
                                   Origins <- Origins \ {"tell"}

Kind(A, M) == UNCHANGED kind /\ IF kind = "memory" THEN M ELSE A /\ Within

MCInit == kind \in Kinds /\ IF kind = "memory" THEN Memory!Init ELSE Init
MCEngine == Kind(Engine, Memory!Engine)
MCStopping == Kind(Stopping, Memory!Stopping)
MCNext == \/ MCEngine \/ MCStopping
          \/ Kind(Awaited, Memory!Awaited) \/ Kind(World, Memory!World)

MCSpec == /\ MCInit /\ [][MCNext]_MCvars
          /\ WF_MCvars(MCEngine) /\ WF_MCvars(MCStopping)
=============================================================================
