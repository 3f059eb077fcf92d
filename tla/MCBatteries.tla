----------------------------- MODULE MCBatteries -----------------------------
(***************************************************************************)
(* The parts of a demlik host beside the run loop, for TLC, in one run:    *)
(* the event-sourced store, the agent, the authed call, the owed effects,  *)
(* the durable workflow, the pull carrier, the work queue, the journal,    *)
(* the reconciler, the poller, the React mount, the saga, the intake, the  *)
(* spawned children, the extension bridge, the batch window, the throttled *)
(* input, the run in a ManagedRuntime, the handles held by Subs, the       *)
(* classified batches, and the file moves of structure-sweep.  They share  *)
(* no state in the code, so a behaviour here is one of one part, chosen at *)
(* the start, while the others rest where they begin.                      *)
(***************************************************************************)
EXTENDS MCAgentRun, AuthedCall, EventSourcedStore, OwedEffects,
        MCWorkflow, StepPull, WorkQueue, JournalSync, ReconcilePass, Poller, MountedRun,
        Saga, Intake, Children, Bridge, BatchWindow, ThrottledInput, HostedRun,
        SubHandles, ClassifyBatch, MoveApply

\* A call with every brick but the bucket, which fails at once when it is spent.
AuthBricks == [deadline |-> 3, attempts |-> 2, threshold |-> 1, cooldown |-> 2,
               probes |-> 1, ttl |-> 0, capacity |-> 0, refill |-> 0]

\* A page fetch with a deadline, a retry and a bucket of two.
PageBricks == [deadline |-> 3, attempts |-> 2, threshold |-> 0, cooldown |-> 0,
               probes |-> 0, ttl |-> 0, capacity |-> 2, refill |-> 1]

\* No change, one named twice, three.
Plans == {<<>>, <<1, 2, 1>>, <<1, 2, 3>>}

\* React 19.2 and later, at its oddest; and before it hid trees.
BothReacts == {[hides |-> TRUE, odd |-> TRUE], [hides |-> FALSE, odd |-> FALSE]}

\* A rate cap and a settle window, both with dedupe, and a cap with dedupe alone.
Throttles == {[throttle |-> 3, debounce |-> 1, ttl |-> 0],
              [throttle |-> 2, debounce |-> 2, ttl |-> 4],
              [throttle |-> 2, debounce |-> 0, ttl |-> 3]}

\* Two steps to pull.
OneRun == [r \in StepRuns |-> <<"a", "b">>]

VARIABLE part   \* the part that moves

Parts == {"store", "agent", "authed", "owed", "workflow", "steps", "queue",
          "journal", "reconciler", "poller", "mount", "saga", "intake",
          "children", "bridge", "window", "gate", "hosted",
          "handles", "asks", "moves"}

batteryVars == <<vars, agentVars, authVars, oweVars, wfVars, stepVars, queueVars,
                 journalVars, recVars, pollVars, mountVars, sagaVars, intakeVars,
                 childVars, bridgeVars, batchVars, gateVars, hostedVars,
                 handleVars, classVars, moveVars, part>>

BatteriesInit ==
  /\ Init /\ InitAgentHost /\ AuthInit /\ OweInit /\ WfInit /\ StepInit
  /\ QueueInit /\ JournalInit /\ RecInit /\ PollInit /\ MountInit
  /\ SagaInit /\ IntakeInit /\ ChildrenInit /\ BridgeInit
  /\ BatchInit /\ GateInit /\ HostedInit /\ HandlesInit
  /\ ClassInit /\ MoveInit
  /\ part \in Parts
  \* One choice will do for the parts it does not concern.
  /\ part # "mount" => react.hides
  /\ part # "workflow" => wfEvery = 100
  /\ part # "intake" => ~intakeAges
  /\ part # "steps" => stepKnob = [defers |-> FALSE, lasts |-> FALSE]
  /\ part # "gate" => gateConfig.throttle = 3
  /\ part # "moves" => moveRefs = {}

RestUnless(p, partVars) == IF part = p THEN TRUE ELSE UNCHANGED partVars

OthersRest ==
  /\ RestUnless("store", vars) /\ RestUnless("agent", agentVars)
  /\ RestUnless("authed", authVars) /\ RestUnless("owed", oweVars)
  /\ RestUnless("workflow", wfVars) /\ RestUnless("steps", stepVars)
  /\ RestUnless("queue", queueVars) /\ RestUnless("journal", journalVars)
  /\ RestUnless("reconciler", recVars) /\ RestUnless("poller", pollVars)
  /\ RestUnless("mount", mountVars) /\ RestUnless("saga", sagaVars)
  /\ RestUnless("intake", intakeVars) /\ RestUnless("children", childVars)
  /\ RestUnless("bridge", bridgeVars) /\ RestUnless("window", batchVars)
  /\ RestUnless("gate", gateVars) /\ RestUnless("hosted", hostedVars)
  /\ RestUnless("handles", handleVars) /\ RestUnless("asks", classVars)
  /\ RestUnless("moves", moveVars)
  /\ UNCHANGED part

StoreMoves == part = "store" /\ Next /\ OthersRest
AgentMoves == part = "agent" /\ AgentNext /\ OthersRest
AuthedMoves == part = "authed" /\ AuthNext /\ OthersRest
OwedMoves == part = "owed" /\ OweNext /\ OthersRest
\* What comes after wfAnew its property leaves to a run of its own (MCWorkflow).
WorkflowMoves == part = "workflow" /\ ~wfAnew /\ WfNext /\ OthersRest
StepsMoves == part = "steps" /\ StepNext /\ OthersRest
QueueMoves == part = "queue" /\ QueueNext /\ OthersRest
JournalMoves == part = "journal" /\ JournalNext /\ OthersRest
ReconcilerMoves == part = "reconciler" /\ RecNext /\ OthersRest
PollerMoves == part = "poller" /\ PollNext /\ OthersRest
MountMoves == part = "mount" /\ MountNext /\ OthersRest
SagaMoves == part = "saga" /\ SagaNext /\ OthersRest
IntakeMoves == part = "intake" /\ IntakeNext /\ OthersRest
ChildrenMoves == part = "children" /\ ChildrenNext /\ OthersRest
BridgeMoves == part = "bridge" /\ BridgeNext /\ OthersRest
WindowMoves == part = "window" /\ BatchNext /\ OthersRest
GateMoves == part = "gate" /\ GateNext /\ OthersRest
HostedMoves == part = "hosted" /\ HostedNext /\ OthersRest
HandlesMove == part = "handles" /\ HandlesNext /\ OthersRest
AsksMove == part = "asks" /\ ClassNext /\ OthersRest
FilesMove == part = "moves" /\ MoveNext /\ OthersRest

BatteriesNext ==
  \/ StoreMoves \/ AgentMoves \/ AuthedMoves \/ OwedMoves \/ WorkflowMoves
  \/ StepsMoves \/ QueueMoves \/ JournalMoves \/ ReconcilerMoves \/ PollerMoves
  \/ MountMoves \/ SagaMoves \/ IntakeMoves \/ ChildrenMoves \/ BridgeMoves
  \/ WindowMoves \/ GateMoves \/ HostedMoves \/ HandlesMove
  \/ AsksMove \/ FilesMove

BatteriesSpec == BatteriesInit /\ [][BatteriesNext]_batteryVars

-----------------------------------------------------------------------------

(* Work that was cut short is finished or undone, and what is said of it   *)
(* is so: the effects of the workflow and of the saga, the moved files.    *)
NothingHalfDone == EffectsAreExact /\ SagaIsExact /\ MovesAreWhole

(* What is owed, received or buffered takes effect once: the calls of the  *)
(* effect ledger, the payloads of the intake and the items of a window.    *)
DoneOnce == EffectivelyOnce /\ WorkIsDoneOnce /\ BatchesAreExact

(* What is kept in two places agrees once the messages are through: the    *)
(* journals of every client, and the State a surface of the bridge shows.  *)
ReplicasAgree == JournalsConverge /\ SurfaceIsCurrent

(* What waits has something that will move it: the calls parked for a      *)
(* token, the sample a throttled input holds, the keys of a batch.         *)
WaitingIsLive == ParkedIsLive /\ GateHolds /\ AnswersAreTrue

(* What was opened for a run is known while it is open, and ends with it:  *)
(* its children, itself in a ManagedRuntime, and the handles its Subs hold. *)
ScopesHold == TableIsTrue /\ HostedIsExact /\ HandlesAreHeld
=============================================================================
