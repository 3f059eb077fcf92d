--------------------------- MODULE BatteriesProof ---------------------------
(***************************************************************************)
(* What the parts promise, in the host of all of them: a step of it is one *)
(* of one part, so what each part keeps of its own state it keeps there.   *)
(***************************************************************************)
EXTENDS MCBatteries, HostsProof, FlowProof, CallsProof, StoresProof

\* A part moves when it is its turn, and rests otherwise.
LEMMA PartsMove ==
  ASSUME [BatteriesNext]_batteryVars
  PROVE  /\ [ChildrenNext]_childVars /\ [HostedNext]_hostedVars
         /\ [HandlesNext]_handleVars /\ [SagaNext]_sagaVars /\ [MoveNext]_moveVars
         /\ [JournalNext]_journalVars /\ [BridgeNext]_bridgeVars
         /\ [OweNext]_oweVars /\ [IntakeNext]_intakeVars /\ [BatchNext]_batchVars
         /\ [AuthNext]_authVars /\ [GateNext]_gateVars /\ [ClassNext]_classVars
         /\ [WfNext]_wfVars
<1>1. CASE UNCHANGED batteryVars
  BY <1>1 DEF batteryVars
<1>2. ASSUME NEW p, part = p, OthersRest
      PROVE  /\ p # "children" => UNCHANGED childVars
             /\ p # "hosted" => UNCHANGED hostedVars
             /\ p # "handles" => UNCHANGED handleVars
             /\ p # "saga" => UNCHANGED sagaVars
             /\ p # "moves" => UNCHANGED moveVars
             /\ p # "journal" => UNCHANGED journalVars
             /\ p # "bridge" => UNCHANGED bridgeVars
  BY <1>2 DEF OthersRest, RestUnless
<1>3. ASSUME NEW p, part = p, OthersRest
      PROVE  /\ p # "owed" => UNCHANGED oweVars
             /\ p # "intake" => UNCHANGED intakeVars
             /\ p # "window" => UNCHANGED batchVars
             /\ p # "authed" => UNCHANGED authVars
             /\ p # "gate" => UNCHANGED gateVars
             /\ p # "asks" => UNCHANGED classVars
             /\ p # "workflow" => UNCHANGED wfVars
  BY <1>3 DEF OthersRest, RestUnless
<1>4. CASE \/ ChildrenMoves \/ HostedMoves \/ HandlesMove \/ SagaMoves \/ FilesMove
           \/ JournalMoves \/ BridgeMoves
  BY <1>2, <1>3, <1>4 DEF ChildrenMoves, HostedMoves, HandlesMove, SagaMoves,
     FilesMove, JournalMoves, BridgeMoves
<1>5. CASE \/ OwedMoves \/ IntakeMoves \/ WindowMoves \/ AuthedMoves \/ GateMoves
           \/ AsksMove \/ WorkflowMoves
  BY <1>2, <1>3, <1>5 DEF OwedMoves, IntakeMoves, WindowMoves, AuthedMoves,
     GateMoves, AsksMove, WorkflowMoves
<1>6. CASE \/ StoreMoves \/ AgentMoves \/ StepsMoves \/ QueueMoves
           \/ ReconcilerMoves \/ PollerMoves \/ MountMoves
  BY <1>2, <1>3, <1>6 DEF StoreMoves, AgentMoves, StepsMoves, QueueMoves,
     ReconcilerMoves, PollerMoves, MountMoves
<1> QED
  BY <1>1, <1>4, <1>5, <1>6 DEF BatteriesNext

\* What was opened for a run ends with it, in the host of every part, for any
\* runtimes, children and keys; where no two runs share a battery of handles.
THEOREM ScopesAreKept ==
  ASSUME OneRunHolds
  PROVE  BatteriesSpec => []ScopesHold
<1>1. BatteriesInit => ChildrenInit /\ HostedInit /\ HandlesInit
  BY DEF BatteriesInit
<1>2. BatteriesSpec => ChildrenSpec /\ HostedSpec /\ HandlesSpec
  BY <1>1, PartsMove, PTL DEF BatteriesSpec, ChildrenSpec, HostedSpec, HandlesSpec
<1>3. ChildrenSpec /\ HostedSpec /\ HandlesSpec => []ScopesHold
  <2>1. TableIsTrue /\ HostedIsExact /\ HandlesAreHeld => ScopesHold
    BY DEF ScopesHold
  <2> QED
    BY <2>1, TableStaysTrue, HostedStaysExact, SubHandlesAreHeld, PTL
<1> QED
  BY <1>2, <1>3, PTL

\* The journals of the clients and the State of the surfaces agree with what is
\* kept at the other end, in the host of every part, for any clients and surfaces.
THEOREM ReplicasStayInAgreement == BatteriesSpec => []ReplicasAgree
<1>1. BatteriesInit => JournalInit /\ BridgeInit
  BY DEF BatteriesInit
<1>2. BatteriesSpec => JournalSpec /\ BridgeSpec
  BY <1>1, PartsMove, PTL DEF BatteriesSpec, JournalSpec, BridgeSpec
<1>3. JournalSpec /\ BridgeSpec => []ReplicasAgree
  <2>1. JournalsConverge /\ SurfaceIsCurrent => ReplicasAgree
    BY DEF ReplicasAgree
  <2> QED
    BY <2>1, JournalsStayConverged, SurfacesStayCurrent, PTL
<1> QED
  BY <1>2, <1>3, PTL

\* The calls owed, the payloads received and the items buffered take effect once,
\* in the host of every part, for any calls, payloads and configuration; where the
\* run does not await again, under the same id, a call whose wait it gave up.
THEOREM WorkTakesEffectOnce ==
  ASSUME ~OweAgain
  PROVE  BatteriesSpec => []DoneOnce
<1>1. BatteriesInit => OweInit /\ IntakeInit /\ BatchInit
  BY DEF BatteriesInit
<1>2. BatteriesSpec => OweSpec /\ IntakeSpec /\ BatchSpec
  BY <1>1, PartsMove, PTL DEF BatteriesSpec, OweSpec, IntakeSpec, BatchSpec
<1>3. OweSpec /\ IntakeSpec /\ BatchSpec => []DoneOnce
  <2>1. EffectivelyOnce /\ WorkIsDoneOnce /\ BatchesAreExact => DoneOnce
    BY DEF DoneOnce
  <2> QED
    BY <2>1, WritesStayOnce, WorkStaysDoneOnce, BatchesStayExact, PTL
<1> QED
  BY <1>2, <1>3, PTL

\* The calls parked behind a token, the samples a throttle holds back and the items
\* asked about are what their batteries tell of them, in the host of every part,
\* for any keys, bounds and clock.
THEOREM WaitingStaysLive == BatteriesSpec => []WaitingIsLive
<1>1. BatteriesInit => AuthInit /\ GateInit /\ ClassInit
  BY DEF BatteriesInit
<1>2. BatteriesSpec => AuthSpec /\ GateSpec /\ ClassSpec
  BY <1>1, PartsMove, PTL DEF BatteriesSpec, AuthSpec, GateSpec, ClassSpec
<1>3. AuthSpec /\ GateSpec /\ ClassSpec => []WaitingIsLive
  <2>1. ParkedIsLive /\ GateHolds /\ AnswersAreTrue => WaitingIsLive
    BY DEF WaitingIsLive
  <2> QED
    BY <2>1, ParkedStaysLive, GateStaysTrue, AnswersStayTrue, PTL
<1> QED
  BY <1>2, <1>3, PTL

\* A saga, a durable workflow and a rename leave nothing half done, in the host of
\* every part, for any steps, plans and files, any length of the log and any number
\* of results between two snapshots; where the workflow's grain has one caller at a
\* time, and for its effects until an activation folds results onto a snapshot.
THEOREM NothingStaysHalfDone ==
  ASSUME OneCaller
  PROVE  BatteriesSpec => []NothingHalfDone
<1>1. BatteriesInit => SagaInit /\ WfInit /\ MoveInit
  BY DEF BatteriesInit
<1>2. BatteriesSpec => SagaSpec /\ WfSpec /\ MoveSpec
  BY <1>1, PartsMove, PTL DEF BatteriesSpec, SagaSpec, WfSpec, MoveSpec
<1>3. SagaSpec /\ WfSpec /\ MoveSpec => []NothingHalfDone
  <2>1. SagaIsExact /\ EffectsAreExact /\ MovesAreWhole => NothingHalfDone
    BY DEF NothingHalfDone
  <2> QED
    BY <2>1, SagaStaysExact, EffectsStayExact, MovesStayWhole, PTL
<1> QED
  BY <1>2, <1>3, PTL
=============================================================================
