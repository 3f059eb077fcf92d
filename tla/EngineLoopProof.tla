--------------------------- MODULE EngineLoopProof ---------------------------
(***************************************************************************)
(* Proofs about EngineLoop, for every value of its constants.              *)
(***************************************************************************)
EXTENDS EngineLoopDurable, FiniteSetTheorems, SequenceTheorems, TLAPS

-----------------------------------------------------------------------------
(* Types of the operators the actions are built from.                      *)

\* The constants as the lemmas below use them.
LEMMA ConstantTypes ==
  /\ HasStore \in BOOLEAN
  /\ MaxWork \in Nat /\ IdleCap \in Nat /\ NSubs \in Nat
  /\ CmdCounts \subseteq Nat /\ Wants \subseteq SUBSET Subs
  /\ Terms \subseteq BOOLEAN
  /\ Origins \subseteq {"caller", "loop", "tell"}
BY LoopAssumption DEF LoopAssumption

\* The step of a lane on which nothing runs is of the type of steps.
LEMMA NoStepType == NoStep \in Steps
BY DEF NoStep, Steps, Step

\* A step of a work item and a State is of the type of steps.
LEMMA StepOfType ==
  ASSUME NEW m \in {Boot} \cup Works, NEW s \in States \cup {NoState},
         NEW n \in Nat
  PROVE  Step(m, s, n) \in Steps
BY DEF Steps, Step

\* A State the machine may return is a State.
LEMMA FoldedStateType ==
  ASSUME NEW v \in Nat, NEW want \in Wants, NEW term \in Terms
  PROVE  [ver |-> v, want |-> want, term |-> term] \in States
BY ConstantTypes DEF States

\* The next State of a run that has one, or has none, has a version in Nat.
LEMMA VersionType ==
  ASSUME NEW s \in States \cup {NoState}
  PROVE  s.ver + 1 \in Nat
BY DEF States, NoState

\* The number of Subs disposed of at once.
LEMMA SubCount ==
  ASSUME NEW S \in SUBSET Subs
  PROVE  Cardinality(S) \in Nat
<1>1. IsFiniteSet(Subs)
  BY ConstantTypes, FS_Interval DEF Subs
<1>2. IsFiniteSet(S)
  BY <1>1, FS_Subset
<1> QED
  BY <1>2, FS_CardinalityType

\* A dispatch keeps the types of the line, accepted or refused.
LEMMA EnqueueType ==
  ASSUME LineType, NEW org \in {"caller", "loop", "tell"}, Enqueue(org)
  PROVE  LineType'
<1> DEFINE w == works + 1
<1>1. w \in Works /\ works' \in 0 .. MaxWork
  BY ConstantTypes DEF Enqueue, LineType, Works
<1>2. origin' \in [Works -> {"none", "caller", "loop", "tell", "detached"}]
  BY <1>1 DEF Enqueue, LineType
<1>3. Refusal(org) \in Fates
  BY DEF Refusal, Fates
<1>4. fate' \in [Works -> Fates]
  BY <1>1, <1>3 DEF Enqueue, LineType, Fates
<1>5. Chain(w) \in [Lanes -> Seq(Works)]
  BY <1>1 DEF Chain, LineType, TailLane, Lanes
<1>6. queue' \in [Lanes -> Seq(Works)]
  BY <1>5 DEF Enqueue, LineType
<1> QED
  BY <1>1, <1>2, <1>4, <1>6 DEF Enqueue, LineType

\* A work item that leaves the line keeps the types of the line.
LEMMA LeaveType ==
  ASSUME LineType, NEW l \in Lanes, queue[l] # <<>>,
         NEW outcome \in Fates, Leave(l, outcome)
  PROVE  LineType' /\ Head(queue[l]) \in Works
<1>1. queue[l] \in Seq(Works)
  BY DEF LineType
<1>2. Head(queue[l]) \in Works /\ Tail(queue[l]) \in Seq(Works)
  BY <1>1
<1> QED
  BY <1>2 DEF Leave, LineType

\* A step that ends keeps the types of the line and of the steps.
LEMMA SettleType ==
  ASSUME LineType, StepType, NEW l \in Lanes, NEW outcome \in Fates,
         Settle(l, outcome)
  PROVE  LineType' /\ StepType'
<1>1. step[l].msg \in {Boot} \cup Works
  BY DEF StepType, Steps
<1>2. LineType'
  BY <1>1 DEF Settle, LineType
<1>3. StepType'
  BY NoStepType DEF Settle, StepType, Pcs
<1> QED
  BY <1>2, <1>3

\* commit() up to store.save keeps the types of the State and of the steps.
LEMMA BeginCommitType ==
  ASSUME StepType, NEW l \in Lanes, NEW m \in {Boot} \cup Works,
         NEW s \in States, NEW n \in Nat, BeginCommit(l, m, s, n)
  PROVE  /\ StepType'
         /\ state' \in States \cup {NoState}
         /\ saveStatus' \in {"pending", "saved", "failed"}
<1>1. Step(m, s, n) \in Steps
  BY StepOfType
<1>2. FirstOfCommit \in Pcs
  BY DEF FirstOfCommit, Pcs
<1> QED
  BY <1>1, <1>2 DEF BeginCommit, StepType

-----------------------------------------------------------------------------
(* Type correctness.                                                       *)

\* A run starts with every variable of its type.
LEMMA InitType == Init => TypeOK
<1> SUFFICES ASSUME Init PROVE TypeOK
  OBVIOUS
<1>1. GateType
  BY ConstantTypes DEF Init, GateType
<1>2. state \in States \cup {NoState}
  <2>1. CASE HasStore
    BY <2>1 DEF Init
  <2>2. CASE ~HasStore
    BY <2>2, FoldedStateType DEF Init
  <2> QED
    BY <2>1, <2>2
<1>3. StateType
  BY <1>2 DEF Init, StateType
<1>4. LineType
  BY ConstantTypes DEF Init, LineType, Fates
<1>5. StepType
  <2>1. CASE HasStore
    BY <2>1, NoStepType DEF Init, StepType, Pcs
  <2>2. CASE ~HasStore
    <3>1. PICK n \in CmdCounts :
            /\ pc = [l \in Lanes |-> IF l = "main" THEN "install" ELSE "idle"]
            /\ step = [l \in Lanes |->
                         IF l = "main" THEN Step(Boot, state, n) ELSE NoStep]
      BY <2>2 DEF Init
    <3>2. Step(Boot, state, n) \in Steps
      BY <1>2, ConstantTypes, StepOfType
    <3> QED
      BY <3>1, <3>2, NoStepType DEF StepType, Pcs
  <2> QED
    BY <2>1, <2>2
<1>6. SubType
  BY DEF Init, SubType
<1>7. WaitType
  BY ConstantTypes DEF Init, WaitType
<1>8. FlagType
  BY ConstantTypes DEF Init, FlagType
<1> QED
  BY <1>1, <1>3, <1>4, <1>5, <1>6, <1>7, <1>8 DEF TypeOK

\* A part of the state that a step leaves alone keeps its type.
LEMMA Frames ==
  /\ GateType /\ UNCHANGED gateVars => GateType'
  /\ StateType /\ UNCHANGED stateVars => StateType'
  /\ LineType /\ UNCHANGED lineVars => LineType'
  /\ StepType /\ UNCHANGED <<pc, step>> => StepType'
  /\ SubType /\ UNCHANGED subVars => SubType'
  /\ WaitType /\ UNCHANGED <<waiter, idle>> => WaitType'
  /\ FlagType /\ UNCHANGED <<started, stopDue, bootError, failure, stoppedBy>>
       => FlagType'
<1>1. GateType /\ UNCHANGED gateVars => GateType'
  BY DEF GateType, gateVars
<1>2. StateType /\ UNCHANGED stateVars => StateType'
  BY DEF StateType, stateVars
<1>3. LineType /\ UNCHANGED lineVars => LineType'
  BY DEF LineType, lineVars
<1>4. StepType /\ UNCHANGED <<pc, step>> => StepType'
  BY DEF StepType
<1>5. SubType /\ UNCHANGED subVars => SubType'
  BY DEF SubType, subVars
<1>6. WaitType /\ UNCHANGED <<waiter, idle>> => WaitType'
  BY DEF WaitType
<1>7. FlagType /\ UNCHANGED <<started, stopDue, bootError, failure, stoppedBy>>
       => FlagType'
  BY DEF FlagType
<1> QED
  BY <1>1, <1>2, <1>3, <1>4, <1>5, <1>6, <1>7

\* Boot, and the turn of a work item.
LEMMA TurnTypes ==
  ASSUME TypeOK, NEW l \in Lanes,
         \/ Load \/ LoadFails \/ StartReturns
         \/ Drop(l) \/ NoTransition(l) \/ Halt(l) \/ Fold(l) \/ PassDetached(l)
  PROVE  TypeOK'
<1> USE DEF gateVars, stateVars, lineVars, stepVars, subVars, doneVars
<1> GateType /\ StateType /\ LineType /\ StepType /\ SubType /\ WaitType
      /\ FlagType
  BY DEF TypeOK
<1>1. CASE Load
  <2>1. UNCHANGED <<gateVars, lineVars, subVars, doneVars, idle, started,
                    installed, stored, bootError, folded>>
    BY <1>1 DEF Load
  <2>2. /\ StepType' /\ state' \in States \cup {NoState}
        /\ saveStatus' \in {"pending", "saved", "failed"}
    <3>1. PICK want \in Wants, term \in Terms, n \in CmdCounts :
            BeginCommit("main", Boot,
                        [ver |-> 0, want |-> want, term |-> term], n)
      BY <1>1 DEF Load
    <3>2. [ver |-> 0, want |-> want, term |-> term] \in States
      BY FoldedStateType
    <3>3. n \in Nat /\ "main" \in Lanes
      BY ConstantTypes DEF Lanes
    <3> QED
      BY <3>1, <3>2, <3>3, BeginCommitType
  <2>3. StateType'
    BY <2>1, <2>2 DEF StateType
  <2> QED
    BY <2>1, <2>2, <2>3, Frames DEF TypeOK
<1>2. CASE LoadFails
  <2>1. UNCHANGED <<gateVars, stateVars, lineVars, subVars, doneVars, idle,
                    started>>
    BY <1>2 DEF LoadFails
  <2>2. StepType'
    BY <1>2 DEF LoadFails, StepType, Pcs
  <2> QED
    BY <2>1, <2>2, Frames DEF TypeOK
<1>3. CASE StartReturns
  <2>1. UNCHANGED <<gateVars, stateVars, lineVars, subVars, doneVars, idle, pc,
                    step>>
    BY <1>3 DEF StartReturns
  <2>2. FlagType'
    BY <1>3 DEF StartReturns, FlagType
  <2> QED
    BY <2>1, <2>2, Frames DEF TypeOK
<1>4. CASE Drop(l) \/ NoTransition(l) \/ PassDetached(l)
  <2>1. UNCHANGED <<gateVars, stateVars, stepVars, subVars, doneVars, idle>>
    BY <1>4 DEF Drop, NoTransition, PassDetached
  <2>2. queue[l] # <<>> /\ \E outcome \in Fates : Leave(l, outcome)
    BY <1>4 DEF Drop, NoTransition, PassDetached, Serve, Turn, Fates
  <2>3. LineType'
    BY <2>2, LeaveType
  <2> QED
    BY <2>1, <2>3, Frames DEF TypeOK
<1>5. CASE Halt(l)
  <2>1. UNCHANGED <<stateVars, stepVars, subVars, waiter, idle>>
    BY <1>5 DEF Halt
  <2>2. GateType'
    BY <1>5 DEF Halt, GateType
  <2>3. LineType'
    BY <1>5, LeaveType DEF Halt, Serve, Turn, Fates
  <2>4. FlagType'
    BY <1>5 DEF Halt, StopOnFailure, FlagType
  <2> QED
    BY <2>1, <2>2, <2>3, <2>4, Frames DEF TypeOK
<1>6. CASE Fold(l)
  <2>1. UNCHANGED <<gateVars, subVars, doneVars, idle, started, installed,
                    stored, bootError>>
    BY <1>6 DEF Fold
  <2>2. LineType' /\ Head(queue[l]) \in Works
    BY <1>6, LeaveType DEF Fold, Serve, Turn, Fates
  <2>3. /\ StepType' /\ state' \in States \cup {NoState}
        /\ saveStatus' \in {"pending", "saved", "failed"}
    <3>1. PICK want \in Wants, term \in Terms, n \in Nat :
            BeginCommit(l, Head(queue[l]),
              [ver |-> state.ver + 1, want |-> want, term |-> term], n)
      BY <1>6, ConstantTypes DEF Fold
    <3>2. state.ver + 1 \in Nat
      BY VersionType DEF StateType
    <3> QED
      BY <2>2, <3>1, <3>2, FoldedStateType, BeginCommitType
  <2>4. folded' \in Seq(Works)
    BY <1>6, <2>2 DEF Fold, StateType
  <2>5. StateType'
    BY <2>1, <2>3, <2>4 DEF StateType
  <2> QED
    BY <2>1, <2>2, <2>3, <2>5, Frames DEF TypeOK
<1> QED
  BY <1>1, <1>2, <1>3, <1>4, <1>5, <1>6

\* reconcileSubs().
LEMMA InstallType ==
  ASSUME TypeOK, NEW l \in Lanes, Install(l)
  PROVE  TypeOK'
<1> USE DEF gateVars, stateVars, lineVars, subVars, doneVars
<1> GateType /\ StateType /\ LineType /\ StepType /\ SubType /\ WaitType
      /\ FlagType
  BY DEF TypeOK
<1>1. UNCHANGED <<idle, started, step, state, saveStatus, stored, bootError,
                  folded>>
  BY DEF Install
<1>2. PICK unread, bad, early, dead :
        /\ unread \subseteq Subs /\ early \in BOOLEAN
        /\ bad \subseteq ToStart(unread) /\ dead \subseteq ToStart(unread)
        /\ running' = (running \ ToStop(unread))
                        \cup (ToStart(unread) \ (bad \cup dead))
        /\ disposals' = disposals + Cardinality(ToStop(unread) \cup dead)
        /\ IF bad \cup dead # {} THEN FailRun
           ELSE UNCHANGED <<gateVars, doneVars>>
        /\ IF early
           THEN EagerStart /\ ToStart(unread) # {} /\ "loop" \in Origins
                  /\ Enqueue("loop")
           ELSE UNCHANGED lineVars
        /\ IF unread \cup bad = {}
           THEN /\ installed' = step[l].next
                /\ pc' = [pc EXCEPT ![l] = "cmds"]
           ELSE /\ pc' = [pc EXCEPT ![l] = "throwing"]
                /\ UNCHANGED installed
  <2>1. {{}} \subseteq SUBSET Subs
    OBVIOUS
  <2> QED
    BY <2>1, Zenon DEF Install
<1>3. SubType'
  <2>1. ToStart(unread) \subseteq Subs
    BY DEF ToStart, StateType, States, NoState
  <2>2. ToStop(unread) \cup dead \in SUBSET Subs
    BY <1>2, <2>1 DEF ToStop, SubType
  <2>3. Cardinality(ToStop(unread) \cup dead) \in Nat
    BY <2>2, SubCount
  <2> QED
    BY <1>2, <2>1, <2>3 DEF SubType
<1>4. GateType' /\ UNCHANGED waiter
  BY <1>2 DEF FailRun, GateType
<1>5. FlagType'
  BY <1>1, <1>2 DEF FailRun, StopOnFailure, FlagType
<1>6. LineType'
  BY <1>2, EnqueueType, Frames
<1>7. step[l].next \in States \cup {NoState}
  BY DEF StepType, Steps
<1>8. StateType'
  BY <1>1, <1>2, <1>7 DEF StateType
<1>9. StepType'
  BY <1>1, <1>2 DEF StepType, Pcs
<1> QED
  BY <1>1, <1>3, <1>4, <1>5, <1>6, <1>8, <1>9, Frames DEF TypeOK

\* The rest of commit().
LEMMA CommitTypes ==
  ASSUME TypeOK, NEW l \in Lanes,
         \/ SaveOk(l) \/ SaveFails(l) \/ NextCmd(l) \/ HandlerReturns(l)
         \/ HandlerThrows(l) \/ Finish(l) \/ Reject(l)
  PROVE  TypeOK'
<1> USE DEF gateVars, stateVars, lineVars, stepVars, subVars, doneVars
<1> GateType /\ StateType /\ LineType /\ StepType /\ SubType /\ WaitType
      /\ FlagType
  BY DEF TypeOK
<1>1. CASE SaveOk(l)
  <2>1. UNCHANGED <<gateVars, lineVars, subVars, doneVars, idle, started, step,
                    state, installed, bootError, folded>>
    BY <1>1 DEF SaveOk
  <2>2. StateType'
    BY <1>1 DEF SaveOk, StateType, StepType, Steps
  <2>3. StepType'
    BY <1>1 DEF SaveOk, StepType, Pcs
  <2> QED
    BY <2>1, <2>2, <2>3, Frames DEF TypeOK
<1>2. CASE SaveFails(l)
  <2>1. UNCHANGED <<gateVars, lineVars, subVars, idle, started, step, state,
                    installed, stored, bootError, folded, failure, stoppedBy>>
    BY <1>2 DEF SaveFails
  <2>2. StateType'
    BY <1>2 DEF SaveFails, StateType
  <2>3. StepType'
    BY <1>2 DEF SaveFails, StepType, Pcs
  <2>4. WaitType'
    BY <1>2 DEF SaveFails, WaitType
  <2> QED
    BY <2>1, <2>2, <2>3, <2>4, Frames DEF TypeOK
<1>3. CASE NextCmd(l)
  <2>1. UNCHANGED <<gateVars, stateVars, lineVars, subVars, doneVars, idle,
                    started>>
    BY <1>3 DEF NextCmd
  <2>2. [step[l] EXCEPT !.left = @ - 1] \in Steps
    BY <1>3 DEF NextCmd, StepType, Steps
  <2>3. StepType'
    BY <1>3, <2>2 DEF NextCmd, StepType, Pcs
  <2> QED
    BY <2>1, <2>3, Frames DEF TypeOK
<1>4. CASE HandlerReturns(l)
  <2>1. UNCHANGED <<gateVars, stateVars, subVars, doneVars, idle, started,
                    step>>
    BY <1>4 DEF HandlerReturns
  <2>2. LineType'
    BY <1>4, EnqueueType, Frames DEF HandlerReturns
  <2>3. StepType'
    BY <1>4 DEF HandlerReturns, StepType, Pcs
  <2> QED
    BY <2>1, <2>2, <2>3, Frames DEF TypeOK
<1>5. CASE HandlerThrows(l)
  <2>1. UNCHANGED <<gateVars, stateVars, lineVars, subVars, idle, started,
                    step, failure, stoppedBy>>
    BY <1>5 DEF HandlerThrows, CommitCallbacks
  <2>2. StepType'
    BY <1>5 DEF HandlerThrows, StepType, Pcs
  <2>3. WaitType'
    BY <1>5 DEF HandlerThrows, CommitCallbacks, WaitType
  <2> QED
    BY <2>1, <2>2, <2>3, Frames DEF TypeOK
<1>6. CASE Finish(l)
  <2>1. UNCHANGED <<gateVars, stateVars, subVars, idle, started, failure,
                    stoppedBy>>
    BY <1>6 DEF Finish, CommitCallbacks, Settle
  <2>2. LineType' /\ StepType'
    BY <1>6, SettleType DEF Finish, Fates
  <2>3. WaitType'
    BY <1>6 DEF Finish, CommitCallbacks, WaitType
  <2> QED
    BY <2>1, <2>2, <2>3, Frames DEF TypeOK
<1>7. CASE Reject(l)
  <2>1. UNCHANGED <<gateVars, subVars, doneVars, idle, state, installed,
                    saveStatus, stored, folded, started>>
    BY <1>7 DEF Reject, Settle
  <2>2. LineType' /\ StepType'
    BY <1>7, SettleType DEF Reject, Fates
  <2>3. FlagType'
    BY <1>7, <2>1 DEF Reject, FlagType
  <2>4. StateType'
    BY <2>1 DEF StateType
  <2> QED
    BY <2>1, <2>2, <2>3, <2>4, Frames DEF TypeOK
<1> QED
  BY <1>1, <1>2, <1>3, <1>4, <1>5, <1>6, <1>7

\* What reaches the loop from outside a step.
LEMMA WorldTypes ==
  ASSUME TypeOK,
         \/ CallerDispatch \/ LoopDispatch \/ DisposalSettles
         \/ \E l \in Lanes : Detach(l)
         \/ \E w \in detached : DetachedSettles(w)
         \/ \E s \in Subs : SubFails(s)
         \/ CallDone \/ CallIdle \/ IdleLooks
  PROVE  TypeOK'
<1> USE DEF gateVars, stateVars, lineVars, stepVars, subVars, doneVars
<1> GateType /\ StateType /\ LineType /\ StepType /\ SubType /\ WaitType
      /\ FlagType
  BY DEF TypeOK
<1>1. CASE CallerDispatch \/ LoopDispatch
  <2>1. UNCHANGED <<gateVars, stateVars, stepVars, subVars, doneVars, idle>>
    BY <1>1 DEF CallerDispatch, LoopDispatch
  <2>2. \E org \in {"caller", "loop", "tell"} : Enqueue(org)
    BY <1>1, ConstantTypes DEF CallerDispatch, LoopDispatch
  <2>3. LineType'
    BY <2>2, EnqueueType
  <2> QED
    BY <2>1, <2>3, Frames DEF TypeOK
<1>2. ASSUME NEW l \in Lanes, Detach(l) PROVE TypeOK'
  <2>1. UNCHANGED <<gateVars, stateVars, stepVars, subVars, doneVars, idle>>
    BY <1>2 DEF Detach
  <2>2. works' \in Works /\ works' \in 0 .. MaxWork
    BY <1>2, ConstantTypes DEF Detach, LineType, Works
  <2>3. Chain(works') \in [Lanes -> Seq(Works)]
    BY <2>2 DEF Chain, LineType, TailLane, Lanes
  <2>4. LineType'
    BY <1>2, <2>2, <2>3 DEF Detach, LineType, Fates
  <2> QED
    BY <2>1, <2>4, Frames DEF TypeOK
<1>3. ASSUME NEW w \in detached, DetachedSettles(w) PROVE TypeOK'
  <2>1. UNCHANGED <<gateVars, stateVars, stepVars, subVars, doneVars, idle,
                    queue, works, origin, fate>>
    BY <1>3 DEF DetachedSettles
  <2>2. LineType'
    BY <1>3, <2>1 DEF DetachedSettles, LineType
  <2> QED
    BY <2>1, <2>2, Frames DEF TypeOK
<1>4. ASSUME NEW s \in Subs, SubFails(s) PROVE TypeOK'
  <2>1. UNCHANGED <<stateVars, lineVars, stepVars, idle, waiter>>
    BY <1>4 DEF SubFails, FailRun
  <2>2. SubType'
    BY <1>4 DEF SubFails, SubType
  <2>3. GateType'
    BY <1>4 DEF SubFails, FailRun, GateType
  <2>4. FlagType'
    BY <1>4 DEF SubFails, FailRun, StopOnFailure, FlagType
  <2> QED
    BY <2>1, <2>2, <2>3, <2>4, Frames DEF TypeOK
<1>5. CASE DisposalSettles
  <2>1. UNCHANGED <<gateVars, stateVars, lineVars, stepVars, doneVars, idle>>
    BY <1>5 DEF DisposalSettles
  <2>2. SubType'
    BY <1>5 DEF DisposalSettles, SubType
  <2> QED
    BY <2>1, <2>2, Frames DEF TypeOK
<1>6. CASE CallDone
  <2>1. UNCHANGED <<gateVars, stateVars, lineVars, stepVars, subVars, idle,
                    failure, stoppedBy>>
    BY <1>6 DEF CallDone
  <2>2. WaitType'
    BY <1>6 DEF CallDone, DoneAnswer, WaitType
  <2> QED
    BY <2>1, <2>2, Frames DEF TypeOK
<1>7. CASE CallIdle \/ IdleLooks
  <2>1. UNCHANGED <<gateVars, stateVars, lineVars, stepVars, subVars, doneVars>>
    BY <1>7 DEF CallIdle, IdleLooks
  <2>2. idle' \in [at : {"none", "waiting", "resolved", "capped"},
                   upTo : 0 .. MaxWork, rounds : 0 .. IdleCap]
    <3>1. CASE CallIdle
      BY <3>1, ConstantTypes DEF CallIdle, LineType
    <3>2. CASE IdleLooks
      <4>1. works \in 0 .. MaxWork
        BY DEF LineType
      <4>2. /\ idle.upTo \in 0 .. MaxWork /\ idle.rounds \in 0 .. IdleCap
        BY DEF WaitType
      <4>3. CASE SameTail \/ idle.rounds = IdleCap
        BY <3>2, <4>3 DEF IdleLooks, WaitType
      <4>4. CASE ~SameTail /\ idle.rounds # IdleCap
        <5>1. idle' = [idle EXCEPT !.upTo = works, !.rounds = @ + 1]
          BY <3>2, <4>4 DEF IdleLooks
        <5>2. idle.rounds + 1 \in 0 .. IdleCap
          BY <4>2, <4>4, ConstantTypes
        <5> QED
          BY <4>1, <5>1, <5>2 DEF WaitType
      <4> QED
        BY <4>3, <4>4
    <3> QED
      BY <1>7, <3>1, <3>2
  <2>3. WaitType'
    BY <2>1, <2>2 DEF WaitType
  <2> QED
    BY <2>1, <2>3, Frames DEF TypeOK
<1> QED
  BY <1>1, <1>2, <1>3, <1>4, <1>5, <1>6, <1>7

\* stop().
LEMMA StopTypes ==
  ASSUME TypeOK,
         \/ Teardown \/ DrainSettles \/ DrainTimesOut \/ CloseSubs
         \/ EndDisposals \/ FinalSave
  PROVE  TypeOK'
<1> USE DEF gateVars, stateVars, lineVars, stepVars, subVars, doneVars
<1> GateType /\ StateType /\ LineType /\ StepType /\ SubType /\ WaitType
      /\ FlagType
  BY DEF TypeOK
<1>1. CASE Teardown
  <2>1. UNCHANGED <<stateVars, lineVars, stepVars, subVars, doneVars, idle>>
    BY <1>1 DEF Teardown
  <2>2. GateType'
    BY <1>1 DEF Teardown, GateType, LineType
  <2>3. FlagType'
    BY <1>1 DEF Teardown, FlagType
  <2> QED
    BY <2>1, <2>2, <2>3, Frames DEF TypeOK
<1>2. CASE DrainSettles \/ DrainTimesOut \/ EndDisposals
  <2>1. UNCHANGED <<stateVars, lineVars, stepVars, subVars, doneVars, idle,
                    stopDue>>
    BY <1>2 DEF DrainSettles, DrainTimesOut, EndDisposals
  <2>2. OnLine \subseteq Works
    BY ConstantTypes DEF OnLine, LineType, Works
  <2>3. GateType'
    BY <1>2, <2>2 DEF DrainSettles, DrainTimesOut, EndDisposals, GateType
  <2> QED
    BY <2>1, <2>3, Frames DEF TypeOK
<1>3. CASE CloseSubs
  <2>1. UNCHANGED <<stateVars, lineVars, stepVars, idle, failure, stopDue>>
    BY <1>3 DEF CloseSubs
  <2>2. GateType'
    BY <1>3 DEF CloseSubs, GateType
  <2>3. SubType'
    BY <1>3, SubCount DEF CloseSubs, SubType
  <2>4. WaitType'
    BY <1>3 DEF CloseSubs, WaitType
  <2>5. FlagType'
    BY <1>3 DEF CloseSubs, FlagType
  <2> QED
    BY <2>1, <2>2, <2>3, <2>4, <2>5, Frames DEF TypeOK
<1>4. CASE FinalSave
  <2>1. UNCHANGED <<lineVars, stepVars, subVars, doneVars, idle, stopDue,
                    state, installed, saveStatus, bootError, folded>>
    BY <1>4 DEF FinalSave
  <2>2. GateType'
    BY <1>4 DEF FinalSave, GateType
  <2>3. StateType'
    BY <1>4 DEF FinalSave, StateType
  <2> QED
    BY <2>1, <2>2, <2>3, Frames DEF TypeOK
<1> QED
  BY <1>1, <1>2, <1>3, <1>4

\* Every step of the loop keeps every variable of its type.
LEMMA TypeStep == TypeOK /\ [Next]_vars => TypeOK'
<1> SUFFICES ASSUME TypeOK, [Next]_vars PROVE TypeOK'
  OBVIOUS
<1>1. CASE UNCHANGED vars
  BY <1>1, Frames DEF TypeOK, vars, gateVars, stateVars, stepVars, doneVars
<1>2. CASE Engine
  BY <1>2, TurnTypes, InstallType, CommitTypes, StopTypes
     DEF Engine, StopMicrotask, Lanes
<1>3. CASE Stopping
  BY <1>3, StopTypes DEF Stopping
<1>4. CASE Awaited
  <2>1. CASE Load \/ LoadFails
    BY <2>1, TurnTypes DEF Lanes
  <2>2. ASSUME NEW l \in Lanes,
               SaveOk(l) \/ SaveFails(l) \/ HandlerReturns(l) \/ HandlerThrows(l)
        PROVE  TypeOK'
    BY <2>2, CommitTypes
  <2>3. CASE \E w \in detached : DetachedSettles(w)
    BY <2>3, WorldTypes
  <2> QED
    BY <1>4, <2>1, <2>2, <2>3 DEF Awaited
<1>5. CASE World
  BY <1>5, WorldTypes, StopTypes DEF World
<1> QED
  BY <1>1, <1>2, <1>3, <1>4, <1>5 DEF Next

\* Every reachable state of every run is of the types TypeOK names.
THEOREM TypeCorrect == Spec => []TypeOK
BY InitType, TypeStep, PTL DEF Spec

-----------------------------------------------------------------------------
(* done() is answered.  What a caller may still wait for is tied to the    *)
(* step under way (CommitTells, WaiterIsHeard); that needs in turn that    *)
(* nothing folds once stop() has closed the Subs, so what is on the line   *)
(* by then is detached (TailDrains), and that a failure has begun a stop   *)
(* (FailureCloses).                                                        *)

\* Where a step is that will still run its commit callbacks.
Committing == {"save", "install", "cmds", "cmd"}
\* stop() has closed the Subs.
Closed == phase \in {"dispose", "final", "stopped"}

\* Nothing that could still fold is left when stop() has waited for the tail.
Line == {queue["main"][i] : i \in DOMAIN queue["main"]}

\* What stop() waits for, and what may come after it.
TailDrains ==
  /\ drainTo <= works
  /\ phase = "drained" \/ Closed => gate \in {"abandoned", "closed"}
  /\ \A w \in Line :
       /\ w <= works
       /\ phase # "none" /\ w > drainTo => origin[w] = "detached"
       /\ (phase = "drained" \/ Closed) /\ gate = "closed" => w > drainTo

\* A failure closes the gate, and stop() tells of it.
FailureCloses ==
  /\ gate = "open" => ~failure /\ phase = "none"
  /\ gate = "abandoned" => phase = "drained" \/ Closed
  /\ failure /\ Closed => stoppedBy

\* The step under way is of the State in memory, and that is saved, or about
\* to be, but where stop() gave up while the run booted.
CommitTells ==
  /\ pc["main"] = "load" =>
       HasStore /\ state = NoState /\ ~failure /\ running = {}
  /\ ~HasStore => pc["main"] # "save"
  /\ state = NoState => waiter = "none"
  /\ pc["main"] \in Committing => step["main"].next = state
  /\ HasStore /\ saveStatus = "pending" /\ state # NoState =>
       pc["main"] = "save" \/ (gate = "abandoned" /\ ~failure)

\* A caller who waits, though the answer is there, waits for the step under way
\* or for the stop that its failure has begun.
WaiterIsHeard ==
  waiter = "parked" =>
    /\ HasStore /\ saveStatus = "failed" => ~state.term
    /\ state.term /\ Saved => pc["main"] \in Committing \/ (failure /\ ~Closed)
    /\ failure /\ Closed => HasStore /\ state.term /\ pc["main"] \in Committing

\* The invariant under which done() is answered.
HearInv == OneLane /\ TailDrains /\ FailureCloses /\ CommitTells /\ WaiterIsHeard

\* The steps on the line.
MainSteps ==
  LET l == "main"
  IN \/ Drop(l) \/ NoTransition(l) \/ Halt(l) \/ Fold(l)
     \/ Install(l) \/ NextCmd(l) \/ Finish(l) \/ Reject(l) \/ PassDetached(l)
     \/ SaveOk(l) \/ SaveFails(l) \/ HandlerReturns(l) \/ HandlerThrows(l)
     \/ Detach(l)

\* On the other lane nothing moves.
LEMMA MainMoves ==
  ASSUME OneLane, Next
  PROVE  \/ MainSteps
         \/ StartReturns \/ Load \/ LoadFails
         \/ CallerDispatch \/ LoopDispatch \/ (\E w \in detached : DetachedSettles(w))
         \/ (\E s \in Subs : SubFails(s)) \/ DisposalSettles
         \/ Teardown \/ DrainSettles \/ DrainTimesOut \/ CloseSubs
         \/ EndDisposals \/ FinalSave \/ CallDone \/ CallIdle \/ IdleLooks
<1>1. ASSUME NEW l \in Lanes,
             \/ Drop(l) \/ NoTransition(l) \/ Halt(l) \/ Fold(l)
             \/ Install(l) \/ NextCmd(l) \/ Finish(l) \/ Reject(l) \/ PassDetached(l)
             \/ SaveOk(l) \/ SaveFails(l) \/ HandlerReturns(l) \/ HandlerThrows(l)
             \/ Detach(l)
      PROVE  MainSteps
  <2>1. pc[l] # "idle" \/ queue[l] # <<>>
    BY <1>1 DEF Drop, NoTransition, Halt, Fold, Serve, Turn, Install, NextCmd, Finish,
       Reject, PassDetached, SaveOk, SaveFails, HandlerReturns, HandlerThrows, Detach
  <2>2. l = "main"
    BY <2>1 DEF OneLane, Lanes
  <2> QED
    BY <1>1, <2>2 DEF MainSteps
<1> QED
  BY <1>1 DEF Next, Engine, Stopping, Awaited, World, StopMicrotask

\* What a step does to the line: it leaves it, makes a work item, which joins
\* the line while the gate is open or if it is detached, or takes the first.
Made ==
  /\ works' = works + 1 /\ works' \in Works
  /\ \E org \in {"caller", "loop", "tell", "detached"} :
       /\ origin' = [origin EXCEPT ![works'] = org]
       /\ \/ queue' = queue
          \/ /\ queue' = [queue EXCEPT !["main"] = Append(@, works')]
             /\ gate = "open" \/ org = "detached"

\* The first on the line has its turn.
Passed ==
  /\ queue["main"] # <<>> /\ queue' = [queue EXCEPT !["main"] = Tail(@)]
  /\ UNCHANGED <<works, origin>>

\* The three, together.
LineMoves == UNCHANGED <<queue, works, origin>> \/ Made \/ Passed

\* A dispatch makes a work item.
LEMMA EnqueueMakes ==
  ASSUME started, NEW org \in {"caller", "loop", "tell"}, Enqueue(org)
  PROVE  Made
BY DEF Enqueue, Chain, TailLane, Made

\* Every step is one of the three.
LEMMA LineSteps ==
  ASSUME OneLaneOnly, OneLane, TypeOK, Next
  PROVE  LineMoves
<1> USE DEF LineMoves, lineVars
<1>0. Origins \subseteq {"caller", "loop", "tell"}
  BY ConstantTypes
<1>1. CASE Drop("main") \/ NoTransition("main") \/ Halt("main") \/ Fold("main")
           \/ PassDetached("main")
  BY <1>1 DEF Drop, NoTransition, Halt, Fold, PassDetached, Serve, Turn, Leave, Passed
<1>2. CASE Install("main")
  <2>1. CASE UNCHANGED lineVars
    BY <2>1
  <2>2. CASE EagerStart /\ Enqueue("loop")
    BY <2>2, EnqueueMakes DEF OneLaneOnly, OneLane
  <2> QED
    BY <1>2, <2>1, <2>2 DEF Install
<1>3. CASE HandlerReturns("main")
  BY <1>3, EnqueueMakes DEF HandlerReturns, Quiet
<1>4. CASE CallerDispatch
  BY <1>0, <1>4, EnqueueMakes DEF CallerDispatch, Quiet
<1>5. CASE LoopDispatch
  BY <1>5, EnqueueMakes DEF LoopDispatch, Quiet, OneLaneOnly, OneLane
<1>6. CASE Detach("main")
  <2>1. started
    BY <1>6 DEF Detach, Quiet, OneLaneOnly, OneLane
  <2>2. works + 1 \in Works
    BY <1>6, ConstantTypes DEF Detach, TypeOK, LineType, Works
  <2> QED
    BY <1>6, <2>1, <2>2 DEF Detach, Chain, TailLane, Made
<1>7. CASE NextCmd("main") \/ Finish("main") \/ Reject("main") \/ SaveOk("main")
           \/ SaveFails("main") \/ HandlerThrows("main")
  BY <1>7 DEF NextCmd, Finish, Reject, SaveOk, SaveFails, HandlerThrows, Settle
<1>8. CASE \/ StartReturns \/ Load \/ LoadFails
           \/ (\E w \in detached : DetachedSettles(w))
           \/ (\E s \in Subs : SubFails(s)) \/ DisposalSettles
           \/ Teardown \/ DrainSettles \/ DrainTimesOut \/ CloseSubs
           \/ EndDisposals \/ FinalSave \/ CallDone \/ CallIdle \/ IdleLooks
  BY <1>8 DEF StartReturns, Load, LoadFails, DetachedSettles, SubFails,
     DisposalSettles, Teardown, DrainSettles, DrainTimesOut, CloseSubs, EndDisposals,
     FinalSave, CallDone, CallIdle, IdleLooks
<1> QED
  BY <1>1, <1>2, <1>3, <1>4, <1>5, <1>6, <1>7, <1>8, MainMoves DEF MainSteps

\* What a step does to the gate, to stop() and to the failure that began it.
gateParts == <<gate, phase, drainTo, failure, stoppedBy>>

\* A Sub fails, a Msg halts the run, or stop() goes on.
Fails ==
  /\ failure' = (failure \/ gate = "open")
  /\ gate' = IF gate = "open" THEN "draining" ELSE gate
  /\ UNCHANGED <<phase, drainTo, stoppedBy>>

Halts ==
  /\ queue["main"] # <<>> /\ origin[Head(queue["main"])] # "detached"
  /\ gate # "abandoned" /\ gate' = "closed" /\ failure' = TRUE
  /\ Passed /\ UNCHANGED <<phase, drainTo, stoppedBy>>

Stops ==
  /\ UNCHANGED <<queue, works, origin, failure>>
  /\ \/ /\ phase = "none" /\ phase' = "drain" /\ drainTo' = works
        /\ gate' = IF gate = "open" THEN "draining" ELSE gate
        /\ UNCHANGED stoppedBy
     \/ /\ phase = "drain" /\ phase' = "drained" /\ UNCHANGED <<drainTo, stoppedBy>>
        /\ \/ gate' = "closed" /\ TailSettled(drainTo)
           \/ gate' = "abandoned"
     \/ /\ phase = "drained" /\ phase' = "dispose" /\ stoppedBy' = failure
        /\ UNCHANGED <<gate, drainTo>>
     \/ /\ phase \in {"dispose", "final"} /\ phase' \in {"final", "stopped"}
        /\ UNCHANGED <<gate, drainTo, stoppedBy>>

\* The steps of the gate, together.
GateMoves == UNCHANGED gateParts \/ Fails \/ Halts \/ Stops

\* Every step is one of them.
LEMMA GateSteps ==
  ASSUME OneLane, Next
  PROVE  GateMoves
<1> USE DEF GateMoves, gateParts, gateVars, doneVars
<1>1. CASE Halt("main")
  BY <1>1 DEF Halt, Serve, Turn, Leave, Halts, Passed
<1>2. CASE Install("main") \/ (\E s \in Subs : SubFails(s))
  <2>1. FailRun => Fails
    BY DEF FailRun, Fails
  <2> QED
    BY <1>2, <2>1 DEF Install, SubFails
<1>3. CASE Teardown \/ DrainSettles \/ DrainTimesOut \/ CloseSubs \/ EndDisposals
           \/ FinalSave
  BY <1>3 DEF Teardown, DrainSettles, DrainTimesOut, CloseSubs, EndDisposals,
     FinalSave, Stops, lineVars
<1>4. CASE Drop("main") \/ NoTransition("main") \/ Fold("main") \/ PassDetached("main")
           \/ HandlerReturns("main") \/ Detach("main") \/ NextCmd("main")
           \/ Finish("main") \/ Reject("main") \/ SaveOk("main")
           \/ SaveFails("main") \/ HandlerThrows("main")
  BY <1>4 DEF Drop, NoTransition, Fold, PassDetached, HandlerReturns, Detach, NextCmd,
     Finish, Reject, SaveOk, SaveFails, HandlerThrows, CommitCallbacks
<1>5. CASE \/ StartReturns \/ Load \/ LoadFails
           \/ CallerDispatch \/ LoopDispatch
           \/ (\E w \in detached : DetachedSettles(w))
           \/ DisposalSettles \/ CallDone \/ CallIdle \/ IdleLooks
  BY <1>5 DEF StartReturns, Load, LoadFails, CallerDispatch, LoopDispatch,
     DetachedSettles, DisposalSettles, CallDone, CallIdle, IdleLooks
<1> QED
  BY <1>1, <1>2, <1>3, <1>4, <1>5, MainMoves DEF MainSteps

\* The types of the line, in the form the lemmas below use.
LEMMA LineTypes ==
  ASSUME TypeOK
  PROVE  /\ queue["main"] \in Seq(Works) /\ works \in Nat /\ drainTo \in Nat
         /\ Line \subseteq Works /\ Works \subseteq Nat
         /\ DOMAIN queue = Lanes /\ DOMAIN origin = Works
BY ConstantTypes DEF TypeOK, LineType, GateType, Lanes, Line, Works

\* What is on the line after a step was on it before, or was made.
LEMMA LineGrows ==
  ASSUME TypeOK, LineMoves
  PROVE  /\ UNCHANGED queue => Line' = Line
         /\ Made => Line' \subseteq Line \union {works'}
         /\ Passed => Line' \subseteq Line /\ Head(queue["main"]) \in Line
<1> DEFINE line == queue["main"]
<1>0. /\ line \in Seq(Works) /\ DOMAIN queue = Lanes /\ "main" \in Lanes
      /\ DOMAIN line = 1 .. Len(line) /\ Len(line) \in Nat
  BY LineTypes DEF Lanes
<1>1. UNCHANGED queue => Line' = Line
  BY DEF Line
<1>2. ASSUME Made PROVE Line' \subseteq Line \union {works'}
  <2>1. CASE queue' = queue
    BY <2>1 DEF Line
  <2>2. CASE queue' = [queue EXCEPT !["main"] = Append(@, works')]
    <3>1. queue'["main"] = Append(line, works') /\ works' \in Works
      BY <1>0, <1>2, <2>2 DEF Made
    <3>2. \A i \in DOMAIN Append(line, works') :
            Append(line, works')[i] \in Line \union {works'}
      <4> HIDE DEF line
      <4>1. \A i \in 1 .. Len(line) + 1 :
              Append(line, works')[i] = IF i <= Len(line) THEN line[i] ELSE works'
        BY <1>0, <3>1, AppendProperties
      <4>2. DOMAIN Append(line, works') = 1 .. Len(line) + 1
        BY <1>0, <3>1, AppendProperties
      <4> QED
        BY <1>0, <4>1, <4>2 DEF Line, line
    <3> QED
      BY <3>1, <3>2 DEF Line
  <2> QED
    BY <1>2, <2>1, <2>2 DEF Made
<1>3. ASSUME Passed PROVE Line' \subseteq Line /\ Head(queue["main"]) \in Line
  <2>1. queue'["main"] = Tail(line) /\ line # <<>>
    BY <1>0, <1>3 DEF Passed
  <2>2. /\ DOMAIN Tail(line) = 1 .. Len(line) - 1 /\ Len(line) > 0 /\ Head(line) = line[1]
        /\ \A i \in 1 .. Len(line) - 1 : Tail(line)[i] = line[i + 1]
    <3> HIDE DEF line
    <3> QED
      BY <1>0, <2>1
  <2>3. /\ \A i \in 1 .. Len(line) - 1 : Tail(line)[i] \in Line
        /\ Head(line) \in Line
    BY <1>0, <2>2 DEF Line
  <2> QED
    BY <2>1, <2>2, <2>3 DEF Line
<1> QED
  BY <1>1, <1>2, <1>3

\* A Sub that fails leaves stop() where it is.
LEMMA FailingKeeps ==
  ASSUME FailureCloses, UNCHANGED gateParts \/ Fails
  PROVE  /\ phase' = phase /\ drainTo' = drainTo /\ Closed' = Closed
         /\ gate' = "closed" => gate = "closed"
         /\ gate' \in {"abandoned", "closed"} <=> gate \in {"abandoned", "closed"}
         /\ FailureCloses'
<1>1. phase' = phase /\ drainTo' = drainTo /\ stoppedBy' = stoppedBy
  BY DEF gateParts, Fails
<1>2. Closed' = Closed
  BY <1>1 DEF Closed
<1>3. \/ gate' = gate /\ failure' = failure
      \/ gate = "open" /\ gate' = "draining"
      \/ gate # "open" /\ gate' = gate /\ (failure' <=> failure)
  BY DEF gateParts, Fails
<1>4. gate = "open" => ~Closed
  BY DEF FailureCloses, Closed
<1>5. gate' = "abandoned" => gate = "abandoned"
  BY <1>3
<1> QED
  BY <1>1, <1>2, <1>3, <1>4, <1>5 DEF FailureCloses

\* Every step keeps what is known of the drain and of the failure.
LEMMA DrainsStep ==
  ASSUME TypeOK, LineMoves, GateMoves, TailDrains, FailureCloses
  PROVE  TailDrains' /\ FailureCloses'
<1>0. /\ works \in Nat /\ drainTo \in Nat /\ Line \subseteq Nat
      /\ DOMAIN origin = Works
      /\ gate \in {"open", "draining", "closed", "abandoned"}
  BY LineTypes DEF TypeOK, GateType
<1>1. CASE UNCHANGED <<queue, works, origin>> \/ Passed
  <2>1. Line' \subseteq Line /\ UNCHANGED <<works, origin>>
    BY <1>1, LineGrows DEF Passed
  <2>2. CASE UNCHANGED gateParts \/ Fails
    BY <2>1, <2>2, FailingKeeps DEF TailDrains
  <2>3. CASE Halts
    <3>1. Head(queue["main"]) \in Line /\ origin[Head(queue["main"])] # "detached"
      BY <2>3, LineGrows DEF Halts
    <3>2. ~(phase = "drained" \/ Closed)
      BY <2>3, <3>1 DEF Halts, TailDrains, Closed
    <3> QED
      BY <2>1, <2>3, <3>2 DEF Halts, TailDrains, FailureCloses, Closed
  <2>4. CASE Stops
    <3>1. TailSettled(drainTo) => \A w \in Line : w > drainTo
      <4>1. \A w \in Line : w \in OnMain
        BY LineTypes DEF Line, OnMain
      <4> QED
        BY <4>1 DEF TailSettled
    <3>2. \A w \in Line : w <= works /\ (w > drainTo \/ w <= drainTo)
      BY <1>0 DEF TailDrains
    <3>3. CASE phase = "none" /\ phase' = "drain" /\ drainTo' = works
      BY <1>0, <2>1, <2>4, <3>2, <3>3 DEF Stops, TailDrains, FailureCloses, Closed
    <3>4. CASE phase = "drain" /\ phase' = "drained"
      BY <2>1, <2>4, <3>1, <3>4 DEF Stops, TailDrains, FailureCloses, Closed
    <3>5. CASE phase = "drained" /\ phase' = "dispose"
      BY <2>1, <2>4, <3>5 DEF Stops, TailDrains, FailureCloses, Closed
    <3>6. CASE phase \in {"dispose", "final"} /\ phase' \in {"final", "stopped"}
      BY <2>1, <2>4, <3>6 DEF Stops, TailDrains, FailureCloses, Closed
    <3> QED
      BY <2>4, <3>3, <3>4, <3>5, <3>6 DEF Stops
  <2> QED
    BY <2>2, <2>3, <2>4 DEF GateMoves
<1>2. CASE Made
  <2>1. works' = works + 1 /\ works' # works
    BY <1>0, <1>2 DEF Made
  <2>2. UNCHANGED gateParts \/ Fails
    BY <2>1 DEF GateMoves, Halts, Passed, Stops
  <2>3. /\ Line' \subseteq Line \union {works'}
        /\ \A w \in Line : w <= works /\ origin'[w] = origin[w]
    <3>1. \A w \in Line : w <= works /\ w # works' /\ w \in Works
      BY <1>0, <2>1, LineTypes DEF TailDrains
    <3> QED
      BY <1>0, <1>2, <3>1, LineGrows DEF Made
  <2>4. /\ works' \in Line' => gate = "open" \/ origin'[works'] = "detached" \/ works' \in Line
    BY <1>0, <1>2, LineGrows DEF Made, Line
  <2>5. works' \notin Line /\ works' > drainTo
    BY <1>0, <2>1, <2>3 DEF TailDrains
  <2>6. /\ phase' = phase /\ drainTo' = drainTo /\ Closed' = Closed
        /\ gate' = "closed" => gate = "closed"
        /\ gate' \in {"abandoned", "closed"} <=> gate \in {"abandoned", "closed"}
        /\ FailureCloses' /\ (gate = "open" => phase = "none")
    BY <2>2, FailingKeeps DEF FailureCloses
  <2>7. works' \in Line' => phase = "none" \/ origin'[works'] = "detached"
    BY <2>4, <2>5, <2>6
  <2> QED
    BY <1>0, <2>1, <2>3, <2>5, <2>6, <2>7 DEF TailDrains
<1> QED
  BY <1>1, <1>2 DEF LineMoves

\* The steps that leave the commit under way, and the caller of done(), alone.
commitParts == <<pc, step, state, saveStatus, waiter>>

\* The rest of the invariant.
Heard == OneLane /\ CommitTells /\ WaiterIsHeard

\* A State that is not there is not terminal; one that a fold makes is there.
LEMMA StatesDiffer ==
  ASSUME NEW s \in States PROVE s # NoState
BY DEF States, NoState

\* What the main lane is set to, it is; the other stays.
LEMMA LaneParts ==
  ASSUME TypeOK, NEW x
  PROVE  /\ [pc EXCEPT !["main"] = x]["main"] = x
         /\ [pc EXCEPT !["main"] = x]["fork"] = pc["fork"]
         /\ [step EXCEPT !["main"] = x]["main"] = x
BY DEF TypeOK, StepType, Lanes

\* No step chains anything on the other lane.
LEMMA LineKeeps ==
  ASSUME OneLane, TypeOK, LineMoves
  PROVE  queue'["fork"] = <<>>
BY LineTypes DEF OneLane, LineMoves, Made, Passed, Lanes

\* Where the gate and the phase were, and are.
LEMMA GateKeeps ==
  ASSUME TypeOK, FailureCloses, GateMoves
  PROVE  /\ gate = "abandoned" => gate' = "abandoned"
         /\ gate # "open" => gate' # "open"
         /\ Closed => Closed'
BY DEF GateMoves, gateParts, Fails, Halts, Stops, FailureCloses, Closed, TypeOK, GateType

\* A step that leaves the commit and the caller alone keeps the rest, unless it
\* is the one that closes the Subs.
LEMMA RestingSteps ==
  ASSUME OneLaneOnly, TypeOK, HearInv, GateMoves, LineMoves, UNCHANGED commitParts,
         failure' = failure, Closed' = Closed, started' \in {started, TRUE},
         running' \subseteq running
  PROVE  Heard'
<1>1. OneLane'
  BY LineKeeps DEF HearInv, OneLane, commitParts
<1>2. gate = "abandoned" => gate' = "abandoned"
  BY GateKeeps DEF HearInv
<1>3. CommitTells'
  BY <1>2 DEF HearInv, CommitTells, commitParts
<1>4. WaiterIsHeard'
  BY DEF HearInv, WaiterIsHeard, commitParts, Saved
<1> QED
  BY <1>1, <1>3, <1>4 DEF Heard

\* These are such steps.
LEMMA QuietSteps ==
  ASSUME OneLaneOnly, TypeOK, HearInv, GateMoves, LineMoves,
         \/ StartReturns \/ Drop("main") \/ NoTransition("main")
         \/ PassDetached("main") \/ Detach("main")
         \/ CallerDispatch \/ LoopDispatch \/ (\E w \in detached : DetachedSettles(w))
         \/ DisposalSettles \/ CallIdle \/ IdleLooks
         \/ Teardown \/ DrainSettles \/ DrainTimesOut \/ EndDisposals \/ FinalSave
  PROVE  Heard'
<1> USE DEF gateVars, stateVars, lineVars, stepVars, subVars, doneVars, commitParts
<1>1. CASE \/ StartReturns \/ Drop("main") \/ NoTransition("main")
           \/ PassDetached("main") \/ Detach("main")
  <2>1. UNCHANGED commitParts /\ failure' = failure /\ phase' = phase
        /\ started' \in {started, TRUE} /\ running' = running
    BY <1>1 DEF StartReturns, Drop, NoTransition, PassDetached, Detach
  <2> QED
    BY <2>1, RestingSteps DEF Closed
<1>2. CASE \/ CallerDispatch \/ LoopDispatch
           \/ (\E w \in detached : DetachedSettles(w))
           \/ DisposalSettles \/ CallIdle \/ IdleLooks
  <2>1. UNCHANGED commitParts /\ failure' = failure /\ phase' = phase
        /\ started' = started /\ running' = running
    BY <1>2 DEF CallerDispatch, LoopDispatch, DetachedSettles, DisposalSettles,
       CallIdle, IdleLooks
  <2> QED
    BY <2>1, RestingSteps DEF Closed
<1>3. CASE Teardown \/ DrainSettles \/ DrainTimesOut \/ EndDisposals \/ FinalSave
  <2>1. UNCHANGED commitParts /\ failure' = failure
        /\ started' = started /\ running' = running
    BY <1>3 DEF Teardown, DrainSettles, DrainTimesOut, EndDisposals, FinalSave
  <2>2. Closed' = Closed
    BY <1>3 DEF Teardown, DrainSettles, DrainTimesOut, EndDisposals, FinalSave, Closed
  <2> QED
    BY <2>1, <2>2, RestingSteps
<1> QED
  BY <1>1, <1>2, <1>3

\* Where a failure begins, stop() has not closed the Subs.
LEMMA FailLater ==
  ASSUME TypeOK, HearInv, UNCHANGED gateParts \/ Fails
  PROVE  /\ Closed' = Closed
         /\ failure => failure'
         /\ Closed => failure' = failure
         /\ gate = "abandoned" => gate' = "abandoned" /\ failure' = failure
         /\ gate = "open" => ~Closed
<1>1. phase' = phase
  BY DEF gateParts, Fails
<1>2. Closed' = Closed
  BY <1>1 DEF Closed
<1>3. gate = "open" => ~Closed
  BY DEF HearInv, FailureCloses, Closed
<1>4. failure \in BOOLEAN
  BY DEF TypeOK, FlagType
<1> QED
  BY <1>2, <1>3, <1>4 DEF gateParts, Fails

\* A Sub that dies begins a stop that will answer.
LEMMA FailsHeard ==
  ASSUME OneLaneOnly, TypeOK, HearInv, LineMoves, NEW s \in Subs, SubFails(s)
  PROVE  Heard'
<1> USE DEF stateVars, stepVars
<1>1. Fails /\ UNCHANGED commitParts /\ started' = started /\ running # {}
  BY DEF SubFails, FailRun, Fails, commitParts
<1>2. OneLane'
  BY <1>1, LineKeeps DEF HearInv, OneLane, commitParts
<1>3. pc["main"] # "load"
  BY <1>1 DEF HearInv, CommitTells
<1>4. CommitTells'
  BY <1>1, <1>3, FailLater DEF HearInv, CommitTells, commitParts
<1>5. WaiterIsHeard'
  BY <1>1, FailLater DEF HearInv, WaiterIsHeard, commitParts, Saved
<1> QED
  BY <1>2, <1>4, <1>5 DEF Heard

\* So does a Msg that halts the run, as stop() has not closed the Subs by then.
LEMMA HaltHeard ==
  ASSUME OneLaneOnly, TypeOK, HearInv, GateMoves, LineMoves, Halt("main")
  PROVE  Heard'
<1> USE DEF stateVars, stepVars
<1>1. /\ UNCHANGED commitParts /\ started' = started /\ pc["main"] = "idle"
      /\ phase' = phase /\ failure' = TRUE /\ gate # "abandoned"
      /\ queue["main"] # <<>> /\ origin[Head(queue["main"])] # "detached" /\ Passed
  BY DEF Halt, Serve, Turn, Leave, commitParts, Passed
<1>2. Head(queue["main"]) \in Line
  BY <1>1, LineGrows
<1>3. Head(queue["main"]) \in Nat /\ drainTo \in Nat
  BY <1>2, LineTypes
<1>4. ~Closed /\ ~Closed'
  BY <1>1, <1>2, <1>3 DEF HearInv, TailDrains, Closed
<1>5. OneLane'
  BY <1>1, LineKeeps DEF HearInv, OneLane, commitParts
<1>6. CommitTells'
  BY <1>1 DEF HearInv, CommitTells, commitParts
<1>7. WaiterIsHeard'
  BY <1>1, <1>4 DEF HearInv, WaiterIsHeard, commitParts, Saved
<1> QED
  BY <1>5, <1>6, <1>7 DEF Heard

\* Boot answers nobody yet: no State was there to be waited for.
LEMMA LoadHeard ==
  ASSUME OneLaneOnly, TypeOK, TypeOK', HearInv, GateMoves, LineMoves, Load \/ LoadFails
  PROVE  Heard'
<1> USE DEF gateVars, stateVars, stepVars, doneVars
<1>1. /\ pc["main"] = "load" /\ waiter' = waiter /\ started' = started
      /\ failure' = failure /\ gate' = gate
  BY DEF Load, LoadFails
<1>2. HasStore /\ state = NoState /\ ~failure /\ waiter' = "none"
  BY <1>1 DEF HearInv, CommitTells
<1>3. WaiterIsHeard'
  BY <1>2 DEF WaiterIsHeard
<1>4. CASE Load
  <2>1. PICK s \in States, n \in Nat : BeginCommit("main", Boot, s, n)
    <3>1. PICK want \in Wants, term \in Terms, n \in CmdCounts :
            BeginCommit("main", Boot, [ver |-> 0, want |-> want, term |-> term], n)
      BY <1>4 DEF Load
    <3> QED
      BY <3>1, FoldedStateType, ConstantTypes
  <2>2. /\ pc'["main"] = FirstOfCommit /\ pc'["fork"] = pc["fork"]
        /\ step'["main"].next = s /\ state' = s /\ s # NoState
        /\ saveStatus' = "pending"
    BY <2>1, LaneParts, StatesDiffer DEF BeginCommit, Step
  <2>3. FirstOfCommit = "save" \/ (FirstOfCommit = "install" /\ gate = "abandoned")
    BY <1>2 DEF FirstOfCommit
  <2>4. OneLane'
    BY <1>1, <2>2, LineKeeps DEF HearInv, OneLane
  <2>5. CommitTells'
    BY <1>1, <1>2, <2>2, <2>3 DEF CommitTells
  <2> QED
    BY <1>3, <2>4, <2>5 DEF Heard
<1>5. CASE LoadFails
  <2>1. /\ pc'["main"] = "throwing" /\ pc'["fork"] = pc["fork"]
        /\ state' = NoState
    BY <1>2, <1>5, LaneParts DEF LoadFails
  <2>2. OneLane'
    BY <1>1, <2>1, LineKeeps DEF HearInv, OneLane
  <2>3. CommitTells'
    BY <1>2, <2>1 DEF CommitTells, Committing
  <2> QED
    BY <1>3, <2>2, <2>3 DEF Heard
<1> QED
  BY <1>4, <1>5

\* A new State is set, and its commit begins, with its save if it has one.
LEMMA FoldHeard ==
  ASSUME OneLaneOnly, TypeOK, HearInv, GateMoves, LineMoves, Fold("main")
  PROVE  Heard'
<1> USE DEF gateVars, stateVars, stepVars, doneVars
<1>1. /\ pc["main"] = "idle" /\ waiter' = waiter /\ started' = started
      /\ failure' = failure /\ gate' = gate /\ phase' = phase /\ gate # "abandoned"
  BY DEF Fold, Serve, Turn
<1>2. PICK s \in States, n \in Nat : BeginCommit("main", Head(queue["main"]), s, n)
  <2>1. PICK want \in Wants, term \in Terms, n \in Nat :
          BeginCommit("main", Head(queue["main"]),
                      [ver |-> state.ver + 1, want |-> want, term |-> term], n)
    BY ConstantTypes DEF Fold
  <2>2. [ver |-> state.ver + 1, want |-> want, term |-> term] \in States
    BY FoldedStateType, VersionType DEF TypeOK, StateType
  <2> QED
    BY <2>1, <2>2
<1>3. /\ pc'["main"] = FirstOfCommit /\ pc'["fork"] = pc["fork"]
      /\ step'["main"].next = s /\ state' = s /\ s # NoState
      /\ saveStatus' = "pending"
  BY <1>2, LaneParts, StatesDiffer DEF BeginCommit, Step
<1>4. FirstOfCommit = IF HasStore THEN "save" ELSE "install"
  BY <1>1 DEF FirstOfCommit
<1>5. OneLane'
  BY <1>1, <1>3, LineKeeps DEF HearInv, OneLane
<1>6. CommitTells'
  BY <1>3, <1>4 DEF CommitTells
<1>7. WaiterIsHeard'
  <2>1. Closed' = Closed
    BY <1>1 DEF Closed
  <2>2. waiter = "parked" => ~(failure /\ Closed)
    BY <1>1 DEF HearInv, WaiterIsHeard, Committing
  <2> QED
    BY <1>1, <1>3, <1>4, <2>1, <2>2 DEF WaiterIsHeard, Committing
<1> QED
  BY <1>5, <1>6, <1>7 DEF Heard

\* The save answers, or leaves it to the commit callbacks.
LEMMA SaveHeard ==
  ASSUME OneLaneOnly, TypeOK, HearInv, GateMoves, LineMoves,
         SaveOk("main") \/ SaveFails("main")
  PROVE  Heard'
<1> USE DEF gateVars, stepVars, doneVars
<1>1. /\ pc["main"] = "save" /\ started' = started /\ step' = step /\ state' = state
      /\ failure' = failure /\ gate' = gate /\ phase' = phase
  BY DEF SaveOk, SaveFails
<1>2. HasStore /\ step["main"].next = state /\ Closed' = Closed
  BY <1>1 DEF HearInv, CommitTells, Committing, Closed
<1>3. CASE SaveOk("main")
  <2>1. /\ pc'["main"] = "install" /\ pc'["fork"] = pc["fork"]
        /\ saveStatus' = "saved" /\ waiter' = waiter
    BY <1>3, LaneParts DEF SaveOk
  <2>2. OneLane'
    BY <1>1, <2>1, LineKeeps DEF HearInv, OneLane
  <2>3. CommitTells'
    BY <1>1, <1>2, <2>1 DEF HearInv, CommitTells
  <2>4. WaiterIsHeard'
    BY <1>1, <1>2, <2>1 DEF HearInv, WaiterIsHeard, Committing
  <2> QED
    BY <2>2, <2>3, <2>4 DEF Heard
<1>4. CASE SaveFails("main")
  <2>1. /\ pc'["main"] = "throwing" /\ pc'["fork"] = pc["fork"]
        /\ saveStatus' = "failed" /\ waiter' \in {waiter, "rejected"}
    BY <1>4, LaneParts DEF SaveFails
  <2>2. waiter' = "parked" => waiter = "parked" /\ ~state.term
    BY <1>2, <1>4 DEF SaveFails
  <2>3. OneLane'
    BY <1>1, <2>1, LineKeeps DEF HearInv, OneLane
  <2>4. CommitTells'
    <3>1. state = NoState => waiter' = "none"
      BY <1>4 DEF HearInv, CommitTells, SaveFails
    <3> QED
      BY <1>1, <1>2, <2>1, <3>1 DEF CommitTells, Committing
  <2>5. WaiterIsHeard'
    BY <1>1, <1>2, <2>1, <2>2 DEF HearInv, WaiterIsHeard, Committing, Saved
  <2> QED
    BY <2>3, <2>4, <2>5 DEF Heard
<1> QED
  BY <1>3, <1>4

\* A runner that throws leaves the caller to the stop this begins.
LEMMA InstallHeard ==
  ASSUME OneLaneOnly, ~DepsMayThrow, TypeOK, HearInv, GateMoves, LineMoves,
         Install("main")
  PROVE  Heard'
<1> USE DEF gateVars, doneVars
<1>1. /\ pc["main"] = "install" /\ started' = started /\ step' = step
      /\ state' = state /\ saveStatus' = saveStatus
  BY DEF Install
<1>2. PICK bad, dead :
        /\ bad \subseteq ToStart({})
        /\ IF bad \cup dead # {} THEN FailRun ELSE UNCHANGED <<gateVars, doneVars>>
        /\ IF bad = {}
           THEN pc' = [pc EXCEPT !["main"] = "cmds"]
           ELSE pc' = [pc EXCEPT !["main"] = "throwing"]
  <2>1. PICK unread \in IF DepsMayThrow THEN SUBSET Subs ELSE {{}} :
          \E bad \in SUBSET ToStart(unread) :
            \E dead \in SUBSET (ToStart(unread) \ bad) :
              /\ IF bad \cup dead # {} THEN FailRun ELSE UNCHANGED <<gateVars, doneVars>>
              /\ IF unread \cup bad = {}
                 THEN pc' = [pc EXCEPT !["main"] = "cmds"]
                 ELSE pc' = [pc EXCEPT !["main"] = "throwing"]
    BY ZenonT(60) DEF Install
  <2>2. unread = {}
    BY <2>1
  <2>3. PICK bad \in SUBSET ToStart({}) :
          \E dead :
            /\ IF bad \cup dead # {} THEN FailRun ELSE UNCHANGED <<gateVars, doneVars>>
            /\ IF {} \cup bad = {}
               THEN pc' = [pc EXCEPT !["main"] = "cmds"]
               ELSE pc' = [pc EXCEPT !["main"] = "throwing"]
    BY Zenon, <2>1, <2>2
  <2>4. {} \cup bad = bad /\ bad \subseteq ToStart({})
    BY <2>3
  <2> QED
    BY Zenon, <2>3, <2>4
<1>3. (UNCHANGED gateParts \/ Fails) /\ waiter' = waiter
  BY <1>2 DEF gateParts, Fails, FailRun
<1>4. /\ Closed' = Closed
      /\ failure => failure'
      /\ Closed => failure' = failure
      /\ gate = "abandoned" => gate' = "abandoned" /\ failure' = failure
      /\ gate = "open" => ~Closed
  BY <1>3, FailLater
<1>5. /\ pc'["fork"] = pc["fork"]
      /\ pc'["main"] = "cmds" \/ (pc'["main"] = "throwing" /\ failure' /\ ~Closed')
  <2>1. CASE bad = {}
    BY <1>2, <2>1, LaneParts
  <2>2. CASE bad # {}
    <3>1. gate = "open" /\ failure'
      BY <1>2, <2>2 DEF ToStart, FailRun
    <3> QED
      BY <1>2, <1>4, <2>2, <3>1, LaneParts
  <2> QED
    BY <2>1, <2>2
<1>6. OneLane'
  BY <1>1, <1>5, LineKeeps DEF HearInv, OneLane
<1>7. CommitTells'
  BY <1>1, <1>3, <1>4, <1>5 DEF HearInv, CommitTells, Committing
<1>8. WaiterIsHeard'
  <2>1. Saved' = Saved
    BY <1>1 DEF Saved
  <2> QED
    BY <1>1, <1>3, <1>4, <1>5, <2>1 DEF HearInv, WaiterIsHeard, Committing
<1> QED
  BY <1>6, <1>7, <1>8 DEF Heard

\* A handler that throws has run the commit callbacks.
LEMMA HandlerHeard ==
  ASSUME OneLaneOnly, TypeOK, HearInv, GateMoves, LineMoves,
         NextCmd("main") \/ HandlerReturns("main") \/ HandlerThrows("main")
  PROVE  Heard'
<1> USE DEF gateVars, stateVars, stepVars, doneVars
<1>1. /\ pc["main"] \in {"cmds", "cmd"} /\ started' = started
      /\ state' = state /\ saveStatus' = saveStatus /\ failure' = failure
      /\ gate' = gate /\ phase' = phase /\ pc'["fork"] = pc["fork"]
      /\ pc'["main"] \in {"cmds", "cmd", "throwing"}
  <2>1. CASE NextCmd("main")
    BY <2>1, LaneParts DEF NextCmd
  <2>2. CASE HandlerReturns("main")
    BY <2>2, LaneParts DEF HandlerReturns
  <2>3. CASE HandlerThrows("main")
    BY <2>3, LaneParts DEF HandlerThrows, CommitCallbacks
  <2> QED
    BY <2>1, <2>2, <2>3
<1>2. step["main"].next = state /\ Closed' = Closed /\ Saved' = Saved
  BY <1>1 DEF HearInv, CommitTells, Committing, Closed, Saved
<1>3. step'["main"].next = state
  <2>1. CASE NextCmd("main")
    <3>1. step["main"] \in Steps /\ "main" \in DOMAIN step
      BY DEF TypeOK, StepType, Lanes
    <3>2. step' = [step EXCEPT !["main"].left = @ - 1]
      BY <2>1 DEF NextCmd
    <3>3. step'["main"] = [step["main"] EXCEPT !.left = @ - 1]
      BY <3>1, <3>2
    <3> QED
      BY <1>2, <3>1, <3>3 DEF Steps
  <2>2. CASE HandlerReturns("main") \/ HandlerThrows("main")
    BY <1>2, <2>2 DEF HandlerReturns, HandlerThrows
  <2> QED
    BY <2>1, <2>2
<1>4. OneLane'
  BY <1>1, LineKeeps DEF HearInv, OneLane
<1>5. CASE NextCmd("main") \/ HandlerReturns("main")
  <2>1. waiter' = waiter /\ pc'["main"] \in {"cmds", "cmd"}
    BY <1>5, LaneParts DEF NextCmd, HandlerReturns
  <2>2. CommitTells'
    BY <1>1, <1>2, <1>3, <2>1 DEF HearInv, CommitTells
  <2>3. WaiterIsHeard'
    BY <1>1, <1>2, <2>1 DEF HearInv, WaiterIsHeard, Committing
  <2> QED
    BY <1>4, <2>2, <2>3 DEF Heard
<1>6. CASE HandlerThrows("main")
  <2>1. waiter' \in {waiter, "resolved"}
    BY <1>6 DEF HandlerThrows, CommitCallbacks
  <2>2. waiter' = "parked" => waiter = "parked" /\ ~(Saved /\ state.term)
    BY <1>2, <1>6 DEF HandlerThrows, CommitCallbacks
  <2>3. state = NoState => waiter' = "none"
    BY <1>6 DEF HearInv, CommitTells, HandlerThrows, CommitCallbacks
  <2>4. CommitTells'
    BY <1>1, <1>2, <1>3, <2>3 DEF HearInv, CommitTells
  <2>5. failure /\ Closed => waiter' # "parked"
    <3> SUFFICES ASSUME failure, Closed, waiter' = "parked" PROVE FALSE
      OBVIOUS
    <3>1. HasStore /\ state.term /\ ~Saved /\ waiter = "parked"
      BY <2>2 DEF HearInv, WaiterIsHeard
    <3>2. state # NoState
      BY <2>3
    <3>3. saveStatus \in {"pending", "failed"}
      BY <3>1 DEF Saved, TypeOK, StateType
    <3> QED
      BY <1>1, <3>1, <3>2, <3>3 DEF HearInv, WaiterIsHeard, CommitTells
  <2>6. WaiterIsHeard'
    BY <1>1, <1>2, <2>2, <2>5 DEF HearInv, WaiterIsHeard
  <2> QED
    BY <1>4, <2>4, <2>6 DEF Heard
<1> QED
  BY <1>5, <1>6

\* A caller for whom the step had no answer waits on, with good reason.
LEMMA FinishHeard ==
  ASSUME OneLaneOnly, TypeOK, HearInv, GateMoves, LineMoves,
         Finish("main") \/ Reject("main")
  PROVE  Heard'
<1> USE DEF gateVars, stateVars, subVars, doneVars
<1>1. /\ pc["main"] \in {"cmds", "throwing"} /\ started' = started
      /\ state' = state /\ saveStatus' = saveStatus /\ failure' = failure
      /\ gate' = gate /\ phase' = phase /\ pc'["fork"] = pc["fork"]
      /\ pc'["main"] = "idle"
  BY LaneParts DEF Finish, Reject, Settle, CommitCallbacks
<1>2. Closed' = Closed /\ Saved' = Saved
  BY <1>1 DEF Closed, Saved
<1>3. waiter' = "parked" => waiter = "parked"
  BY DEF Finish, Reject, CommitCallbacks
<1>4. pc["main"] = "cmds" /\ waiter' = "parked" => ~(Saved /\ state.term)
  BY DEF HearInv, CommitTells, Committing, Finish, Reject, CommitCallbacks
<1>5. state = NoState => waiter' = "none"
  BY DEF HearInv, CommitTells, Finish, Reject, CommitCallbacks
<1>6. OneLane'
  BY <1>1, LineKeeps DEF HearInv, OneLane
<1>7. CommitTells'
  BY <1>1, <1>5 DEF HearInv, CommitTells, Committing
<1>8. failure /\ Closed => waiter' # "parked"
  <2> SUFFICES ASSUME failure, Closed, waiter' = "parked" PROVE FALSE
    OBVIOUS
  <2>1. HasStore /\ state.term /\ pc["main"] = "cmds"
    BY <1>1, <1>3 DEF HearInv, WaiterIsHeard, Committing
  <2>2. ~Saved /\ state # NoState
    BY <1>4, <1>5, <2>1
  <2>3. saveStatus \in {"pending", "failed"}
    BY <2>2 DEF Saved, TypeOK, StateType
  <2> QED
    BY <1>3, <2>1, <2>2, <2>3 DEF HearInv, WaiterIsHeard, CommitTells
<1>9. WaiterIsHeard'
  <2>1. waiter' = "parked" /\ state.term /\ Saved => failure /\ ~Closed
    BY <1>1, <1>3, <1>4 DEF HearInv, WaiterIsHeard, Committing
  <2> QED
    BY <1>1, <1>2, <1>3, <1>8, <2>1 DEF HearInv, WaiterIsHeard
<1> QED
  BY <1>6, <1>7, <1>9 DEF Heard

\* stop() closes the Subs: a caller whom the failure has no answer for waits
\* for the save of a terminal State.
LEMMA CloseHeard ==
  ASSUME OneLaneOnly, TypeOK, HearInv, GateMoves, LineMoves, CloseSubs
  PROVE  Heard'
<1> USE DEF stateVars, stepVars
<1>1. /\ phase = "drained" /\ phase' = "dispose" /\ pc' = pc /\ step' = step
      /\ state' = state /\ saveStatus' = saveStatus /\ started' = started
      /\ failure' = failure /\ gate' = gate /\ running' = {}
  BY DEF CloseSubs
<1>2. ~Closed /\ Closed' /\ Saved' = Saved
  BY <1>1 DEF Closed, Saved
<1>3. /\ waiter' = "parked" => waiter = "parked"
      /\ waiter' = "parked" /\ failure => state.term /\ ~Saved
      /\ waiter = "none" => waiter' = "none"
  BY DEF CloseSubs
<1>4. OneLane'
  BY <1>1, LineKeeps DEF HearInv, OneLane
<1>5. CommitTells'
  BY <1>1, <1>3 DEF HearInv, CommitTells
<1>6. waiter' = "parked" /\ failure => HasStore /\ pc["main"] = "save"
  <2> SUFFICES ASSUME waiter' = "parked", failure PROVE HasStore /\ pc["main"] = "save"
    OBVIOUS
  <2>1. HasStore /\ saveStatus \in {"pending", "failed"} /\ state.term
    BY <1>3 DEF Saved, TypeOK, StateType
  <2>2. state # NoState
    BY <1>3 DEF HearInv, CommitTells
  <2> QED
    BY <1>3, <2>1, <2>2 DEF HearInv, WaiterIsHeard, CommitTells
<1>7. WaiterIsHeard'
  BY <1>1, <1>2, <1>3, <1>6 DEF HearInv, WaiterIsHeard, Committing
<1> QED
  BY <1>4, <1>5, <1>7 DEF Heard

\* done() answers at once, or there is nothing yet to answer it with.
LEMMA CallHeard ==
  ASSUME OneLaneOnly, TypeOK, HearInv, GateMoves, LineMoves, CallDone
  PROVE  Heard'
<1> USE DEF gateVars, stateVars, stepVars, subVars
<1>1. /\ pc' = pc /\ step' = step /\ state' = state /\ saveStatus' = saveStatus
      /\ started' = started /\ failure' = failure /\ gate' = gate /\ phase' = phase
      /\ running' = running /\ state # NoState
  BY DEF CallDone, Ready
<1>2. Closed' = Closed /\ Saved' = Saved
  BY <1>1 DEF Closed, Saved
<1>3. waiter' = "parked" =>
        /\ ~(state.term /\ Saved) /\ ~(state.term /\ saveStatus = "failed")
        /\ state.term \/ ~stoppedBy
  BY DEF CallDone, DoneAnswer
<1>4. OneLane'
  BY <1>1, LineKeeps DEF HearInv, OneLane
<1>5. CommitTells'
  BY <1>1 DEF HearInv, CommitTells
<1>6. waiter' = "parked" /\ failure /\ Closed =>
        HasStore /\ state.term /\ pc["main"] = "save"
  <2> SUFFICES ASSUME waiter' = "parked", failure, Closed
      PROVE  HasStore /\ state.term /\ pc["main"] = "save"
    OBVIOUS
  <2>1. state.term /\ ~Saved /\ saveStatus # "failed"
    BY <1>3 DEF HearInv, FailureCloses
  <2>2. HasStore /\ saveStatus = "pending"
    BY <2>1 DEF Saved, TypeOK, StateType
  <2> QED
    BY <1>1, <2>1, <2>2 DEF HearInv, CommitTells
<1>7. WaiterIsHeard'
  BY <1>1, <1>2, <1>3, <1>6 DEF WaiterIsHeard, Committing
<1> QED
  BY <1>4, <1>5, <1>7 DEF Heard

\* Every step keeps the invariant.
LEMMA HearStep ==
  OneLaneOnly /\ ~DepsMayThrow /\ TypeOK /\ HearInv /\ [Next]_vars => HearInv'
<1> SUFFICES ASSUME OneLaneOnly, ~DepsMayThrow, TypeOK, HearInv, [Next]_vars
             PROVE  HearInv'
  OBVIOUS
<1>1. CASE UNCHANGED vars
  BY <1>1 DEF vars, gateVars, stateVars, lineVars, stepVars, subVars, doneVars, HearInv,
     OneLane, TailDrains, Line, Closed, FailureCloses, CommitTells, WaiterIsHeard, Saved
<1>2. CASE Next
  <2>1. LineMoves /\ GateMoves
    BY <1>2, LineSteps, GateSteps DEF HearInv
  <2>2. TailDrains' /\ FailureCloses'
    BY <2>1, DrainsStep DEF HearInv
  <2>3. TypeOK'
    BY <1>2, TypeStep
  <2>4. Heard'
    <3>1. CASE MainSteps
      BY <2>1, <3>1, QuietSteps, HaltHeard, FoldHeard, SaveHeard, InstallHeard,
         HandlerHeard, FinishHeard DEF MainSteps
    <3>2. CASE \/ StartReturns \/ Load \/ LoadFails
               \/ CallerDispatch \/ LoopDispatch
               \/ (\E w \in detached : DetachedSettles(w))
               \/ (\E s \in Subs : SubFails(s)) \/ DisposalSettles
               \/ Teardown \/ DrainSettles \/ DrainTimesOut \/ CloseSubs
               \/ EndDisposals \/ FinalSave \/ CallDone \/ CallIdle \/ IdleLooks
      BY <2>1, <2>3, <3>2, QuietSteps, LoadHeard, FailsHeard, CloseHeard, CallHeard
    <3> QED
      BY <1>2, <3>1, <3>2, MainMoves DEF HearInv
  <2> QED
    BY <2>2, <2>4 DEF Heard, HearInv
<1> QED
  BY <1>1, <1>2

\* The invariant holds at the start.
LEMMA HearInit == OneLaneOnly /\ Init => HearInv
<1> SUFFICES ASSUME OneLaneOnly, Init PROVE HearInv
  OBVIOUS
<1>1. queue["main"] = <<>> /\ queue["fork"] = <<>> /\ Line = {}
  BY DEF Init, Lanes, Line
<1>2. CASE HasStore
  <2>1. state = NoState /\ pc["main"] = "load" /\ pc["fork"] = "idle"
    BY <1>2 DEF Init, Lanes
  <2> QED
    BY <1>1, <1>2, <2>1 DEF Init, HearInv, OneLane, TailDrains, Closed, FailureCloses,
       CommitTells, WaiterIsHeard, Committing
<1>3. CASE ~HasStore
  <2>1. /\ pc["main"] = "install" /\ pc["fork"] = "idle"
        /\ step["main"].next = state
    BY <1>3 DEF Init, Lanes, Step
  <2> QED
    BY <1>1, <1>3, <2>1 DEF Init, HearInv, OneLane, TailDrains, Closed, FailureCloses,
       CommitTells, WaiterIsHeard, Committing
<1> QED
  BY <1>2, <1>3

\* The invariant answers the caller.
LEMMA HearAnswers == TypeOK /\ HearInv => DoneHears
<1> SUFFICES ASSUME TypeOK, HearInv, pc["main"] = "idle", waiter = "parked",
                    gate = "open" \/ phase = "stopped"
             PROVE  ~failure /\ ~(state.term /\ Saved)
  BY DEF DoneHears, Lanes
<1>1. ~(failure /\ ~Closed) /\ ~(failure /\ Closed)
  BY DEF HearInv, FailureCloses, WaiterIsHeard, Closed, Committing
<1> QED
  BY <1>1 DEF HearInv, WaiterIsHeard, Committing

\* A caller of done() is not left waiting for an answer the run already has, for
\* every strategy, any Subs, Msgs and detached work; where a Sub's deps never
\* throw (run loop_done_deps), and a run without a store starts no eager runner.
THEOREM DoneIsHeard ==
  ASSUME OneLaneOnly, ~DepsMayThrow
  PROVE  Spec => []DoneHears
<1>1. Init => TypeOK /\ HearInv
  BY InitType, HearInit
<1>2. TypeOK /\ HearInv /\ [Next]_vars => (TypeOK /\ HearInv)'
  BY TypeStep, HearStep
<1> QED
  BY <1>1, <1>2, HearAnswers, PTL DEF Spec

-----------------------------------------------------------------------------
(* A run on one lane: LaneInv is inductive, and from it the loop saves     *)
(* before its effects, implements DurableRun, folds in order, counts what  *)
(* it drops, ends with stop() and answers done() and idle() truly.         *)

\* What LaneInv says without the types, and the variables it speaks of.
RunInv == OneLane /\ GateFollowsStop /\ CommitOrder /\ Numbered /\ DrainedLine
runVars == <<gate, phase, drainTo, state, installed, stored, queue, works,
             origin, started, pc, step>>

\* Without a fork only the main lane has a turn or a step.
LEMMA MainLane ==
  ASSUME OneLane, NEW l \in Lanes, pc[l] # "idle" \/ queue[l] # <<>>
  PROVE  l = "main"
BY DEF OneLane, Lanes

\* What makes a work item has startLoop behind it, so it joins the line.
LEMMA MadeOnceStarted ==
  ASSUME OneLaneOnly, OneLane
  PROVE  /\ CallerDispatch \/ LoopDispatch => started
         /\ \A l \in Lanes : Detach(l) \/ HandlerReturns(l) => started
         /\ \A l \in Lanes : Install(l) => started \/ UNCHANGED lineVars
BY DEF OneLaneOnly, OneLane, CallerDispatch, LoopDispatch, Detach, HandlerReturns,
       Install, Quiet

\* A run on one lane starts in LaneInv.
LEMMA LaneInit ==
  ASSUME OneLaneOnly, Init
  PROVE  LaneInv
<1>1. TypeOK
  BY InitType
<1>2. OneLane
  BY DEF Init, OneLane, Lanes
<1>3. GateFollowsStop /\ CommitOrder
  <2>1. CASE HasStore
    BY <2>1 DEF Init, GateFollowsStop, CommitOrder, Lanes
  <2>2. CASE ~HasStore
    <3>1. pc["main"] = "install" /\ step["main"].next = state /\ state # NoState
      BY <2>2 DEF Init, Lanes, Step, NoState
    <3> QED
      BY <2>2, <3>1 DEF Init, GateFollowsStop, CommitOrder
  <2> QED
    BY <2>1, <2>2
<1>4. Numbered
  BY DEF Init, Numbered, Lanes, NoStep, Step, Boot
<1>5. DrainedLine
  BY DEF Init, DrainedLine
<1> QED
  BY <1>1, <1>2, <1>3, <1>4, <1>5 DEF LaneInv

\* A step that leaves runVars alone keeps the rest of LaneInv.
LEMMA RunFrame ==
  ASSUME RunInv, UNCHANGED runVars
  PROVE  RunInv'
BY DEF RunInv, runVars, OneLane, GateFollowsStop, CommitOrder, Numbered,
       DrainedLine

-----------------------------------------------------------------------------
(* The line: what joins it and what leaves it.                             *)

\* The types of the line, said of the main lane alone.
LEMMA LineFacts ==
  ASSUME TypeOK
  PROVE  /\ queue \in [Lanes -> Seq(Works)] /\ queue["main"] \in Seq(Works)
         /\ Len(queue["main"]) \in Nat
         /\ \A i \in 1 .. Len(queue["main"]) :
              queue["main"][i] \in Works /\ queue["main"][i] \in Nat
         /\ works \in Nat /\ Works \subseteq Nat
         /\ origin \in [Works ->
                          {"none", "caller", "loop", "tell", "detached"}]
         /\ pc \in [Lanes -> Pcs] /\ step \in [Lanes -> Steps]
         /\ step["main"] \in Steps /\ step["main"].msg \in Nat
         /\ step["main"].next \in States \cup {NoState}
         /\ "main" \in Lanes /\ "fork" \in Lanes
<1>1. /\ queue \in [Lanes -> Seq(Works)]
      /\ origin \in [Works -> {"none", "caller", "loop", "tell", "detached"}]
      /\ pc \in [Lanes -> Pcs] /\ step \in [Lanes -> Steps]
      /\ "main" \in Lanes /\ "fork" \in Lanes
  BY DEF TypeOK, LineType, StepType, Lanes
<1>2. Works \subseteq Nat /\ works \in Nat
  BY ConstantTypes DEF TypeOK, LineType, Works
<1>3. queue["main"] \in Seq(Works) /\ step["main"] \in Steps
  BY <1>1
<1>4. /\ Len(queue["main"]) \in Nat
      /\ \A i \in 1 .. Len(queue["main"]) : queue["main"][i] \in Works
  BY <1>3
<1>5. step["main"].msg \in {Boot} \cup Works
        /\ step["main"].next \in States \cup {NoState}
  BY <1>3 DEF Steps
<1>6. step["main"].msg \in Nat
  <2>1. \A v \in {Boot} \cup Works : v \in Nat
    BY <1>2 DEF Boot
  <2> QED
    BY <1>5, <2>1
<1> QED
  BY <1>1, <1>2, <1>3, <1>4, <1>5, <1>6

-----------------------------------------------------------------------------
(* The line: what joins it and what leaves it.                             *)

\* Every item on the line was made, and in a line that drains only what was
\* there when stop() was called may have a turn.
LineInv == Numbered /\ DrainedLine

\* Work item w joins the line.
LEMMA ChainKeepsNumbers ==
  ASSUME TypeOK, OneLane, started, Numbered, works + 1 \in Works,
         works' = works + 1, queue' = Chain(works + 1), UNCHANGED step
  PROVE  /\ Numbered'
         /\ queue'["fork"] = queue["fork"]
         /\ \A i \in 1 .. Len(queue'["main"]) :
              \/ /\ i \in 1 .. Len(queue["main"])
                 /\ queue'["main"][i] = queue["main"][i]
              \/ queue'["main"][i] = works + 1
<1> DEFINE q == queue["main"]
           w == works + 1
<1>1. queue' = [queue EXCEPT !["main"] = Append(q, w)]
  BY DEF Chain, TailLane, OneLane
<1>2. queue'["main"] = Append(q, w) /\ queue'["fork"] = queue["fork"]
  BY <1>1, LineFacts
<1>3. /\ Len(Append(q, w)) = Len(q) + 1
      /\ \A i \in 1 .. Len(q) : Append(q, w)[i] = q[i]
      /\ Append(q, w)[Len(q) + 1] = w
  BY LineFacts
<1>4. \A i \in 1 .. Len(q) + 1 : i \in 1 .. Len(q) \/ i = Len(q) + 1
  BY LineFacts
<1>5. \A i \in 1 .. Len(q) : q[i] <= works /\ q[i] \in Nat
  BY LineFacts DEF Numbered
<1>6. works \in Nat /\ step["main"].msg \in Nat
  BY LineFacts
<1>7. \A i \in 1 .. Len(q) + 1 : Append(q, w)[i] <= w
  BY <1>3, <1>4, <1>5, <1>6
<1>8. step'["main"].msg <= w
  BY <1>6 DEF Numbered
<1> HIDE DEF q, w
<1>9. Numbered'
  BY <1>2, <1>3, <1>7, <1>8 DEF Numbered, w
<1> QED
  BY <1>2, <1>3, <1>4, <1>9 DEF q, w

\* A dispatch joins the line only of an open run, which no stop() drains.
LEMMA EnqueueKeepsLine ==
  ASSUME TypeOK, OneLane, started, GateFollowsStop, LineInv, NEW org, Enqueue(org),
         UNCHANGED <<phase, drainTo, step>>,
         gate' = gate \/ (gate = "open" /\ gate' = "draining"),
         pc'["main"] # "idle" => pc["main"] # "idle"
  PROVE  LineInv' /\ queue'["fork"] = queue["fork"]
<1> DEFINE q == queue["main"]
<1>1. works + 1 \in Works /\ works' = works + 1
  BY DEF Enqueue
<1>2. origin' = [origin EXCEPT ![works + 1] = org]
  BY DEF Enqueue
<1>3. CASE gate = "open"
  <2>1. phase = "none" /\ phase' = "none"
    BY <1>3 DEF GateFollowsStop
  <2>2. queue' = Chain(works + 1)
    BY <1>3 DEF Enqueue
  <2>3. Numbered' /\ queue'["fork"] = queue["fork"]
    BY <1>1, <2>2, ChainKeepsNumbers DEF LineInv
  <2>4. DrainedLine'
    BY <2>1 DEF DrainedLine
  <2> QED
    BY <2>3, <2>4 DEF LineInv
<1>4. CASE gate # "open"
  <2>1. queue' = queue /\ gate' = gate
    BY <1>4 DEF Enqueue
  <2>2. \A i \in 1 .. Len(q) : q[i] # works + 1 /\ q[i] \in Works
    BY LineFacts DEF LineInv, Numbered
  <2>3. \A i \in 1 .. Len(q) : origin'[q[i]] = origin[q[i]]
    BY <1>1, <1>2, <2>2, LineFacts
  <2>4. Numbered'
    BY <1>1, <2>1, LineFacts DEF LineInv, Numbered
  <2>5. DrainedLine'
    BY <2>1, <2>3 DEF LineInv, DrainedLine
  <2> QED
    BY <2>1, <2>4, <2>5 DEF LineInv
<1> QED
  BY <1>3, <1>4

\* The head of the line leaves it.
LEMMA LeaveMoves ==
  ASSUME TypeOK, OneLane, Numbered, NEW outcome, Leave("main", outcome),
         queue["main"] # <<>>
  PROVE  /\ \A i \in 1 .. Len(queue'["main"]) :
              /\ i + 1 \in 1 .. Len(queue["main"])
              /\ queue'["main"][i] = queue["main"][i + 1]
         /\ queue'["fork"] = queue["fork"]
         /\ works' = works /\ origin' = origin
         /\ Head(queue["main"]) = queue["main"][1]
         /\ 1 \in 1 .. Len(queue["main"])
         /\ Head(queue["main"]) <= works
<1> DEFINE q == queue["main"]
<1>1. queue'["main"] = Tail(q) /\ queue'["fork"] = queue["fork"]
  BY LineFacts DEF Leave
<1>2. works' = works /\ origin' = origin
  BY DEF Leave
<1>3. q \in Seq(Works) /\ q # <<>>
  BY LineFacts
<1>4. /\ Head(q) = q[1] /\ 1 \in 1 .. Len(q)
      /\ \A i \in 1 .. Len(Tail(q)) :
           i + 1 \in 1 .. Len(q) /\ Tail(q)[i] = q[i + 1]
  BY <1>3
<1> QED
  BY <1>1, <1>2, <1>4 DEF Numbered

\* What is left behind, and what a head with a turn may be: in a line that
\* drains it was there when stop() was called, in a drained one there is none.
LEMMA LeaveKeepsLine ==
  ASSUME TypeOK, OneLane, LineInv, NEW outcome, Leave("main", outcome),
         queue["main"] # <<>>, UNCHANGED <<phase, drainTo>>
  PROVE  /\ \A i \in 1 .. Len(queue'["main"]) : queue'["main"][i] <= works'
         /\ phase = "drain" =>
              \A i \in 1 .. Len(queue'["main"]) :
                queue'["main"][i] > drainTo =>
                  origin'[queue'["main"][i]] = "detached"
         /\ phase \notin {"none", "drain"} /\ gate # "abandoned" =>
              \A i \in 1 .. Len(queue'["main"]) :
                origin'[queue'["main"][i]] = "detached"
         /\ Head(queue["main"]) <= works'
         /\ origin[Head(queue["main"])] # "detached" =>
              /\ phase = "drain" => Head(queue["main"]) <= drainTo
              /\ phase \in {"none", "drain"} \/ gate = "abandoned"
<1> DEFINE q == queue["main"]
           r == queue'["main"]
<1>1. /\ \A i \in 1 .. Len(r) : i + 1 \in 1 .. Len(q) /\ r[i] = q[i + 1]
      /\ works' = works /\ origin' = origin
      /\ Head(q) = q[1] /\ 1 \in 1 .. Len(q) /\ Head(q) <= works
  BY LeaveMoves DEF LineInv
<1>2. drainTo \in Nat /\ \A i \in 1 .. Len(q) : q[i] \in Nat
  BY LineFacts, ConstantTypes DEF TypeOK, GateType
<1> HIDE DEF q, r
<1>3. \A i \in 1 .. Len(r) : r[i] <= works'
  BY <1>1 DEF LineInv, Numbered, q
<1>4. phase = "drain" =>
        \A i \in 1 .. Len(r) : r[i] > drainTo => origin'[r[i]] = "detached"
  BY <1>1 DEF LineInv, DrainedLine, q
<1>5. phase \notin {"none", "drain"} /\ gate # "abandoned" =>
        \A i \in 1 .. Len(r) : origin'[r[i]] = "detached"
  BY <1>1 DEF LineInv, DrainedLine, q
<1>6. origin[Head(q)] # "detached" =>
        /\ phase = "drain" => Head(q) <= drainTo
        /\ phase \in {"none", "drain"} \/ gate = "abandoned"
  BY <1>1, <1>2 DEF LineInv, DrainedLine, q
<1> QED
  BY <1>1, <1>3, <1>4, <1>5, <1>6 DEF q, r

\* The step on the main lane ends or goes on, and stop() does not move.
LEMMA StepKeepsLine ==
  ASSUME LineInv, TypeOK,
         UNCHANGED <<phase, drainTo, queue, works, origin>>,
         gate' = gate \/ (gate = "open" /\ gate' = "draining"),
         pc'["main"] # "idle" => pc["main"] # "idle",
         step'["main"].msg \in {step["main"].msg, Boot},
         pc'["main"] = "idle" \/ step'["main"].msg = step["main"].msg,
         GateFollowsStop
  PROVE  LineInv'
<1>1. Numbered'
  BY LineFacts DEF LineInv, Numbered, Boot
<1>2. DrainedLine'
  BY DEF LineInv, DrainedLine, GateFollowsStop
<1> QED
  BY <1>1, <1>2 DEF LineInv

-----------------------------------------------------------------------------
(* Boot, and the turn of a work item.                                      *)

\* Boot, and each way the turn of a work item ends, keep LaneInv.
LEMMA LaneTurn ==
  ASSUME OneLaneOnly, TypeOK, RunInv, NEW l \in Lanes,
         \/ Load \/ LoadFails \/ StartReturns
         \/ Drop(l) \/ NoTransition(l) \/ Halt(l) \/ Fold(l) \/ PassDetached(l)
  PROVE  RunInv'
<1> USE DEF gateVars, stateVars, lineVars, stepVars, subVars, doneVars
<1> OneLane /\ GateFollowsStop /\ CommitOrder /\ LineInv
  BY DEF RunInv, LineInv
<1>1. CASE Load
  <2>1. PICK s \in States, n \in CmdCounts : BeginCommit("main", Boot, s, n)
    BY <1>1, FoldedStateType DEF Load
  <2>2. /\ UNCHANGED <<gate, phase, drainTo, queue, works, origin, started,
                       installed, stored>>
        /\ pc["main"] = "load"
    BY <1>1 DEF Load
  <2>3. /\ state' = s
        /\ step'["main"] = Step(Boot, s, n)
        /\ pc'["main"] = FirstOfCommit /\ pc'["fork"] = pc["fork"]
    BY <2>1, LineFacts DEF BeginCommit
  <2>4. s # NoState
    BY DEF States, NoState
  <2>5. OneLane' /\ GateFollowsStop'
    BY <2>2, <2>3 DEF OneLane, GateFollowsStop
  <2>6. CommitOrder'
    BY <2>2, <2>3, <2>4 DEF CommitOrder, FirstOfCommit, Step
  <2>7. LineInv'
    <3>1. Numbered'
      BY <2>2, <2>3, LineFacts DEF LineInv, Numbered, Step, Boot
    <3>2. DrainedLine'
      BY <2>2, <2>3, LineFacts, ConstantTypes
         DEF LineInv, DrainedLine, Step, Boot, FirstOfCommit, TypeOK, GateType
    <3> QED
      BY <3>1, <3>2 DEF LineInv
  <2> QED
    BY <2>5, <2>6, <2>7 DEF RunInv, LineInv
<1>2. CASE LoadFails
  <2>1. /\ UNCHANGED <<gate, phase, drainTo, state, installed, stored, queue,
                       works, origin, started, step>>
        /\ pc["main"] = "load"
        /\ pc'["main"] = "throwing" /\ pc'["fork"] = pc["fork"]
    BY <1>2, LineFacts DEF LoadFails
  <2>2. LineInv'
    BY <2>1, StepKeepsLine
  <2>3. OneLane' /\ GateFollowsStop' /\ CommitOrder'
    BY <2>1 DEF OneLane, GateFollowsStop, CommitOrder
  <2> QED
    BY <2>2, <2>3 DEF RunInv, LineInv
<1>3. CASE StartReturns
  BY <1>3 DEF StartReturns, RunInv, OneLane, GateFollowsStop, CommitOrder, Numbered,
     DrainedLine
<1>4. CASE Drop(l) \/ NoTransition(l) \/ PassDetached(l)
  <2>1. queue[l] # <<>> /\ l = "main"
    BY <1>4, MainLane
       DEF Drop, NoTransition, PassDetached, Serve, Turn
  <2>2. PICK outcome : Leave("main", outcome)
    BY <1>4, <2>1 DEF Drop, NoTransition, PassDetached
  <2>3. UNCHANGED <<gate, phase, drainTo, state, installed, stored, started,
                    pc, step>>
    BY <1>4 DEF Drop, NoTransition, PassDetached
  <2>4. queue'["fork"] = queue["fork"] /\ works' = works
    BY <2>1, <2>2, LeaveMoves DEF LineInv
  <2>5. LineInv'
    BY <2>1, <2>2, <2>3, <2>4, LeaveKeepsLine
       DEF LineInv, Numbered, DrainedLine
  <2>6. OneLane' /\ GateFollowsStop' /\ CommitOrder'
    BY <2>3, <2>4 DEF OneLane, GateFollowsStop, CommitOrder
  <2> QED
    BY <2>5, <2>6 DEF RunInv, LineInv
<1>5. CASE Halt(l)
  <2>1. /\ queue[l] # <<>> /\ l = "main" /\ pc["main"] = "idle"
        /\ origin[Head(queue["main"])] # "detached" /\ gate # "abandoned"
    BY <1>5, MainLane DEF Halt, Serve, Turn
  <2>2. Leave("main", "rejected")
    BY <1>5, <2>1 DEF Halt
  <2>3. /\ UNCHANGED <<phase, drainTo, state, installed, stored, started, pc,
                       step>>
        /\ gate' = "closed"
    BY <1>5 DEF Halt
  <2>4. queue'["fork"] = queue["fork"] /\ works' = works
    BY <2>1, <2>2, LeaveMoves DEF LineInv
  <2>5. phase \in {"none", "drain"}
    BY <2>1, <2>2, <2>3, LeaveKeepsLine
  <2>6. LineInv'
    BY <2>1, <2>2, <2>3, <2>4, <2>5, LeaveKeepsLine
       DEF LineInv, Numbered, DrainedLine
  <2>7. OneLane' /\ GateFollowsStop' /\ CommitOrder'
    BY <2>1, <2>3, <2>4 DEF OneLane, GateFollowsStop, CommitOrder
  <2> QED
    BY <2>6, <2>7 DEF RunInv, LineInv
<1>6. CASE Fold(l)
  <2>1. /\ queue[l] # <<>> /\ l = "main" /\ pc["main"] = "idle"
        /\ origin[Head(queue["main"])] # "detached" /\ gate # "abandoned"
    BY <1>6, MainLane DEF Fold, Serve, Turn
  <2>2. Leave("main", "step")
    BY <1>6, <2>1 DEF Fold
  <2>3. UNCHANGED <<gate, phase, drainTo, installed, stored, started>>
    BY <1>6 DEF Fold
  <2>4. PICK s \in States, n \in Nat :
          BeginCommit("main", Head(queue["main"]), s, n)
    <3>1. state.ver + 1 \in Nat
      BY VersionType DEF TypeOK, StateType
    <3> QED
      BY <1>6, <2>1, <3>1, FoldedStateType, ConstantTypes DEF Fold
  <2>5. /\ state' = s /\ s # NoState
        /\ step'["main"] = Step(Head(queue["main"]), s, n)
        /\ pc'["main"] = FirstOfCommit /\ pc'["fork"] = pc["fork"]
    BY <2>4, LineFacts DEF BeginCommit, States, NoState
  <2>6. queue'["fork"] = queue["fork"] /\ works' = works
    BY <2>1, <2>2, LeaveMoves DEF LineInv
  <2>7. LineInv'
    BY <2>1, <2>2, <2>3, <2>5, <2>6, LeaveKeepsLine
       DEF LineInv, Numbered, DrainedLine, Step
  <2>8. OneLane' /\ GateFollowsStop' /\ CommitOrder'
    BY <2>1, <2>3, <2>5, <2>6
       DEF OneLane, GateFollowsStop, CommitOrder, Step, FirstOfCommit
  <2> QED
    BY <2>7, <2>8 DEF RunInv, LineInv
<1> QED
  BY <1>1, <1>2, <1>3, <1>4, <1>5, <1>6

-----------------------------------------------------------------------------
(* The rest of commit().                                                   *)

\* reconcileSubs() keeps LaneInv, whatever runners do as they start.
LEMMA LaneInstall ==
  ASSUME OneLaneOnly, TypeOK, RunInv, NEW l \in Lanes, Install(l)
  PROVE  RunInv'
<1> USE DEF gateVars, stateVars, lineVars, stepVars, subVars, doneVars
<1> OneLane /\ GateFollowsStop /\ CommitOrder /\ LineInv
  BY DEF RunInv, LineInv
<1>1. l = "main" /\ pc["main"] = "install"
  BY MainLane DEF Install
<1>2. UNCHANGED <<started, step, state, stored>>
  BY DEF Install
<1>3. /\ UNCHANGED <<phase, drainTo>>
      /\ gate' = gate \/ (gate = "open" /\ gate' = "draining")
  BY DEF Install, FailRun
<1>4. UNCHANGED lineVars \/ Enqueue("loop")
  BY DEF Install
<1>5. /\ pc'["fork"] = pc["fork"]
      /\ \/ pc'["main"] = "cmds" /\ installed' = step["main"].next
         \/ pc'["main"] = "throwing" /\ installed' = installed
  BY <1>1, LineFacts DEF Install
<1>6. LineInv' /\ queue'["fork"] = queue["fork"]
  <2>1. CASE UNCHANGED lineVars
    BY <1>1, <1>2, <1>3, <1>5, <2>1, StepKeepsLine
  <2>2. CASE Enqueue("loop")
    <3>1. CASE started
      BY <1>1, <1>2, <1>3, <1>5, <2>2, <3>1, EnqueueKeepsLine
    <3>2. CASE ~started
      BY <1>1, <1>2, <1>3, <1>5, <3>2, MadeOnceStarted, StepKeepsLine
    <3> QED
      BY <3>1, <3>2
  <2> QED
    BY <1>4, <2>1, <2>2
<1>7. OneLane'
  BY <1>2, <1>5, <1>6 DEF OneLane
<1>8. GateFollowsStop'
  BY <1>3 DEF GateFollowsStop
<1>9. CommitOrder'
  BY <1>1, <1>2, <1>3, <1>5 DEF CommitOrder
<1> QED
  BY <1>6, <1>7, <1>8, <1>9 DEF RunInv, LineInv

\* The save, the Cmds and the end of a commit keep LaneInv.
LEMMA LaneCommit ==
  ASSUME OneLaneOnly, TypeOK, RunInv, NEW l \in Lanes,
         \/ SaveOk(l) \/ SaveFails(l) \/ NextCmd(l) \/ HandlerReturns(l)
         \/ HandlerThrows(l) \/ Finish(l) \/ Reject(l)
  PROVE  RunInv'
<1> USE DEF gateVars, stateVars, lineVars, stepVars, subVars, doneVars
<1> OneLane /\ GateFollowsStop /\ CommitOrder /\ LineInv
  BY DEF RunInv, LineInv
<1>1. l = "main" /\ pc["main"] # "idle"
  BY MainLane
     DEF SaveOk, SaveFails, NextCmd, HandlerReturns, HandlerThrows, Finish,
         Reject
<1>2. UNCHANGED <<gate, phase, drainTo, state, installed, started>>
  BY DEF SaveOk, SaveFails, NextCmd, HandlerReturns, HandlerThrows, Finish,
         Reject, Settle, CommitCallbacks
<1>3. CASE SaveOk(l)
  <2>1. /\ UNCHANGED <<queue, works, origin, step>>
        /\ stored' = step["main"].next
        /\ pc["main"] = "save"
        /\ pc'["main"] = "install" /\ pc'["fork"] = pc["fork"]
    BY <1>1, <1>3, LineFacts DEF SaveOk
  <2>2. LineInv'
    BY <1>1, <1>2, <2>1, StepKeepsLine
  <2>3. OneLane' /\ GateFollowsStop' /\ CommitOrder'
    BY <1>2, <2>1 DEF OneLane, GateFollowsStop, CommitOrder
  <2> QED
    BY <2>2, <2>3 DEF RunInv, LineInv
<1>4. CASE SaveFails(l) \/ HandlerThrows(l)
  <2>1. /\ UNCHANGED <<queue, works, origin, step, stored>>
        /\ pc'["main"] = "throwing" /\ pc'["fork"] = pc["fork"]
    BY <1>1, <1>4, LineFacts DEF SaveFails, HandlerThrows
  <2>2. LineInv'
    BY <1>1, <1>2, <2>1, StepKeepsLine
  <2>3. OneLane' /\ GateFollowsStop' /\ CommitOrder'
    BY <1>2, <2>1 DEF OneLane, GateFollowsStop, CommitOrder
  <2> QED
    BY <2>2, <2>3 DEF RunInv, LineInv
<1>5. CASE NextCmd(l)
  <2>1. /\ UNCHANGED <<queue, works, origin, stored>>
        /\ step'["main"].msg = step["main"].msg
        /\ step'["main"].next = step["main"].next
        /\ pc["main"] = "cmds" /\ gate # "abandoned"
        /\ pc'["main"] = "cmd" /\ pc'["fork"] = pc["fork"]
    BY <1>1, <1>5, LineFacts DEF NextCmd, Steps
  <2>2. LineInv'
    BY <1>1, <1>2, <2>1, StepKeepsLine
  <2>3. OneLane' /\ GateFollowsStop' /\ CommitOrder'
    BY <1>2, <2>1 DEF OneLane, GateFollowsStop, CommitOrder
  <2> QED
    BY <2>2, <2>3 DEF RunInv, LineInv
<1>6. CASE HandlerReturns(l)
  <2>1. /\ UNCHANGED <<step, stored>>
        /\ pc["main"] = "cmd"
        /\ pc'["main"] = "cmds" /\ pc'["fork"] = pc["fork"]
        /\ UNCHANGED lineVars \/ Enqueue("loop")
    BY <1>1, <1>6, LineFacts DEF HandlerReturns
  <2>2. LineInv' /\ queue'["fork"] = queue["fork"]
    <3>1. CASE UNCHANGED lineVars
      BY <1>1, <1>2, <2>1, <3>1, StepKeepsLine
    <3>2. CASE Enqueue("loop")
      BY <1>1, <1>2, <1>6, <2>1, <3>2, EnqueueKeepsLine, MadeOnceStarted
    <3> QED
      BY <2>1, <3>1, <3>2
  <2>3. OneLane' /\ GateFollowsStop' /\ CommitOrder'
    BY <1>2, <2>1, <2>2 DEF OneLane, GateFollowsStop, CommitOrder
  <2> QED
    BY <2>2, <2>3 DEF RunInv, LineInv
<1>7. CASE Finish(l) \/ Reject(l)
  <2>1. /\ UNCHANGED <<queue, works, origin, stored>>
        /\ step'["main"] = NoStep
        /\ pc'["main"] = "idle" /\ pc'["fork"] = pc["fork"]
    BY <1>1, <1>7, LineFacts DEF Finish, Reject, Settle
  <2>2. LineInv'
    BY <1>1, <1>2, <2>1, StepKeepsLine DEF NoStep, Step
  <2>3. OneLane' /\ GateFollowsStop' /\ CommitOrder'
    BY <1>2, <2>1 DEF OneLane, GateFollowsStop, CommitOrder
  <2> QED
    BY <2>2, <2>3 DEF RunInv, LineInv
<1> QED
  BY <1>3, <1>4, <1>5, <1>6, <1>7

-----------------------------------------------------------------------------
(* What reaches the loop from outside a step.                              *)

\* What reaches the loop from outside a step keeps LaneInv.
LEMMA LaneWorld ==
  ASSUME OneLaneOnly, TypeOK, RunInv,
         \/ CallerDispatch \/ LoopDispatch \/ DisposalSettles
         \/ \E l \in Lanes : Detach(l)
         \/ \E w \in detached : DetachedSettles(w)
         \/ \E s \in Subs : SubFails(s)
         \/ CallDone \/ CallIdle \/ IdleLooks
  PROVE  RunInv'
<1> USE DEF gateVars, stateVars, lineVars, stepVars, subVars, doneVars
<1> OneLane /\ GateFollowsStop /\ CommitOrder /\ LineInv
  BY DEF RunInv, LineInv
<1>1. CASE CallerDispatch \/ LoopDispatch
  <2>1. UNCHANGED <<gate, phase, drainTo, state, installed, stored, started,
                    pc, step>>
    BY <1>1 DEF CallerDispatch, LoopDispatch
  <2>2. PICK org : Enqueue(org)
    BY <1>1 DEF CallerDispatch, LoopDispatch
  <2>3. LineInv' /\ queue'["fork"] = queue["fork"]
    BY <1>1, <2>1, <2>2, EnqueueKeepsLine, MadeOnceStarted
  <2>4. OneLane' /\ GateFollowsStop' /\ CommitOrder'
    BY <2>1, <2>3 DEF OneLane, GateFollowsStop, CommitOrder
  <2> QED
    BY <2>3, <2>4 DEF RunInv, LineInv
<1>2. ASSUME NEW l \in Lanes, Detach(l) PROVE RunInv'
  <2>1. /\ UNCHANGED <<gate, phase, drainTo, state, installed, stored,
                       started, pc, step>>
        /\ works' = works + 1 /\ queue' = Chain(works + 1)
        /\ origin' = [origin EXCEPT ![works + 1] = "detached"]
        /\ works < MaxWork
        /\ l = "main" /\ pc["main"] = "cmd"
    BY <1>2, MainLane DEF Detach
  <2>2. works + 1 \in Works
    BY <2>1, LineFacts, ConstantTypes DEF Works
  <2>3. /\ Numbered' /\ queue'["fork"] = queue["fork"]
        /\ \A i \in 1 .. Len(queue'["main"]) :
             \/ /\ i \in 1 .. Len(queue["main"])
                /\ queue'["main"][i] = queue["main"][i]
             \/ queue'["main"][i] = works + 1
    BY <1>2, <2>1, <2>2, ChainKeepsNumbers, MadeOnceStarted DEF LineInv
  <2>4. /\ origin'[works + 1] = "detached"
        /\ \A i \in 1 .. Len(queue["main"]) :
             origin'[queue["main"][i]] = origin[queue["main"][i]]
    <3>1. \A i \in 1 .. Len(queue["main"]) :
            queue["main"][i] # works + 1 /\ queue["main"][i] \in Works
      BY LineFacts DEF LineInv, Numbered
    <3> QED
      BY <2>1, <2>2, <3>1, LineFacts
  <2>5. DrainedLine'
    BY <2>1, <2>3, <2>4 DEF LineInv, DrainedLine
  <2>6. OneLane' /\ GateFollowsStop' /\ CommitOrder'
    BY <2>1, <2>3 DEF OneLane, GateFollowsStop, CommitOrder
  <2> QED
    BY <2>3, <2>5, <2>6 DEF RunInv
<1>3. ASSUME NEW s \in Subs, SubFails(s) PROVE RunInv'
  <2>1. /\ UNCHANGED <<phase, drainTo, state, installed, stored, started, pc,
                       step, queue, works, origin>>
        /\ gate' = gate \/ (gate = "open" /\ gate' = "draining")
    BY <1>3 DEF SubFails, FailRun
  <2>2. LineInv'
    BY <2>1, StepKeepsLine
  <2>3. OneLane' /\ GateFollowsStop' /\ CommitOrder'
    BY <2>1 DEF OneLane, GateFollowsStop, CommitOrder
  <2> QED
    BY <2>2, <2>3 DEF RunInv, LineInv
<1>4. CASE \/ DisposalSettles \/ (\E w \in detached : DetachedSettles(w))
           \/ CallDone \/ CallIdle \/ IdleLooks
  <2>1. UNCHANGED runVars
    BY <1>4 DEF DisposalSettles, DetachedSettles, CallDone, CallIdle,
                IdleLooks, runVars
  <2> QED
    BY <2>1, RunFrame
<1> QED
  BY <1>1, <1>2, <1>3, <1>4

-----------------------------------------------------------------------------
(* stop().                                                                 *)

\* Every step of stop() keeps LaneInv.
LEMMA LaneStop ==
  ASSUME OneLaneOnly, TypeOK, RunInv,
         \/ Teardown \/ DrainSettles \/ DrainTimesOut \/ CloseSubs
         \/ EndDisposals \/ FinalSave
  PROVE  RunInv'
<1> USE DEF gateVars, stateVars, lineVars, stepVars, subVars, doneVars
<1> OneLane /\ GateFollowsStop /\ CommitOrder /\ LineInv
  BY DEF RunInv, LineInv
<1>1. UNCHANGED <<state, installed, started, pc, step, queue, works, origin>>
  BY DEF Teardown, DrainSettles, DrainTimesOut, CloseSubs, EndDisposals,
         FinalSave
<1>2. OneLane' /\ Numbered'
  BY <1>1 DEF OneLane, LineInv, Numbered
<1>3. CASE Teardown
  <2>1. /\ UNCHANGED stored
        /\ phase = "none" /\ phase' = "drain" /\ drainTo' = works
        /\ gate' = IF gate = "open" THEN "draining" ELSE gate
    BY <1>3 DEF Teardown
  <2>2. /\ step["main"].msg <= works
        /\ \A i \in 1 .. Len(queue["main"]) : ~(queue["main"][i] > works)
    BY LineFacts DEF LineInv, Numbered
  <2>3. DrainedLine'
    BY <1>1, <2>1, <2>2 DEF DrainedLine
  <2>4. GateFollowsStop' /\ CommitOrder'
    BY <1>1, <2>1 DEF GateFollowsStop, CommitOrder
  <2> QED
    BY <1>2, <2>3, <2>4 DEF RunInv
<1>4. CASE DrainSettles
  <2>1. /\ UNCHANGED stored
        /\ phase = "drain" /\ phase' = "drained" /\ gate' = "closed"
        /\ TailSettled(drainTo)
    BY <1>4 DEF DrainSettles
  <2>2. /\ pc["main"] # "idle" => step["main"].msg > drainTo
        /\ \A i \in 1 .. Len(queue["main"]) : queue["main"][i] > drainTo
    BY <2>1 DEF TailSettled, OnMain
  <2>3. pc["main"] = "idle"
    BY <2>1, <2>2, LineFacts, ConstantTypes
       DEF LineInv, DrainedLine, TypeOK, GateType
  <2>4. DrainedLine'
    BY <1>1, <2>1, <2>2, <2>3 DEF LineInv, DrainedLine
  <2>5. GateFollowsStop' /\ CommitOrder'
    BY <1>1, <2>1, <2>3 DEF GateFollowsStop, CommitOrder
  <2> QED
    BY <1>2, <2>4, <2>5 DEF RunInv
<1>5. CASE DrainTimesOut
  <2>1. /\ UNCHANGED stored
        /\ phase = "drain" /\ phase' = "drained" /\ gate' = "abandoned"
    BY <1>5 DEF DrainTimesOut
  <2> QED
    BY <1>1, <1>2, <2>1 DEF RunInv, DrainedLine, GateFollowsStop, CommitOrder
<1>6. CASE CloseSubs \/ EndDisposals
  <2>1. /\ UNCHANGED <<stored, gate, drainTo>>
        /\ phase \in {"drained", "dispose"}
        /\ phase' \in {"dispose", "final", "stopped"}
        /\ phase' = "final" => state # NoState
    BY <1>6 DEF CloseSubs, EndDisposals
  <2>2. DrainedLine' /\ GateFollowsStop'
    BY <1>1, <2>1 DEF LineInv, DrainedLine, GateFollowsStop
  <2>3. CommitOrder'
    BY <1>1, <2>1 DEF CommitOrder
  <2> QED
    BY <1>2, <2>2, <2>3 DEF RunInv
<1>7. CASE FinalSave
  <2>1. /\ UNCHANGED <<gate, drainTo>>
        /\ phase = "final" /\ phase' = "stopped"
        /\ stored' = state \/ stored' = stored
    BY <1>7 DEF FinalSave
  <2>2. DrainedLine' /\ GateFollowsStop'
    BY <1>1, <2>1 DEF LineInv, DrainedLine, GateFollowsStop
  <2>3. CommitOrder'
    BY <1>1, <2>1 DEF CommitOrder
  <2> QED
    BY <1>2, <2>2, <2>3 DEF RunInv
<1> QED
  BY <1>3, <1>4, <1>5, <1>6, <1>7

-----------------------------------------------------------------------------
(* The theorems.                                                           *)

\* LaneInv is inductive for a run on one lane.
LEMMA LaneStep ==
  ASSUME OneLaneOnly, LaneInv, [Next]_vars
  PROVE  LaneInv'
<1>1. TypeOK /\ RunInv
  BY DEF LaneInv, RunInv
<1>2. TypeOK'
  BY <1>1, TypeStep
<1>3. RunInv'
  <2>1. CASE UNCHANGED vars
    BY <1>1, <2>1, RunFrame
       DEF vars, runVars, gateVars, stateVars, lineVars, stepVars
  <2>2. CASE Engine
    BY <1>1, <2>2, LaneTurn, LaneInstall, LaneCommit, LaneStop
       DEF Engine, StopMicrotask, Lanes
  <2>3. CASE Stopping
    BY <1>1, <2>3, LaneStop DEF Stopping
  <2>4. CASE Awaited
    <3>1. CASE Load \/ LoadFails
      BY <1>1, <3>1, LaneTurn DEF Lanes
    <3>2. ASSUME NEW l \in Lanes,
                 \/ SaveOk(l) \/ SaveFails(l) \/ HandlerReturns(l)
                 \/ HandlerThrows(l)
          PROVE  RunInv'
      BY <1>1, <3>2, LaneCommit
    <3>3. CASE \E w \in detached : DetachedSettles(w)
      BY <1>1, <3>3, LaneWorld
    <3> QED
      BY <2>4, <3>1, <3>2, <3>3 DEF Awaited
  <2>5. CASE World
    BY <1>1, <2>5, LaneWorld, LaneStop DEF World
  <2> QED
    BY <2>1, <2>2, <2>3, <2>4, <2>5 DEF Next
<1> QED
  BY <1>2, <1>3 DEF LaneInv, RunInv

\* The inductive invariant of a run on one lane holds throughout.
THEOREM LaneInvariance ==
  ASSUME OneLaneOnly
  PROVE  Spec => []LaneInv
<1>1. Init => LaneInv
  BY LaneInit
<1>2. LaneInv /\ [Next]_vars => LaneInv'
  BY LaneStep
<1> QED
  BY <1>1, <1>2, PTL DEF Spec

\* In a run with a store no handler runs before the store holds its State.
THEOREM SavesBeforeEffects == Spec => []SaveBeforeEffects
<1>1. CASE HasStore
  <2>1. LaneInv => SaveBeforeEffects
    BY MainLane DEF LaneInv, OneLane, CommitOrder, SaveBeforeEffects, Lanes
  <2>2. Spec => []LaneInv
    BY <1>1, LaneInvariance DEF OneLaneOnly
  <2> QED
    BY <1>1, <2>1, <2>2, PTL
<1>2. CASE ~HasStore
  <2>1. SaveBeforeEffects
    BY <1>2 DEF SaveBeforeEffects
  <2> QED
    BY <2>1, PTL
<1> QED
  BY <1>1, <1>2

-----------------------------------------------------------------------------
(* The refinement.                                                         *)

\* A run with a store starts where DurableRun does.
LEMMA DurableRefInit ==
  ASSUME HasStore, Init
  PROVE  DR!Init
BY DEF Init, DR!Init, Acting, Lanes

\* The steps that reach a State or the store.
LEMMA DurableRefCommit ==
  ASSUME HasStore, LaneInv, NEW l \in Lanes,
         \/ Load \/ Fold(l) \/ SaveOk(l) \/ NextCmd(l) \/ HandlerReturns(l)
         \/ HandlerThrows(l)
  PROVE  DR!Next
<1> USE DEF gateVars, stateVars, lineVars, stepVars, subVars, doneVars
<1> TypeOK /\ OneLane /\ GateFollowsStop /\ CommitOrder /\ Numbered
      /\ DrainedLine
  BY DEF LaneInv
<1>1. CASE Load
  <2>1. PICK s \in States, n \in CmdCounts : BeginCommit("main", Boot, s, n)
    BY <1>1, FoldedStateType DEF Load
  <2>2. /\ state' \in States /\ UNCHANGED <<stored, phase>>
        /\ pc["main"] = "load" /\ pc'["main"] \in {"save", "install"}
    BY <1>1, <2>1, LineFacts DEF Load, BeginCommit, FirstOfCommit
  <2>3. state = NoState /\ Acting = NoState /\ Acting' = NoState
    BY <2>2 DEF CommitOrder, Acting
  <2>4. DR!Fold
    BY <2>2, <2>3 DEF DR!Fold
  <2> QED
    BY <2>4 DEF DR!Next
<1>2. CASE Fold(l)
  <2>1. /\ queue[l] # <<>> /\ l = "main" /\ pc["main"] = "idle"
        /\ origin[Head(queue["main"])] # "detached" /\ gate # "abandoned"
    BY <1>2, MainLane DEF Fold, Serve, Turn
  <2>2. phase \in {"none", "drain"}
    BY <1>2, <2>1, LeaveKeepsLine DEF Fold, LineInv
  <2>3. PICK s \in States, n \in Nat :
          BeginCommit("main", Head(queue["main"]), s, n)
    <3>1. state.ver + 1 \in Nat
      BY VersionType DEF TypeOK, StateType
    <3> QED
      BY <1>2, <2>1, <3>1, FoldedStateType, ConstantTypes DEF Fold
  <2>4. /\ state' \in States /\ UNCHANGED <<stored, phase>>
        /\ pc'["main"] \in {"save", "install"}
    BY <1>2, <2>3, LineFacts DEF Fold, BeginCommit, FirstOfCommit
  <2>5. Acting = NoState /\ Acting' = NoState
    BY <2>1, <2>4 DEF Acting
  <2>6. DR!Fold
    BY <2>2, <2>4, <2>5 DEF DR!Fold
  <2> QED
    BY <2>6 DEF DR!Next
<1>3. ASSUME l = "main" PROVE SaveOk(l) => DR!Next
  <2> SUFFICES ASSUME SaveOk(l) PROVE DR!Next
    OBVIOUS
  <2>1. /\ UNCHANGED <<state, phase>> /\ stored' = step["main"].next
        /\ pc["main"] = "save" /\ pc'["main"] = "install"
    BY <1>3, LineFacts DEF SaveOk
  <2>2. /\ state # NoState /\ stored' = state
        /\ Acting = NoState /\ Acting' = NoState
    BY <2>1 DEF CommitOrder, Acting
  <2>3. DR!Persist
    BY <2>1, <2>2 DEF DR!Persist
  <2> QED
    BY <2>3 DEF DR!Next
<1>4. ASSUME l = "main" PROVE NextCmd(l) => DR!Next
  <2> SUFFICES ASSUME NextCmd(l) PROVE DR!Next
    OBVIOUS
  <2>1. /\ UNCHANGED <<state, stored, phase>>
        /\ pc["main"] = "cmds" /\ pc'["main"] = "cmd"
        /\ gate # "abandoned" /\ step'["main"].next = step["main"].next
    BY <1>4, LineFacts DEF NextCmd, Steps
  <2>2. /\ state # NoState /\ stored = state
        /\ Acting = NoState /\ Acting' = state
        /\ phase \in {"none", "drain"}
    BY <2>1 DEF CommitOrder, Acting, DrainedLine
  <2>3. DR!Act
    BY <2>1, <2>2 DEF DR!Act
  <2> QED
    BY <2>3 DEF DR!Next
<1>5. ASSUME l = "main" PROVE HandlerReturns(l) \/ HandlerThrows(l) => DR!Next
  <2> SUFFICES ASSUME HandlerReturns(l) \/ HandlerThrows(l) PROVE DR!Next
    OBVIOUS
  <2>1. /\ UNCHANGED <<state, stored, phase>>
        /\ pc["main"] = "cmd" /\ pc'["main"] \in {"cmds", "throwing"}
    BY <1>5, LineFacts DEF HandlerReturns, HandlerThrows
  <2>2. Acting # NoState /\ Acting' = NoState
    BY <2>1 DEF CommitOrder, Acting
  <2>3. DR!Rest
    BY <2>1, <2>2 DEF DR!Rest
  <2> QED
    BY <2>3 DEF DR!Next
<1>6. ASSUME \/ SaveOk(l) \/ NextCmd(l) \/ HandlerReturns(l)
             \/ HandlerThrows(l)
      PROVE  l = "main"
  BY <1>6, MainLane DEF SaveOk, NextCmd, HandlerReturns, HandlerThrows
<1> QED
  BY <1>1, <1>2, <1>3, <1>4, <1>5, <1>6

\* The steps DurableRun does not see.
LEMMA DurableRefStutter ==
  ASSUME HasStore, LaneInv, NEW l \in Lanes,
         \/ LoadFails \/ StartReturns \/ Drop(l) \/ NoTransition(l) \/ Halt(l)
         \/ PassDetached(l) \/ Install(l) \/ SaveFails(l) \/ Finish(l)
         \/ Reject(l)
         \/ CallerDispatch \/ LoopDispatch \/ DisposalSettles \/ Detach(l)
         \/ (\E w \in detached : DetachedSettles(w))
         \/ (\E s \in Subs : SubFails(s))
         \/ CallDone \/ CallIdle \/ IdleLooks
         \/ Teardown \/ DrainSettles \/ DrainTimesOut \/ CloseSubs
  PROVE  [DR!Next]_(DR!vars)
<1> USE DEF gateVars, stateVars, lineVars, stepVars, subVars, doneVars
<1> TypeOK /\ OneLane
  BY DEF LaneInv
<1>1. UNCHANGED <<state, stored>>
  BY DEF LoadFails, StartReturns, Drop, NoTransition, Halt, PassDetached,
         Install, SaveFails, Finish, Reject, CallerDispatch, LoopDispatch,
         DisposalSettles, Detach, DetachedSettles, SubFails, CallDone,
         CallIdle, IdleLooks, Teardown, DrainSettles, DrainTimesOut, CloseSubs
<1>2. (phase' = "stopped") = (phase = "stopped")
  BY DEF LoadFails, StartReturns, Drop, NoTransition, Halt, PassDetached,
         Install, FailRun, SaveFails, Finish, Reject, CallerDispatch,
         LoopDispatch, DisposalSettles, Detach, DetachedSettles, SubFails,
         CallDone, CallIdle, IdleLooks, Teardown, DrainSettles, DrainTimesOut,
         CloseSubs, Settle, CommitCallbacks
<1>3. Acting' = Acting
  <2>1. CASE LoadFails
    BY <2>1, LineFacts DEF LoadFails, Acting
  <2>2. CASE Install(l) \/ SaveFails(l) \/ Finish(l) \/ Reject(l)
    <3>1. l = "main"
      BY <2>2, MainLane DEF Install, SaveFails, Finish, Reject
    <3>2. pc["main"] # "cmd" /\ pc'["main"] # "cmd"
      BY <2>2, <3>1, LineFacts DEF Install, SaveFails, Finish, Reject, Settle
    <3> QED
      BY <3>2 DEF Acting
  <2>3. CASE ~(LoadFails \/ Install(l) \/ SaveFails(l) \/ Finish(l)
                \/ Reject(l))
    <3>1. UNCHANGED <<pc, step>>
      BY <2>3
         DEF StartReturns, Drop, NoTransition, Halt, PassDetached,
             CallerDispatch, LoopDispatch, DisposalSettles, Detach,
             DetachedSettles, SubFails, CallDone, CallIdle, IdleLooks,
             Teardown, DrainSettles, DrainTimesOut, CloseSubs
    <3> QED
      BY <3>1 DEF Acting
  <2> QED
    BY <2>1, <2>2, <2>3
<1> QED
  BY <1>1, <1>2, <1>3 DEF DR!vars

\* The steps of stop() that end the run.
LEMMA DurableRefEnd ==
  ASSUME HasStore, LaneInv, EndDisposals \/ FinalSave
  PROVE  [DR!Next]_(DR!vars)
<1> USE DEF gateVars, stateVars, lineVars, stepVars, subVars, doneVars
<1> CommitOrder
  BY DEF LaneInv
<1>1. UNCHANGED <<state, pc, step>>
  BY DEF EndDisposals, FinalSave
<1>2. Acting' = Acting
  BY <1>1 DEF Acting
<1>3. CASE EndDisposals
  <2>1. /\ phase = "dispose" /\ stored' = stored
        /\ phase' = "final" \/ phase' = "stopped"
    BY <1>3 DEF EndDisposals
  <2>2. CASE phase' = "final"
    BY <1>1, <1>2, <2>1, <2>2 DEF DR!vars
  <2>3. CASE phase' = "stopped"
    BY <1>1, <1>2, <2>1, <2>3 DEF DR!Next, DR!End
  <2> QED
    BY <2>1, <2>2, <2>3
<1>4. CASE FinalSave
  <2>1. /\ phase = "final" /\ phase' = "stopped" /\ state # NoState
        /\ stored' = state \/ stored' = stored
    BY <1>4 DEF FinalSave, CommitOrder
  <2>2. CASE stored' = state
    BY <1>1, <1>2, <2>1, <2>2 DEF DR!Next, DR!Persist
  <2>3. CASE stored' = stored
    BY <1>1, <1>2, <2>1, <2>3 DEF DR!Next, DR!End
  <2> QED
    BY <2>1, <2>2, <2>3
<1> QED
  BY <1>3, <1>4

\* Every step of the loop is one of DurableRun, or leaves it alone.
LEMMA DurableRefStep ==
  ASSUME HasStore, LaneInv, [Next]_vars
  PROVE  [DR!Next]_(DR!vars)
<1>1. CASE UNCHANGED vars
  BY <1>1 DEF vars, gateVars, stateVars, stepVars, DR!vars, Acting
<1>2. CASE Engine
  BY <1>2, DurableRefCommit, DurableRefStutter DEF Engine, StopMicrotask, Lanes
<1>3. CASE Stopping
  BY <1>3, DurableRefStutter, DurableRefEnd DEF Stopping, Lanes
<1>4. CASE Awaited
  BY <1>4, DurableRefCommit, DurableRefStutter DEF Awaited, Lanes
<1>5. CASE World
  BY <1>5, DurableRefStutter DEF World, Lanes
<1> QED
  BY <1>1, <1>2, <1>3, <1>4, <1>5 DEF Next

\* A run with a store implements DurableRun.
THEOREM ImplementsDurable ==
  ASSUME HasStore
  PROVE  Spec => ImplementsDurableRun
<1>1. Init => DR!Init
  BY DurableRefInit
<1>2. LaneInv /\ [Next]_vars => [DR!Next]_(DR!vars)
  BY DurableRefStep
<1>3. Spec => []LaneInv
  BY LaneInvariance DEF OneLaneOnly
<1> QED
  BY <1>1, <1>2, <1>3, PTL DEF Spec, ImplementsDurableRun, DR!Spec

-----------------------------------------------------------------------------
(* The line in order.                                                      *)

\* The types of the history and of the fates.
LEMMA HistoryFacts ==
  ASSUME TypeOK
  PROVE  /\ folded \in Seq(Works) /\ Len(folded) \in Nat
         /\ \A i \in 1 .. Len(folded) :
              folded[i] \in Works /\ folded[i] \in Nat
         /\ fate \in [Works -> Fates] /\ counted \subseteq Works
<1>1. /\ folded \in Seq(Works) /\ fate \in [Works -> Fates]
      /\ counted \subseteq Works
  BY DEF TypeOK, StateType, LineType, GateType
<1>2. /\ Len(folded) \in Nat
      /\ \A i \in 1 .. Len(folded) : folded[i] \in Works
  BY <1>1
<1>3. Works \subseteq Nat
  BY LineFacts
<1> QED
  BY <1>1, <1>2, <1>3

\* A step that touches neither the line, nor a fate, nor the count, and does
\* not give up, keeps the order.
LEMMA OrderFrame ==
  ASSUME OrderInv, queue'["main"] = queue["main"],
         step'["main"].msg = step["main"].msg,
         UNCHANGED <<works, origin, fate, folded, counted>>,
         gate' = "abandoned" <=> gate = "abandoned"
  PROVE  OrderInv'
<1>1. LineInOrder' /\ FoldsInOrder'
  BY DEF OrderInv, LineInOrder, FoldsInOrder
<1>2. FateOfLine'
  BY DEF OrderInv, FateOfLine
<1>3. WaitingIsCounted' /\ DropsAreCounted'
  BY DEF OrderInv, WaitingIsCounted, DropsAreCounted
<1> QED
  BY <1>1, <1>2, <1>3 DEF OrderInv

\* A new work item comes last, and stop() has not counted it.
LEMMA JoinKeepsOrder ==
  ASSUME TypeOK, OneLane, started, Numbered, OrderInv, NEW o, NEW f,
         works + 1 \in Works, works' = works + 1,
         origin' = [origin EXCEPT ![works + 1] = o],
         fate' = [fate EXCEPT ![works + 1] = f], f \notin {"dropped", "silent"},
         \/ queue' = queue
         \/ /\ queue' = Chain(works + 1)
            /\ (f = "line" /\ gate # "abandoned") \/ o = "detached",
         UNCHANGED <<folded, counted>>, UNCHANGED step,
         gate' = "abandoned" <=> gate = "abandoned"
  PROVE  OrderInv'
<1> DEFINE q == queue["main"]
           r == queue'["main"]
           w == works + 1
<1>1. \A i \in 1 .. Len(r) :
        \/ i \in 1 .. Len(q) /\ r[i] = q[i]
        \/ /\ queue' = Chain(w) /\ r[i] = w
           /\ i = Len(q) + 1
  <2>1. CASE queue' = queue
    BY <2>1
  <2>2. CASE queue' = Chain(w)
    <3>1. r = Append(q, w)
      <4>1. queue' = [queue EXCEPT !["main"] = Append(queue["main"], w)]
        BY <2>2 DEF Chain, TailLane, OneLane
      <4> QED
        BY <4>1, LineFacts
    <3>2. /\ Len(Append(q, w)) = Len(q) + 1
          /\ \A i \in 1 .. Len(q) : Append(q, w)[i] = q[i]
          /\ Append(q, w)[Len(q) + 1] = w
      BY LineFacts
    <3>3. \A i \in 1 .. Len(q) + 1 : i \in 1 .. Len(q) \/ i = Len(q) + 1
      <4>1. Len(q) \in Nat
        BY LineFacts
      <4> QED
        BY <4>1
    <3> QED
      BY <2>2, <3>1, <3>2, <3>3
  <2> QED
    BY <2>1, <2>2
<1>2. /\ Len(q) \in Nat /\ works \in Nat /\ step["main"].msg \in Nat
      /\ \A i \in 1 .. Len(q) :
           q[i] \in Works /\ q[i] \in Nat /\ q[i] <= works
      /\ step["main"].msg <= works
  BY LineFacts DEF Numbered
<1>3. \A i \in 1 .. Len(folded) :
        folded[i] \in Works /\ folded[i] \in Nat /\ folded[i] <= works
  BY HistoryFacts DEF OrderInv, LineInOrder
<1>4. /\ \A v \in Works : v # w => fate'[v] = fate[v] /\ origin'[v] = origin[v]
      /\ fate'[w] = f /\ origin'[w] = o
  BY LineFacts, HistoryFacts
<1> HIDE DEF q, r, w
<1>5. \A i \in 1 .. Len(q) : q[i] < w
  BY <1>2 DEF w
<1>6. LineInOrder'
  <2>1. ASSUME NEW i \in 1 .. Len(r), NEW j \in 1 .. Len(r), i < j
        PROVE  r[i] < r[j]
    <3>1. i \in 1 .. Len(q) /\ r[i] = q[i]
      BY <1>1, <1>2, <2>1
    <3> QED
      BY <1>1, <1>5, <2>1, <3>1 DEF OrderInv, LineInOrder, q
  <2>2. ASSUME NEW i \in 1 .. Len(r)
        PROVE  step'["main"].msg < r[i]
    BY <1>1, <1>2 DEF OrderInv, LineInOrder, q, w
  <2>3. ASSUME NEW i \in 1 .. Len(folded')
        PROVE  folded'[i] <= works' /\ \A j \in 1 .. Len(r) : folded'[i] < r[j]
    BY <1>1, <1>2, <1>3 DEF OrderInv, LineInOrder, q, w
  <2> QED
    BY <2>1, <2>2, <2>3 DEF LineInOrder, r
<1>7. FateOfLine'
  <2>1. ASSUME NEW i \in 1 .. Len(r), origin'[r[i]] # "detached"
        PROVE  fate'[r[i]] = "line"
    <3>1. CASE i \in 1 .. Len(q) /\ r[i] = q[i]
      <4>1. q[i] \in Works /\ q[i] # w
        BY <1>2, <1>5, <3>1
      <4> QED
        BY <1>4, <2>1, <3>1, <4>1 DEF OrderInv, FateOfLine, q
    <3>2. CASE queue' = Chain(w) /\ r[i] = w
      <4>1. q = queue["main"] /\ r = queue'["main"]
        BY DEF q, r
      <4>2. f = "line" \/ queue' = queue
        BY <1>4, <2>1, <3>2 DEF w
      <4>3. CASE queue' = queue
        BY <1>2, <1>5, <2>1, <3>2, <4>1, <4>3
      <4> QED
        BY <1>4, <3>2, <4>2, <4>3
    <3> QED
      BY <1>1, <3>1, <3>2
  <2>2. ASSUME NEW i \in 1 .. Len(folded)
        PROVE  fate'[folded[i]] # "line"
    <3>1. folded[i] # w /\ folded[i] \in Works
      BY <1>2, <1>3 DEF w
    <3> QED
      BY <1>4, <3>1 DEF OrderInv, FateOfLine
  <2> QED
    BY <2>1, <2>2 DEF FateOfLine, r
<1>8. WaitingIsCounted'
  <2>1. gate' # "abandoned" => counted' = {}
    BY DEF OrderInv, WaitingIsCounted
  <2>2. ASSUME gate' = "abandoned", NEW i \in 1 .. Len(r),
               origin'[r[i]] # "detached"
        PROVE  r[i] \in counted'
    <3>1. CASE i \in 1 .. Len(q) /\ r[i] = q[i]
      <4>1. q[i] \in Works /\ q[i] # w
        BY <1>2, <1>5, <3>1
      <4> QED
        BY <1>4, <2>2, <3>1, <4>1 DEF OrderInv, WaitingIsCounted, q
    <3>2. CASE queue' = Chain(w) /\ r[i] = w
      <4>1. queue' = queue
        BY <1>4, <2>2, <3>2 DEF w
      <4> QED
        BY <1>1, <1>2, <1>5, <2>2, <3>2, <4>1 DEF q, r
    <3> QED
      BY <1>1, <3>1, <3>2
  <2> QED
    BY <2>1, <2>2 DEF WaitingIsCounted, r
<1>9. DropsAreCounted' /\ FoldsInOrder'
  <2>1. \A v \in Works : fate'[v] \in {"dropped", "silent"} => v \in counted
    BY <1>4 DEF OrderInv, DropsAreCounted
  <2> QED
    BY <2>1 DEF OrderInv, DropsAreCounted, FoldsInOrder
<1> QED
  BY <1>6, <1>7, <1>8, <1>9 DEF OrderInv

\* The head leaves the line: answered, dropped and counted, or folded.
LEMMA LeaveKeepsOrder ==
  ASSUME TypeOK, OneLane, Numbered, OrderInv, NEW outcome,
         Leave("main", outcome), queue["main"] # <<>>, outcome # "line",
         outcome \in {"dropped", "silent"} =>
           gate = "abandoned" /\ origin[Head(queue["main"])] # "detached",
         UNCHANGED counted, gate' = "abandoned" <=> gate = "abandoned",
         \/ folded' = folded /\ step'["main"].msg = step["main"].msg
         \/ /\ folded' = Append(folded, Head(queue["main"]))
            /\ step'["main"].msg = Head(queue["main"])
            /\ gate # "abandoned"
  PROVE  OrderInv'
<1> DEFINE q == queue["main"]
           r == queue'["main"]
           h == Head(queue["main"])
<1>1. /\ \A i \in 1 .. Len(r) : i + 1 \in 1 .. Len(q) /\ r[i] = q[i + 1]
      /\ works' = works /\ origin' = origin
      /\ h = q[1] /\ 1 \in 1 .. Len(q) /\ h <= works
  BY LeaveMoves
<1>2. /\ Len(q) \in Nat /\ works \in Nat /\ step["main"].msg \in Nat
      /\ \A i \in 1 .. Len(q) : q[i] \in Works /\ q[i] \in Nat
      /\ Len(r) \in Nat
  <2>1. r = Tail(q) /\ q # <<>> /\ q \in Seq(Works)
    BY LineFacts DEF Leave
  <2>2. Len(r) \in Nat
    BY <2>1
  <2> QED
    BY <2>2, LineFacts
<1>3. /\ fate' = [fate EXCEPT ![h] = outcome]
      /\ \A v \in Works : v # h => fate'[v] = fate[v]
      /\ h \in Works /\ fate'[h] = outcome
  BY <1>1, <1>2, HistoryFacts DEF Leave
<1>4. \/ Len(folded') = Len(folded) /\ folded' = folded
      \/ /\ Len(folded') = Len(folded) + 1 /\ folded'[Len(folded')] = h
         /\ \A i \in 1 .. Len(folded) : folded'[i] = folded[i]
         /\ gate # "abandoned"
  BY <1>3, HistoryFacts
<1>5. \A i \in 1 .. Len(folded') :
        \/ i \in 1 .. Len(folded) /\ folded'[i] = folded[i]
        \/ /\ i = Len(folded) + 1 /\ folded'[i] = h
           /\ gate # "abandoned"
  <2>1. Len(folded) \in Nat
    BY HistoryFacts
  <2> QED
    BY <1>4, <2>1
<1>6. /\ \A i \in 1 .. Len(folded) :
           folded[i] \in Works /\ folded[i] \in Nat /\ folded[i] < h
      /\ \A i \in 1 .. Len(folded) : folded[i] <= works
      /\ Len(folded) \in Nat
  BY <1>1, HistoryFacts DEF OrderInv, LineInOrder
<1>7. step'["main"].msg = h \/ step'["main"].msg = step["main"].msg
  OBVIOUS
<1> HIDE DEF q, r, h
<1>8. \A i \in 1 .. Len(r) : h < r[i] /\ r[i] \in Works /\ r[i] \in Nat
  <2>1. ASSUME NEW i \in 1 .. Len(r) PROVE h < r[i]
    <3>1. i + 1 \in 1 .. Len(q) /\ r[i] = q[i + 1] /\ 1 < i + 1
      BY <1>1, <1>2
    <3> QED
      BY <1>1, <3>1 DEF OrderInv, LineInOrder, q
  <2> QED
    BY <1>1, <1>2, <2>1
<1>9. LineInOrder'
  <2>1. ASSUME NEW i \in 1 .. Len(r), NEW j \in 1 .. Len(r), i < j
        PROVE  r[i] < r[j]
    <3>1. i + 1 < j + 1
      BY <1>2, <2>1
    <3> QED
      BY <1>1, <3>1 DEF OrderInv, LineInOrder, q
  <2>2. ASSUME NEW i \in 1 .. Len(r) PROVE step'["main"].msg < r[i]
    BY <1>1, <1>7, <1>8 DEF OrderInv, LineInOrder, q
  <2>3. ASSUME NEW i \in 1 .. Len(folded')
        PROVE  folded'[i] <= works' /\ \A j \in 1 .. Len(r) : folded'[i] < r[j]
    BY <1>1, <1>5, <1>8 DEF OrderInv, LineInOrder, q
  <2> QED
    BY <2>1, <2>2, <2>3 DEF LineInOrder, r
<1>10. FateOfLine'
  <2>1. ASSUME NEW i \in 1 .. Len(r), origin'[r[i]] # "detached"
        PROVE  fate'[r[i]] = "line"
    <3>1. r[i] # h /\ r[i] \in Works
      BY <1>1, <1>2, <1>3, <1>8
    <3>2. fate[r[i]] = "line"
      BY <1>1, <2>1 DEF OrderInv, FateOfLine, q
    <3> QED
      BY <1>3, <3>1, <3>2
  <2>2. ASSUME NEW i \in 1 .. Len(folded')
        PROVE  fate'[folded'[i]] # "line"
    <3>1. CASE i \in 1 .. Len(folded) /\ folded'[i] = folded[i]
      <4>1. folded[i] # h /\ folded[i] \in Works
        BY <1>1, <1>2, <1>6, <3>1
      <4> QED
        BY <1>3, <3>1, <4>1 DEF OrderInv, FateOfLine
    <3>2. CASE folded'[i] = h
      BY <1>3, <3>2
    <3> QED
      BY <1>5, <3>1, <3>2
  <2> QED
    BY <2>1, <2>2 DEF FateOfLine, r
<1>11. WaitingIsCounted'
  BY <1>1 DEF OrderInv, WaitingIsCounted, q, r
<1>12. FoldsInOrder'
  <2>1. ASSUME NEW i \in 1 .. Len(folded'), NEW j \in 1 .. Len(folded'), i < j
        PROVE  folded'[i] < folded'[j]
    <3>1. i \in 1 .. Len(folded) /\ folded'[i] = folded[i]
      BY <1>4, <1>5, <1>6, <2>1
    <3> QED
      BY <1>5, <1>6, <2>1, <3>1 DEF OrderInv, FoldsInOrder
  <2> QED
    BY <2>1 DEF FoldsInOrder
<1>13. DropsAreCounted'
  <2>1. ASSUME NEW v \in Works, fate'[v] \in {"dropped", "silent"}
        PROVE  v \in counted
    <3>1. CASE v = h
      <4>1. gate = "abandoned" /\ origin[q[1]] # "detached"
        BY <1>1, <1>3, <2>1, <3>1 DEF h
      <4> QED
        BY <1>1, <3>1, <4>1 DEF OrderInv, WaitingIsCounted, q
    <3>2. CASE v # h
      BY <1>3, <2>1, <3>2 DEF OrderInv, DropsAreCounted
    <3> QED
      BY <3>1, <3>2
  <2>2. ASSUME NEW i \in 1 .. Len(folded') PROVE folded'[i] \notin counted
    BY <1>5 DEF OrderInv, DropsAreCounted, WaitingIsCounted
  <2> QED
    BY <2>1, <2>2 DEF DropsAreCounted
<1> QED
  BY <1>9, <1>10, <1>11, <1>12, <1>13 DEF OrderInv

\* A step that ends gives its Msg a fate other than "line" and "dropped".
LEMMA SettleKeepsOrder ==
  ASSUME TypeOK, Numbered, OrderInv, NEW outcome \in {"done", "rejected"},
         Settle("main", outcome), UNCHANGED <<folded, counted, gate>>
  PROVE  OrderInv'
<1> DEFINE q == queue["main"]
           m == step["main"].msg
<1>1. /\ UNCHANGED <<queue, works, origin>>
      /\ step'["main"].msg = 0
  BY LineFacts DEF Settle, NoStep, Step, Boot
<1>2. /\ \A i \in 1 .. Len(q) : q[i] \in Works /\ q[i] \in Nat /\ q[i] # m
      /\ \A i \in 1 .. Len(q) : 0 < q[i]
  BY LineFacts, ConstantTypes DEF OrderInv, LineInOrder, Works
<1>3. m \in Nat /\ fate \in [Works -> Fates]
  BY LineFacts, HistoryFacts
<1>4. /\ \A v \in Works : v # m => fate'[v] = fate[v]
      /\ \A v \in Works : fate'[v] = fate[v] \/ fate'[v] = outcome
  BY <1>3 DEF Settle
<1> HIDE DEF q, m
<1>5. LineInOrder' /\ FoldsInOrder'
  BY <1>1, <1>2 DEF OrderInv, LineInOrder, FoldsInOrder, q
<1>6. FateOfLine'
  <2>1. \A i \in 1 .. Len(q) : fate'[q[i]] = fate[q[i]]
    BY <1>2, <1>4
  <2>2. \A i \in 1 .. Len(folded) : folded[i] \in Works
    BY HistoryFacts
  <2>3. \A i \in 1 .. Len(folded) : fate'[folded[i]] # "line"
    BY <1>4, <2>2 DEF OrderInv, FateOfLine
  <2> QED
    BY <1>1, <2>1, <2>3 DEF OrderInv, FateOfLine, q
<1>7. WaitingIsCounted' /\ DropsAreCounted'
  BY <1>1, <1>4 DEF OrderInv, WaitingIsCounted, DropsAreCounted
<1> QED
  BY <1>5, <1>6, <1>7 DEF OrderInv

\* stop() gives up: every Msg that waits is counted, and none was dropped yet.
LEMMA GivingUpCounts ==
  ASSUME TypeOK, Numbered, OrderInv, gate # "abandoned", gate' = "abandoned",
         counted' = OnLine,
         UNCHANGED <<queue, works, origin, fate, folded, step>>
  PROVE  OrderInv'
<1> DEFINE q == queue["main"]
<1>1. \A i \in 1 .. Len(q) :
        /\ q[i] \in Works /\ q[i] \in 1 .. works
        /\ origin[q[i]] # "detached" => fate[q[i]] = "line"
  <2>1. ASSUME NEW i \in 1 .. Len(q)
        PROVE  q[i] \in Works /\ q[i] <= works /\ works \in Nat
    BY LineFacts DEF Numbered
  <2>2. \A i \in 1 .. Len(q) : q[i] \in 1 .. works
    BY <2>1 DEF Works
  <2> QED
    BY <2>1, <2>2 DEF OrderInv, FateOfLine
<1>2. WaitingIsCounted'
  BY <1>1 DEF WaitingIsCounted, OnLine
<1>3. DropsAreCounted'
  <2>1. \A v \in Works : fate[v] \notin {"dropped", "silent"}
    BY DEF OrderInv, DropsAreCounted, WaitingIsCounted
  <2>2. \A i \in 1 .. Len(folded) : folded[i] \notin OnLine
    BY DEF OrderInv, FateOfLine, OnLine
  <2> QED
    BY <2>1, <2>2 DEF DropsAreCounted
<1>4. LineInOrder' /\ FateOfLine' /\ FoldsInOrder'
  BY DEF OrderInv, LineInOrder, FateOfLine, FoldsInOrder
<1> QED
  BY <1>2, <1>3, <1>4 DEF OrderInv

\* A dispatch, accepted or refused, keeps the order.
LEMMA EnqueueKeepsOrder ==
  ASSUME TypeOK, OneLane, started, Numbered, OrderInv, NEW org, Enqueue(org),
         UNCHANGED <<folded, counted, step>>,
         gate' = "abandoned" <=> gate = "abandoned"
  PROVE  OrderInv'
<1>1. PICK f \in {"line", "discarded", "stopped"} :
        /\ fate' = [fate EXCEPT ![works + 1] = f]
        /\ \/ queue' = queue
           \/ queue' = Chain(works + 1) /\ f = "line" /\ gate # "abandoned"
  BY DEF Enqueue, Refusal
<1>2. /\ works + 1 \in Works /\ works' = works + 1
      /\ origin' = [origin EXCEPT ![works + 1] = org]
  BY DEF Enqueue
<1> QED
  BY <1>1, <1>2, JoinKeepsOrder

\* The turn of a work item keeps the order.
LEMMA OrderTurn ==
  ASSUME OneLaneOnly, LaneInv, OrderInv, NEW l \in Lanes,
         Drop(l) \/ NoTransition(l) \/ Halt(l) \/ Fold(l) \/ PassDetached(l)
  PROVE  OrderInv'
<1> USE DEF gateVars, stateVars, lineVars, stepVars, subVars, doneVars
<1> TypeOK /\ OneLane /\ Numbered
  BY DEF LaneInv
<1>1. l = "main" /\ queue["main"] # <<>>
  <2>1. queue[l] # <<>>
    BY DEF Drop, NoTransition, Halt, Fold, PassDetached, Serve, Turn
  <2> QED
    BY <2>1, MainLane
<1>2. CASE Drop(l)
  <2>1. PICK outcome \in {"dropped", "silent"} : Leave("main", outcome)
    BY <1>1, <1>2 DEF Drop
  <2>2. /\ UNCHANGED <<counted, gate, folded, step>>
        /\ gate = "abandoned" /\ origin[Head(queue["main"])] # "detached"
    BY <1>1, <1>2 DEF Drop, Turn
  <2> QED
    BY <1>1, <2>1, <2>2, LeaveKeepsOrder
<1>3. CASE NoTransition(l) \/ PassDetached(l)
  <2>1. PICK outcome \in {"rejected", "no_cell", "done"} :
          Leave("main", outcome)
    BY <1>1, <1>3 DEF NoTransition, PassDetached
  <2>2. UNCHANGED <<counted, gate, folded, step>>
    BY <1>3 DEF NoTransition, PassDetached
  <2> QED
    BY <1>1, <2>1, <2>2, LeaveKeepsOrder
<1>4. CASE Halt(l)
  <2>1. /\ Leave("main", "rejected") /\ UNCHANGED <<counted, folded, step>>
        /\ gate # "abandoned" /\ gate' = "closed"
    BY <1>1, <1>4 DEF Halt, Serve
  <2> QED
    BY <1>1, <2>1, LeaveKeepsOrder
<1>5. CASE Fold(l)
  <2>1. /\ Leave("main", "step") /\ UNCHANGED <<counted, gate>>
        /\ gate # "abandoned"
        /\ folded' = Append(folded, Head(queue["main"]))
    BY <1>1, <1>5 DEF Fold, Serve
  <2>2. PICK s, n : BeginCommit("main", Head(queue["main"]), s, n)
    BY <1>1, <1>5 DEF Fold
  <2>3. step'["main"].msg = Head(queue["main"])
    BY <2>2, LineFacts DEF BeginCommit, Step
  <2> QED
    BY <1>1, <2>1, <2>3, LeaveKeepsOrder
<1> QED
  BY <1>2, <1>3, <1>4, <1>5

\* Boot and the rest of a commit keep the order.
LEMMA OrderCommit ==
  ASSUME OneLaneOnly, LaneInv, OrderInv, NEW l \in Lanes,
         \/ Load \/ LoadFails \/ StartReturns \/ Install(l)
         \/ SaveOk(l) \/ SaveFails(l) \/ NextCmd(l) \/ HandlerReturns(l)
         \/ HandlerThrows(l) \/ Finish(l) \/ Reject(l)
  PROVE  OrderInv'
<1> USE DEF gateVars, stateVars, lineVars, stepVars, subVars, doneVars
<1> TypeOK /\ OneLane /\ Numbered
  BY DEF LaneInv
<1>1. CASE Load
  <2>1. PICK s, n : BeginCommit("main", Boot, s, n)
    BY <1>1 DEF Load
  <2>2. step'["main"].msg = 0
    BY <2>1, LineFacts DEF BeginCommit, Step, Boot
  <2>3. /\ UNCHANGED <<queue, works, origin, fate, folded, counted, gate>>
    BY <1>1 DEF Load
  <2>4. \A i \in 1 .. Len(queue["main"]) : 0 < queue["main"][i]
    BY LineFacts, ConstantTypes DEF Works
  <2>5. LineInOrder' /\ FoldsInOrder'
    BY <2>2, <2>3, <2>4 DEF OrderInv, LineInOrder, FoldsInOrder
  <2>6. FateOfLine' /\ WaitingIsCounted' /\ DropsAreCounted'
    BY <2>3 DEF OrderInv, FateOfLine, WaitingIsCounted, DropsAreCounted
  <2> QED
    BY <2>5, <2>6 DEF OrderInv
<1>2. CASE LoadFails \/ StartReturns \/ SaveOk(l) \/ SaveFails(l)
             \/ HandlerThrows(l)
  BY <1>2, OrderFrame
     DEF LoadFails, StartReturns, SaveOk, SaveFails, HandlerThrows
<1>3. CASE NextCmd(l)
  <2>1. step'["main"].msg = step["main"].msg
    <3>1. step' = [step EXCEPT ![l].left = @ - 1]
      BY <1>3 DEF NextCmd
    <3> QED
      BY <3>1, LineFacts DEF Steps
  <2> QED
    BY <1>3, <2>1, OrderFrame DEF NextCmd
<1>4. CASE HandlerReturns(l) \/ Install(l)
  <2>1. /\ UNCHANGED <<folded, counted, step>>
        /\ gate' = gate \/ (gate = "open" /\ gate' = "draining")
        /\ (started /\ Enqueue("loop")) \/ UNCHANGED lineVars
    <3>1. started \/ UNCHANGED lineVars
      BY <1>4, MadeOnceStarted
    <3> QED
      BY <1>4, <3>1 DEF HandlerReturns, Install, FailRun
  <2>2. CASE started /\ Enqueue("loop")
    BY <2>1, <2>2, EnqueueKeepsOrder
  <2>3. CASE UNCHANGED lineVars
    BY <2>1, <2>3, OrderFrame
  <2> QED
    BY <2>1, <2>2, <2>3
<1>5. CASE Finish(l) \/ Reject(l)
  <2>1. l = "main"
    BY <1>5, MainLane DEF Finish, Reject
  <2>2. PICK outcome \in {"done", "rejected"} : Settle("main", outcome)
    BY <1>5, <2>1 DEF Finish, Reject
  <2>3. UNCHANGED <<folded, counted, gate>>
    BY <1>5 DEF Finish, Reject
  <2> QED
    BY <2>2, <2>3, SettleKeepsOrder
<1> QED
  BY <1>1, <1>2, <1>3, <1>4, <1>5

\* What reaches the loop from outside, and stop(), keep the order.
LEMMA OrderWorld ==
  ASSUME OneLaneOnly, LaneInv, OrderInv,
         \/ World \/ Stopping \/ \E w \in detached : DetachedSettles(w)
  PROVE  OrderInv'
<1> USE DEF gateVars, stateVars, lineVars, stepVars, subVars, doneVars
<1> TypeOK /\ OneLane /\ Numbered /\ GateFollowsStop
  BY DEF LaneInv
<1>1. CASE CallerDispatch \/ LoopDispatch
  <2>1. /\ UNCHANGED <<gate, folded, counted, step>>
        /\ \E org \in {"caller", "loop", "tell"} : Enqueue(org)
    BY <1>1, ConstantTypes DEF CallerDispatch, LoopDispatch
  <2> QED
    BY <1>1, <2>1, EnqueueKeepsOrder, MadeOnceStarted
<1>2. ASSUME NEW l \in Lanes, Detach(l) PROVE OrderInv'
  <2>1. /\ UNCHANGED <<gate, folded, counted, step>>
        /\ works' = works + 1 /\ queue' = Chain(works + 1)
        /\ origin' = [origin EXCEPT ![works + 1] = "detached"]
        /\ fate' = [fate EXCEPT ![works + 1] = "wait"]
        /\ works < MaxWork
    BY <1>2 DEF Detach
  <2>2. works + 1 \in Works
    BY <2>1, LineFacts, ConstantTypes DEF Works
  <2>3. "wait" \notin {"dropped", "silent"}
    OBVIOUS
  <2> QED
    BY <1>2, <2>1, <2>2, <2>3, JoinKeepsOrder, MadeOnceStarted
<1>3. CASE DrainTimesOut
  BY <1>3, GivingUpCounts DEF DrainTimesOut, GateFollowsStop
<1>4. CASE Teardown \/ DrainSettles
  <2>1. /\ UNCHANGED <<queue, works, origin, fate, folded, counted, step>>
        /\ gate # "abandoned" /\ gate' # "abandoned"
    BY <1>4 DEF Teardown, DrainSettles, GateFollowsStop
  <2> QED
    BY <2>1, OrderFrame
<1>5. CASE CloseSubs \/ EndDisposals \/ FinalSave
  BY <1>5, OrderFrame DEF CloseSubs, EndDisposals, FinalSave
<1>6. CASE \/ DisposalSettles \/ (\E w \in detached : DetachedSettles(w))
           \/ CallDone \/ CallIdle \/ IdleLooks
  BY <1>6, OrderFrame
     DEF DisposalSettles, DetachedSettles, CallDone, CallIdle, IdleLooks
<1>7. CASE \E s \in Subs : SubFails(s)
  <2>1. /\ UNCHANGED <<queue, works, origin, fate, folded, counted, step>>
        /\ gate' = "abandoned" <=> gate = "abandoned"
    BY <1>7 DEF SubFails, FailRun
  <2> QED
    BY <2>1, OrderFrame
<1> QED
  BY <1>1, <1>2, <1>3, <1>4, <1>5, <1>6, <1>7 DEF World, Stopping

\* OrderInv is inductive beside LaneInv.
LEMMA OrderStep ==
  ASSUME OneLaneOnly, LaneInv, OrderInv, [Next]_vars
  PROVE  OrderInv'
<1>1. CASE UNCHANGED vars
  BY <1>1, OrderFrame
     DEF vars, gateVars, stateVars, lineVars, stepVars
<1>2. CASE Engine
  BY <1>2, OrderTurn, OrderCommit, OrderWorld
     DEF Engine, StopMicrotask, World, Lanes
<1>3. CASE Awaited
  <2>1. CASE Load \/ LoadFails
    BY <2>1, OrderCommit DEF Lanes
  <2>2. ASSUME NEW l \in Lanes,
               \/ SaveOk(l) \/ SaveFails(l) \/ HandlerReturns(l)
               \/ HandlerThrows(l)
        PROVE  OrderInv'
    BY <2>2, OrderCommit
  <2>3. CASE \E w \in detached : DetachedSettles(w)
    BY <2>3, OrderWorld
  <2> QED
    BY <1>3, <2>1, <2>2, <2>3 DEF Awaited
<1>4. CASE Stopping \/ World
  BY <1>4, OrderWorld
<1> QED
  BY <1>1, <1>2, <1>3, <1>4 DEF Next

\* A run on one lane starts in OrderInv.
LEMMA OrderInit ==
  ASSUME OneLaneOnly, Init
  PROVE  OrderInv
<1>1. queue["main"] = <<>> /\ folded = <<>> /\ counted = {} /\ gate = "open"
  BY DEF Init, Lanes
<1>2. \A w \in Works : fate[w] = "unmade"
  BY DEF Init
<1>3. LineInOrder /\ FoldsInOrder
  BY <1>1 DEF LineInOrder, FoldsInOrder
<1>4. FateOfLine /\ WaitingIsCounted
  BY <1>1 DEF FateOfLine, WaitingIsCounted
<1>5. DropsAreCounted
  BY <1>1, <1>2 DEF DropsAreCounted
<1> QED
  BY <1>3, <1>4, <1>5 DEF OrderInv

\* In a run on one lane the line, the fates and the count agree throughout.
LEMMA OrderInvariance ==
  ASSUME OneLaneOnly
  PROVE  Spec => []OrderInv
<1>1. Init => OrderInv
  BY OrderInit
<1>2. LaneInv /\ OrderInv /\ [Next]_vars => OrderInv'
  BY OrderStep
<1>3. Spec => []LaneInv
  BY LaneInvariance
<1> QED
  BY <1>1, <1>2, <1>3, PTL DEF Spec

\* In a run on one lane Msgs fold in the order they were accepted.
THEOREM FoldsFollowDispatch ==
  ASSUME OneLaneOnly
  PROVE  Spec => []FoldsInOrder
<1>1. OrderInv => FoldsInOrder
  BY DEF OrderInv
<1> QED
  BY <1>1, OrderInvariance, PTL

\* In a run on one lane a Msg that stop() drops is one it counted, and none
\* it counted is ever folded.
THEOREM DropsCounted ==
  ASSUME OneLaneOnly
  PROVE  Spec => []DropsAreCounted
<1>1. OrderInv => DropsAreCounted
  BY DEF OrderInv
<1> QED
  BY <1>1, OrderInvariance, PTL

-----------------------------------------------------------------------------
(* The Subs, and the end of stop().                                        *)

\* Subs only stop outside a reconcile, and the gate never opens again.
LEMMA SubsOnlyStop ==
  ASSUME [Next]_vars
  PROVE  /\ (\E l \in Lanes : Install(l)) \/ running' \subseteq running
         /\ (\E l \in Lanes : Install(l)) \/ UNCHANGED installed
         /\ gate' = "open" => gate = "open"
<1> USE DEF gateVars, stateVars, lineVars, stepVars, subVars, doneVars, vars
<1>1. CASE UNCHANGED vars
  BY <1>1
<1>2. ASSUME NEW l \in Lanes,
             \/ Drop(l) \/ NoTransition(l) \/ Halt(l) \/ Fold(l)
             \/ NextCmd(l) \/ Finish(l) \/ Reject(l) \/ PassDetached(l)
             \/ SaveOk(l) \/ SaveFails(l) \/ HandlerReturns(l)
             \/ HandlerThrows(l) \/ Detach(l)
      PROVE  UNCHANGED <<running, installed>> /\ (gate' = "open" => gate = "open")
  BY <1>2
     DEF Drop, NoTransition, Halt, Fold, NextCmd, Finish, Reject, PassDetached,
         SaveOk, SaveFails, HandlerReturns, HandlerThrows, Detach
<1>3. ASSUME NEW l \in Lanes, Install(l)
      PROVE  gate' = "open" => gate = "open"
  BY <1>3 DEF Install, FailRun
<1>4. CASE \/ StartReturns \/ Load \/ LoadFails \/ CallerDispatch
           \/ LoopDispatch \/ DisposalSettles \/ CallDone \/ CallIdle
           \/ IdleLooks \/ \E w \in detached : DetachedSettles(w)
  BY <1>4
     DEF StartReturns, Load, LoadFails, CallerDispatch, LoopDispatch,
         DisposalSettles, CallDone, CallIdle, IdleLooks, DetachedSettles
<1>5. CASE \/ Teardown \/ DrainSettles \/ DrainTimesOut \/ CloseSubs
           \/ EndDisposals \/ FinalSave
  BY <1>5
     DEF Teardown, DrainSettles, DrainTimesOut, CloseSubs, EndDisposals,
         FinalSave
<1>6. CASE \E s \in Subs : SubFails(s)
  BY <1>6 DEF SubFails, FailRun
<1>7. CASE Next
  BY <1>2, <1>3, <1>4, <1>5, <1>6, <1>7
     DEF Next, Engine, Stopping, Awaited, World, StopMicrotask
<1> QED
  BY <1>1, <1>7

\* A run that is stopping starts no Sub.
LEMMA ClosedInstallStops ==
  ASSUME NEW l \in Lanes, Install(l), gate # "open"
  PROVE  running' \subseteq running
BY DEF Install, ToStart

\* Only stop() moves phase.
LEMMA PhaseMoves ==
  ASSUME [Next]_vars
  PROVE  \/ UNCHANGED phase
         \/ Teardown \/ DrainSettles \/ DrainTimesOut \/ CloseSubs
         \/ EndDisposals \/ FinalSave
<1> USE DEF gateVars, stateVars, lineVars, stepVars, subVars, doneVars, vars
<1>1. ASSUME NEW l \in Lanes,
             \/ Drop(l) \/ NoTransition(l) \/ Halt(l) \/ Fold(l) \/ Install(l)
             \/ NextCmd(l) \/ Finish(l) \/ Reject(l) \/ PassDetached(l)
             \/ SaveOk(l) \/ SaveFails(l) \/ HandlerReturns(l)
             \/ HandlerThrows(l) \/ Detach(l)
      PROVE  UNCHANGED phase
  BY <1>1
     DEF Drop, NoTransition, Halt, Fold, Install, FailRun, NextCmd, Finish,
         Reject, PassDetached, SaveOk, SaveFails, HandlerReturns,
         HandlerThrows, Detach
<1>2. CASE \/ StartReturns \/ Load \/ LoadFails \/ CallerDispatch
           \/ LoopDispatch \/ DisposalSettles \/ CallDone \/ CallIdle
           \/ IdleLooks \/ (\E w \in detached : DetachedSettles(w))
           \/ \E s \in Subs : SubFails(s)
  BY <1>2
     DEF StartReturns, Load, LoadFails, CallerDispatch, LoopDispatch,
         DisposalSettles, CallDone, CallIdle, IdleLooks, DetachedSettles,
         SubFails, FailRun
<1>3. CASE UNCHANGED vars
  BY <1>3
<1>4. CASE Next
  BY <1>1, <1>2, <1>4
     DEF Next, Engine, Stopping, Awaited, World, StopMicrotask
<1> QED
  BY <1>3, <1>4

\* From the moment stop() closes the Subs, phase stays past it.
LEMMA SubsCloseOnce ==
  ASSUME [Next]_vars, phase' \in {"dispose", "final", "stopped"},
         phase \notin {"dispose", "final", "stopped"}
  PROVE  running' = {}
<1>1. CASE CloseSubs
  BY <1>1 DEF CloseSubs
<1>2. CASE \/ UNCHANGED phase \/ Teardown \/ DrainSettles \/ DrainTimesOut
           \/ EndDisposals \/ FinalSave
  BY <1>2 DEF Teardown, DrainSettles, DrainTimesOut, EndDisposals, FinalSave
<1> QED
  BY <1>1, <1>2, PhaseMoves

\* In every run no Sub outlives stop(), nor is started by a late step: stop()
\* closes the gate before anything else, and no step opens it again.
THEOREM SubsEndWithStop == Spec => []NoSubOutlivesStop
<1> DEFINE Shut == phase # "none" => gate # "open"
<1>1. Init => Shut /\ NoSubOutlivesStop
  BY DEF Init, NoSubOutlivesStop
<1>2. ASSUME Shut, NoSubOutlivesStop, [Next]_vars
      PROVE  Shut' /\ NoSubOutlivesStop'
  <2>1. Shut'
    <3>1. CASE phase # "none"
      BY <1>2, <3>1, SubsOnlyStop
    <3>2. CASE phase = "none"
      BY <1>2, <3>2, PhaseMoves
         DEF Teardown, DrainSettles, DrainTimesOut, CloseSubs, EndDisposals,
             FinalSave
    <3> QED
      BY <3>1, <3>2
  <2>2. CASE phase \in {"dispose", "final", "stopped"}
    <3>1. gate # "open" /\ running = {}
      BY <1>2, <2>2 DEF NoSubOutlivesStop
    <3>2. running' \subseteq running
      BY <1>2, <3>1, SubsOnlyStop, ClosedInstallStops
    <3> QED
      BY <2>1, <3>1, <3>2 DEF NoSubOutlivesStop
  <2>3. CASE phase \notin {"dispose", "final", "stopped"}
    BY <1>2, <2>1, <2>3, SubsCloseOnce DEF NoSubOutlivesStop
  <2> QED
    BY <2>1, <2>2, <2>3
<1> QED
  BY <1>1, <1>2, PTL DEF Spec

\* In a run on one lane whose deps do not throw, an open run runs exactly the
\* Subs of the State its listeners last heard.
THEOREM SubsOfTheInstalled ==
  ASSUME OneLaneOnly, ~DepsMayThrow
  PROVE  Spec => []SubsFollowInstalled
<1>1. Init => SubsFollowInstalled
  BY DEF Init, SubsFollowInstalled
<1>2. ASSUME LaneInv, SubsFollowInstalled, [Next]_vars
      PROVE  SubsFollowInstalled'
  <2>1. ASSUME NEW l \in Lanes, Install(l), gate' = "open"
        PROVE  running' = installed'.want
    <3>1. PICK bad \in SUBSET ToStart({}), dead \in SUBSET ToStart({}) :
            /\ running' = (running \ ToStop({}))
                            \cup (ToStart({}) \ (bad \cup dead))
            /\ bad \cup dead # {} => FailRun
            /\ bad = {} => installed' = step[l].next
      BY <2>1 DEF Install
    <3>2. bad = {} /\ dead = {}
      BY <2>1, <3>1 DEF FailRun
    <3>3. gate = "open"
      BY <1>2, <2>1, SubsOnlyStop
    <3>4. running' = state.want
      BY <3>1, <3>2, <3>3 DEF ToStart, ToStop
    <3>5. l = "main" /\ pc["main"] = "install"
      BY <1>2, <2>1, MainLane DEF Install, LaneInv
    <3>6. installed' = state
      BY <1>2, <3>1, <3>2, <3>5 DEF LaneInv, CommitOrder
    <3> QED
      BY <3>4, <3>6
  <2>2. ASSUME ~\E l \in Lanes : Install(l), gate' = "open"
        PROVE  UNCHANGED <<running, installed>>
    <3> USE DEF gateVars, stateVars, lineVars, stepVars, subVars, doneVars, vars
    <3>1. UNCHANGED installed /\ gate = "open"
      BY <1>2, <2>2, SubsOnlyStop
    <3>2. ~CloseSubs /\ \A s \in Subs : ~SubFails(s)
      <4>1. ~CloseSubs
        BY <1>2, <2>2 DEF CloseSubs, LaneInv, GateFollowsStop
      <4> QED
        BY <2>2, <4>1 DEF SubFails, FailRun
    <3>3. ASSUME NEW l \in Lanes,
                 \/ Drop(l) \/ NoTransition(l) \/ Halt(l) \/ Fold(l)
                 \/ NextCmd(l) \/ Finish(l) \/ Reject(l) \/ PassDetached(l)
                 \/ SaveOk(l) \/ SaveFails(l) \/ HandlerReturns(l)
                 \/ HandlerThrows(l) \/ Detach(l)
          PROVE  UNCHANGED running
      BY <3>3
         DEF Drop, NoTransition, Halt, Fold, NextCmd, Finish, Reject,
             PassDetached, SaveOk, SaveFails, HandlerReturns, HandlerThrows,
             Detach
    <3>4. CASE \/ StartReturns \/ Load \/ LoadFails \/ CallerDispatch
               \/ LoopDispatch \/ DisposalSettles \/ CallDone \/ CallIdle
               \/ IdleLooks \/ (\E w \in detached : DetachedSettles(w))
               \/ Teardown \/ DrainSettles \/ DrainTimesOut \/ EndDisposals
               \/ FinalSave
      BY <3>4
         DEF StartReturns, Load, LoadFails, CallerDispatch, LoopDispatch,
             DisposalSettles, CallDone, CallIdle, IdleLooks, DetachedSettles,
             Teardown, DrainSettles, DrainTimesOut, EndDisposals, FinalSave
    <3>5. CASE UNCHANGED vars
      BY <3>5
    <3>6. CASE Next
      <4>1. CASE Engine
        BY <3>1, <2>2, <3>3, <3>4, <4>1 DEF Engine, StopMicrotask
      <4>2. CASE Stopping
        BY <3>2, <3>4, <4>2 DEF Stopping
      <4>3. CASE Awaited
        BY <3>1, <3>3, <3>4, <4>3 DEF Awaited
      <4>4. CASE World
        BY <3>1, <3>2, <3>3, <3>4, <4>4 DEF World
      <4> QED
        BY <3>6, <4>1, <4>2, <4>3, <4>4 DEF Next
    <3> QED
      BY <1>2, <3>1, <3>5, <3>6
  <2>3. CASE gate' = "open" /\ ~\E l \in Lanes : Install(l)
    BY <1>2, <2>2, <2>3, SubsOnlyStop DEF SubsFollowInstalled
  <2> QED
    BY <2>1, <2>3 DEF SubsFollowInstalled
<1>3. Spec => []LaneInv
  BY LaneInvariance
<1> QED
  BY <1>1, <1>2, <1>3, PTL DEF Spec

\* Once the tail is settled no turn, load or Cmd of the lane is to come, and
\* once stop() gave up none is taken.
LEMMA NothingBegins ==
  ASSUME OneLaneOnly, LaneInv, phase = "stopped", [Next]_vars
  PROVE  /\ folded' = folded
         /\ \A l \in Lanes : pc'[l] \in {"save", "cmd"} => pc'[l] = pc[l]
<1> USE DEF gateVars, stateVars, lineVars, stepVars, subVars, doneVars, vars
<1>1. gate # "abandoned" =>
        /\ pc["main"] = "idle"
        /\ \A i \in 1 .. Len(queue["main"]) :
             origin[queue["main"][i]] = "detached"
  BY DEF LaneInv, DrainedLine
<1>2. pc \in [Lanes -> Pcs] /\ OneLane
  BY LineFacts DEF LaneInv
<1>3. ASSUME NEW l \in Lanes
      PROVE  ~Fold(l) /\ ~NextCmd(l)
  <2>1. ASSUME Fold(l) PROVE FALSE
    <3>1. /\ l = "main" /\ gate # "abandoned" /\ queue["main"] # <<>>
          /\ origin[Head(queue["main"])] # "detached"
      BY <1>2, <2>1, MainLane DEF Fold, Serve, Turn
    <3>2. queue["main"] \in Seq(Works)
      BY LineFacts DEF LaneInv
    <3>3. 1 \in 1 .. Len(queue["main"])
            /\ Head(queue["main"]) = queue["main"][1]
      BY <3>1, <3>2
    <3> QED
      BY <1>1, <3>1, <3>3
  <2>2. ASSUME NextCmd(l) PROVE FALSE
    BY <1>1, <1>2, <2>2, MainLane DEF NextCmd
  <2> QED
    BY <2>1, <2>2
<1>4. CASE Load
  <2>1. gate = "abandoned"
    BY <1>1, <1>4 DEF Load
  <2>2. folded' = folded /\ pc' = [pc EXCEPT !["main"] = "install"]
    BY <1>4, <2>1 DEF Load, BeginCommit, FirstOfCommit
  <2> QED
    BY <1>2, <2>2
<1>5. ASSUME NEW l \in Lanes,
             \/ Drop(l) \/ NoTransition(l) \/ Halt(l) \/ Install(l)
             \/ Finish(l) \/ Reject(l) \/ PassDetached(l)
             \/ SaveOk(l) \/ SaveFails(l) \/ HandlerReturns(l)
             \/ HandlerThrows(l) \/ Detach(l)
      PROVE  /\ folded' = folded
             /\ \/ pc' = pc
                \/ \E at \in {"install", "cmds", "throwing", "idle"} :
                     pc' = [pc EXCEPT ![l] = at]
  BY <1>5
     DEF Drop, NoTransition, Halt, Install, Finish, Reject, Settle,
         PassDetached, SaveOk, SaveFails, HandlerReturns, HandlerThrows, Detach
<1>6. ASSUME NEW l \in Lanes,
             \/ pc' = pc
             \/ \E at \in {"install", "cmds", "throwing", "idle"} :
                  pc' = [pc EXCEPT ![l] = at]
      PROVE  \A k \in Lanes : pc'[k] \in {"save", "cmd"} => pc'[k] = pc[k]
  BY <1>2, <1>6
<1>7. CASE \/ StartReturns \/ LoadFails \/ CallerDispatch
           \/ LoopDispatch \/ DisposalSettles \/ CallDone \/ CallIdle
           \/ IdleLooks \/ (\E w \in detached : DetachedSettles(w))
           \/ (\E s \in Subs : SubFails(s)) \/ Teardown \/ DrainSettles
           \/ DrainTimesOut \/ CloseSubs \/ EndDisposals \/ FinalSave
  <2>1. /\ folded' = folded
        /\ pc' = pc \/ pc' = [pc EXCEPT !["main"] = "throwing"]
    BY <1>7
       DEF StartReturns, LoadFails, CallerDispatch, LoopDispatch,
           DisposalSettles, CallDone, CallIdle, IdleLooks, DetachedSettles,
           SubFails, Teardown, DrainSettles, DrainTimesOut, CloseSubs,
           EndDisposals, FinalSave
  <2> QED
    BY <1>6, <2>1 DEF Lanes
<1>8. CASE UNCHANGED vars
  BY <1>8
<1>9. CASE Next
  <2>1. CASE \E l \in Lanes :
               \/ Drop(l) \/ NoTransition(l) \/ Halt(l) \/ Install(l)
               \/ Finish(l) \/ Reject(l) \/ PassDetached(l)
               \/ SaveOk(l) \/ SaveFails(l) \/ HandlerReturns(l)
               \/ HandlerThrows(l) \/ Detach(l)
    BY <1>5, <1>6, <2>1
  <2> QED
    BY <1>3, <1>4, <1>7, <1>9, <2>1
       DEF Next, Engine, Stopping, Awaited, World, StopMicrotask
<1> QED
  BY <1>8, <1>9

\* In a run on one lane nothing begins once stop() has returned: no fold, no
\* store call, no handler, no Sub.
THEOREM StoppedForGood ==
  ASSUME OneLaneOnly
  PROVE  Spec => StaysStopped
<1>1. ASSUME LaneInv, [Next]_vars, phase = "stopped"
      PROVE  /\ folded' = folded /\ running' \subseteq running
             /\ \A l \in Lanes : pc'[l] \in {"save", "cmd"} => pc'[l] = pc[l]
  <2>1. gate # "open"
    BY <1>1 DEF LaneInv, GateFollowsStop
  <2> QED
    BY <1>1, <2>1, NothingBegins, SubsOnlyStop, ClosedInstallStops
<1>2. Spec => []LaneInv
  BY LaneInvariance
<1> QED
  BY <1>1, <1>2, PTL DEF Spec, StaysStopped

\* What is detached is on the line until it has settled; and of what stop() read
\* there, nothing is left once the tail has settled.
DetachedOnLine ==
  \A w \in detached :
    /\ origin[w] = "detached" /\ w <= works
    /\ \E i \in 1 .. Len(queue["main"]) : queue["main"][i] = w

LateOnly ==
  phase \notin {"none", "drain"} /\ gate # "abandoned" =>
    \A i \in 1 .. Len(queue["main"]) : queue["main"][i] > drainTo

\* What a step does to the detached work: a handler detaches, the first on the
\* line has its turn, or at most a work item is made and detached work settles.
DetachMoves ==
  \/ started /\ Detach("main")
  \/ /\ Passed /\ UNCHANGED detached
     /\ origin[Head(queue["main"])] = "detached" => Head(queue["main"]) \notin detached
  \/ /\ detached' \subseteq detached
     /\ UNCHANGED <<queue, works, origin>> \/ (Made /\ (gate # "open" => queue' = queue))

\* Every step does one of the three.
LEMMA DetachSteps ==
  ASSUME OneLaneOnly, OneLane, TypeOK, Next
  PROVE  DetachMoves
<1> USE DEF DetachMoves, lineVars
<1>0. Origins \subseteq {"caller", "loop", "tell"} /\ (queue \in [Lanes -> Seq(Works)])
  BY ConstantTypes DEF TypeOK, LineType
<1>1. CASE Drop("main") \/ NoTransition("main") \/ Halt("main") \/ Fold("main")
           \/ PassDetached("main")
  BY <1>1 DEF Drop, NoTransition, Halt, Fold, PassDetached, Serve, Turn, Leave, Passed
<1>2. ASSUME started, NEW org \in {"caller", "loop", "tell"}, Enqueue(org)
      PROVE  DetachMoves
  BY <1>2, EnqueueMakes DEF Enqueue
<1>3. CASE Install("main")
  BY <1>2, <1>3 DEF Install, OneLaneOnly, OneLane
<1>4. CASE HandlerReturns("main")
  BY <1>2, <1>4 DEF HandlerReturns, Quiet
<1>5. CASE CallerDispatch
  BY <1>0, <1>2, <1>5 DEF CallerDispatch, Quiet
<1>6. CASE LoopDispatch
  BY <1>2, <1>6 DEF LoopDispatch, Quiet, OneLaneOnly, OneLane
<1>7. CASE NextCmd("main") \/ Finish("main") \/ Reject("main") \/ SaveOk("main")
           \/ SaveFails("main") \/ HandlerThrows("main")
  BY <1>7 DEF NextCmd, Finish, Reject, SaveOk, SaveFails, HandlerThrows, Settle
<1>8. CASE \/ StartReturns \/ Load \/ LoadFails
           \/ (\E w \in detached : DetachedSettles(w))
           \/ (\E s \in Subs : SubFails(s)) \/ DisposalSettles
           \/ Teardown \/ DrainSettles \/ DrainTimesOut \/ CloseSubs
           \/ EndDisposals \/ FinalSave \/ CallDone \/ CallIdle \/ IdleLooks
  BY <1>8 DEF StartReturns, Load, LoadFails, DetachedSettles, SubFails,
     DisposalSettles, Teardown, DrainSettles, DrainTimesOut, CloseSubs, EndDisposals,
     FinalSave, CallDone, CallIdle, IdleLooks
<1>9. Detach("main") => started
  BY DEF Detach, Quiet, OneLaneOnly, OneLane
<1> QED
  BY <1>1, <1>9, <1>3, <1>4, <1>5, <1>6, <1>7, <1>8, MainMoves DEF MainSteps

\* Detached work stays on the line.
LEMMA DetachedStay ==
  ASSUME TypeOK, DetachedOnLine, DetachMoves
  PROVE  DetachedOnLine'
<1> DEFINE q == queue["main"]
<1>0. /\ q \in Seq(Works) /\ queue \in [Lanes -> Seq(Works)] /\ "main" \in Lanes
      /\ works \in Nat /\ origin \in [Works -> {"none", "caller", "loop", "tell", "detached"}]
      /\ detached \subseteq Works
  BY ConstantTypes DEF TypeOK, LineType, Lanes
<1>1. CASE started /\ Detach("main")
  <2>1. /\ works' = works + 1 /\ works' \in Works
        /\ origin' = [origin EXCEPT ![works'] = "detached"]
        /\ detached' = detached \cup {works'}
        /\ queue' = [queue EXCEPT !["main"] = Append(@, works')]
    BY <1>0, <1>1, ConstantTypes DEF Detach, Chain, TailLane, Works
  <2>2. queue'["main"] = Append(q, works')
    BY <1>0, <2>1
  <2>3. /\ Len(Append(q, works')) = Len(q) + 1
        /\ \A i \in 1 .. Len(q) : Append(q, works')[i] = q[i]
        /\ Append(q, works')[Len(q) + 1] = works'
        /\ Len(q) \in Nat
    BY <1>0, <2>1
  <2>4. ASSUME NEW w \in detached'
        PROVE  /\ origin'[w] = "detached" /\ w <= works'
               /\ \E i \in 1 .. Len(queue'["main"]) : queue'["main"][i] = w
    <3>1. CASE w = works'
      <4>1. Len(q) + 1 \in 1 .. Len(queue'["main"])
        BY <2>2, <2>3
      <4> QED
        BY <1>0, <2>1, <2>2, <2>3, <3>1, <4>1
    <3>2. CASE w # works'
      <4>1. w \in detached
        BY <2>1, <3>2
      <4>2. PICK i \in 1 .. Len(q) : q[i] = w
        BY <4>1 DEF DetachedOnLine
      <4>3. i \in 1 .. Len(queue'["main"]) /\ queue'["main"][i] = w
        BY <2>2, <2>3, <4>2
      <4>4. origin'[w] = "detached"
        BY <1>0, <2>1, <3>2, <4>1 DEF DetachedOnLine
      <4>5. w <= works'
        BY <1>0, <2>1, <4>1 DEF DetachedOnLine, Works
      <4> QED
        BY <4>3, <4>4, <4>5
    <3> QED
      BY <3>1, <3>2
  <2> QED
    BY <2>4 DEF DetachedOnLine
<1>2. CASE /\ Passed /\ UNCHANGED detached
           /\ origin[Head(q)] = "detached" => Head(q) \notin detached
  <2>1. /\ q # <<>> /\ queue'["main"] = Tail(q) /\ UNCHANGED <<works, origin, detached>>
    BY <1>0, <1>2 DEF Passed
  <2>2. /\ Len(Tail(q)) = Len(q) - 1 /\ Head(q) = q[1]
        /\ \A i \in 1 .. Len(q) : i # 1 => i - 1 \in 1 .. Len(Tail(q)) /\ Tail(q)[i - 1] = q[i]
    BY <1>0, <2>1
  <2>3. ASSUME NEW w \in detached
        PROVE  \E i \in 1 .. Len(Tail(q)) : Tail(q)[i] = w
    <3>1. PICK i \in 1 .. Len(q) : q[i] = w
      BY <2>3 DEF DetachedOnLine
    <3>2. i # 1
      BY <1>2, <2>2, <2>3, <3>1 DEF DetachedOnLine
    <3> QED
      BY <2>2, <3>1, <3>2
  <2> QED
    BY <2>1, <2>3 DEF DetachedOnLine
<1>3. CASE /\ detached' \subseteq detached
           /\ UNCHANGED <<queue, works, origin>>
  BY <1>3 DEF DetachedOnLine
<1>4. CASE detached' \subseteq detached /\ Made
  <2>1. /\ works' = works + 1 /\ works' \in Works
        /\ \A w \in detached : w # works' /\ w <= works'
    BY <1>0, <1>4 DEF Made, DetachedOnLine, Works
  <2>2. \A w \in detached : origin'[w] = origin[w]
    BY <1>0, <1>4, <2>1 DEF Made
  <2>3. \/ queue'["main"] = q
        \/ queue'["main"] = Append(q, works')
    BY <1>0, <1>4 DEF Made
  <2>4. /\ Len(Append(q, works')) = Len(q) + 1 /\ Len(q) \in Nat
        /\ \A i \in 1 .. Len(q) : Append(q, works')[i] = q[i]
    BY <1>0, <2>1
  <2>5. \A i \in 1 .. Len(q) : i \in 1 .. Len(queue'["main"]) /\ queue'["main"][i] = q[i]
    BY <2>3, <2>4
  <2>6. ASSUME NEW w \in detached
        PROVE  \E i \in 1 .. Len(queue'["main"]) : queue'["main"][i] = w
    <3>1. PICK i \in 1 .. Len(q) : q[i] = w
      BY <2>6 DEF DetachedOnLine
    <3> QED
      BY <2>5, <3>1
  <2> QED
    BY <1>4, <2>1, <2>2, <2>6 DEF DetachedOnLine
<1> QED
  BY <1>1, <1>2, <1>3, <1>4 DEF DetachMoves

\* Nothing that stop() read on the tail is put back on the line.
LEMMA LateStays ==
  ASSUME OneLaneOnly, LaneInv, LateOnly, Next
  PROVE  LateOnly'
<1> DEFINE q == queue["main"]
<1>0. /\ q \in Seq(Works) /\ queue \in [Lanes -> Seq(Works)] /\ "main" \in Lanes
      /\ OneLane /\ TypeOK
  BY DEF LaneInv, TypeOK, LineType, Lanes
<1> SUFFICES ASSUME phase' \notin {"none", "drain"}, gate' # "abandoned"
             PROVE  \A i \in 1 .. Len(queue'["main"]) : queue'["main"][i] > drainTo'
  BY DEF LateOnly
<1>1. CASE phase \in {"none", "drain"}
  <2>1. GateMoves
    BY <1>0, GateSteps
  <2>2. phase' # phase
    BY <1>1
  <2>3. Stops
    BY <2>1, <2>2 DEF GateMoves, gateParts, Fails, Halts
  <2>4. UNCHANGED <<queue, drainTo>> /\ TailSettled(drainTo)
    BY <1>1, <2>3 DEF Stops
  <2>5. \A i \in 1 .. Len(q) : q[i] > drainTo
    BY <2>4 DEF TailSettled, OnMain
  <2> QED
    BY <2>4, <2>5
<1>2. CASE phase \notin {"none", "drain"}
  <2>1. GateMoves
    BY <1>0, GateSteps
  <2>2. gate # "abandoned" /\ drainTo' = drainTo
    BY <1>2, <2>1 DEF GateMoves, gateParts, Fails, Halts, Stops
  <2>3. gate # "open" /\ pc["main"] = "idle"
    BY <1>2, <2>2 DEF LaneInv, GateFollowsStop, DrainedLine
  <2>4. queue' = queue \/ Passed
    BY <1>0, <2>3, DetachSteps DEF DetachMoves, Detach
  <2>5. queue'["main"] = q \/ (q # <<>> /\ queue'["main"] = Tail(q))
    BY <1>0, <2>4 DEF Passed
  <2>6. \A i \in 1 .. Len(q) : q[i] > drainTo
    BY <1>2, <2>2 DEF LateOnly
  <2>7. CASE queue'["main"] = q
    BY <2>2, <2>6, <2>7
  <2>8. CASE q # <<>> /\ queue'["main"] = Tail(q)
    <3>1. \A i \in 1 .. Len(Tail(q)) : i + 1 \in 1 .. Len(q) /\ Tail(q)[i] = q[i + 1]
      BY <1>0, <2>8
    <3> QED
      BY <2>2, <2>6, <2>8, <3>1
  <2> QED
    BY <2>5, <2>7, <2>8
<1> QED
  BY <1>1, <1>2

\* In a run on one lane a tail stop() has drained leaves nothing in flight, but
\* for what a handler has detached since stop() read the tail.
THEOREM DrainedIsEmpty ==
  ASSUME OneLaneOnly
  PROVE  Spec => []DrainedLeavesNothing
<1>1. Init => DetachedOnLine /\ LateOnly
  BY DEF Init, DetachedOnLine, LateOnly
<1>2. ASSUME LaneInv, DetachedOnLine, LateOnly, [Next]_vars
      PROVE  DetachedOnLine' /\ LateOnly'
  <2>1. TypeOK /\ OneLane
    BY <1>2 DEF LaneInv
  <2>2. CASE Next
    <3>1. DetachedOnLine'
      BY <1>2, <2>1, <2>2, DetachSteps, DetachedStay
    <3> QED
      BY <1>2, <2>2, <3>1, LateStays
  <2>3. CASE UNCHANGED vars
    BY <1>2, <2>3 DEF vars, lineVars, gateVars, DetachedOnLine, LateOnly
  <2> QED
    BY <1>2, <2>2, <2>3
<1>3. LaneInv /\ DetachedOnLine /\ LateOnly => DrainedLeavesNothing
  <2> SUFFICES ASSUME LaneInv, DetachedOnLine, LateOnly, gate = "closed",
                      phase \in {"dispose", "final", "stopped"}
               PROVE  /\ \A l \in Lanes : pc[l] # "cmd"
                      /\ \A w \in detached : w > drainTo
    BY DEF DrainedLeavesNothing
  <2>1. \A l \in Lanes : pc[l] # "cmd"
    BY DEF LaneInv, OneLane, DrainedLine, Lanes
  <2>2. \A w \in detached : w > drainTo
    BY DEF DetachedOnLine, LateOnly
  <2> QED
    BY <2>1, <2>2
<1>4. Spec => []LaneInv
  BY LaneInvariance
<1> QED
  BY <1>1, <1>2, <1>3, <1>4, PTL DEF Spec

-----------------------------------------------------------------------------
(* What done() and idle() answer.                                          *)

\* What is recorded as saved stays what the store holds.
LEMMA SavedStep ==
  ASSUME OneLaneOnly, LaneInv, SavedIsStored, [Next]_vars
  PROVE  SavedIsStored'
<1> USE DEF gateVars, stateVars, lineVars, stepVars, subVars, doneVars, vars,
            SavedIsStored
<1>1. ASSUME NEW l \in Lanes, SaveOk(l) PROVE SavedIsStored'
  <2>1. l = "main" /\ pc["main"] = "save"
    BY <1>1, MainLane DEF SaveOk, LaneInv
  <2> QED
    BY <1>1, <2>1 DEF SaveOk, LaneInv, CommitOrder
<1>2. ASSUME NEW l \in Lanes,
             \/ Drop(l) \/ NoTransition(l) \/ Halt(l) \/ Install(l)
             \/ NextCmd(l) \/ Finish(l) \/ Reject(l) \/ PassDetached(l)
             \/ HandlerReturns(l) \/ HandlerThrows(l) \/ Detach(l)
      PROVE  SavedIsStored'
  BY <1>2
     DEF Drop, NoTransition, Halt, Install, NextCmd, Finish, Reject,
         PassDetached, HandlerReturns, HandlerThrows, Detach
<1>3. ASSUME NEW l \in Lanes, Fold(l) \/ SaveFails(l) \/ Load
      PROVE  SavedIsStored'
  BY <1>3 DEF Fold, SaveFails, Load, BeginCommit
<1>4. CASE \/ StartReturns \/ LoadFails \/ CallerDispatch
           \/ LoopDispatch \/ DisposalSettles \/ CallDone \/ CallIdle
           \/ IdleLooks \/ (\E w \in detached : DetachedSettles(w))
           \/ (\E s \in Subs : SubFails(s)) \/ Teardown \/ DrainSettles
           \/ DrainTimesOut \/ CloseSubs \/ EndDisposals \/ FinalSave
  BY <1>4
     DEF StartReturns, LoadFails, CallerDispatch, LoopDispatch,
         DisposalSettles, CallDone, CallIdle, IdleLooks, DetachedSettles,
         SubFails, Teardown, DrainSettles, DrainTimesOut, CloseSubs,
         EndDisposals, FinalSave
<1>5. CASE UNCHANGED vars
  BY <1>5
<1>6. CASE Next
  <2>1. CASE Engine
    BY <1>2, <1>3, <1>4, <2>1 DEF Engine, StopMicrotask
  <2>2. CASE Stopping
    BY <1>4, <2>2 DEF Stopping
  <2>3. CASE Awaited
    BY <1>1, <1>2, <1>3, <1>4, <2>3 DEF Awaited, Lanes
  <2>4. CASE World
    BY <1>2, <1>4, <2>4 DEF World
  <2> QED
    BY <1>6, <2>1, <2>2, <2>3, <2>4 DEF Next
<1> QED
  BY <1>5, <1>6

\* done() is answered by the end of a commit, by stop(), or at the call.
LEMMA WhoAnswersDone ==
  ASSUME [Next]_vars, waiter # "resolved", waiter' = "resolved"
  PROVE  \/ \E l \in Lanes :
              (HandlerThrows(l) \/ Finish(l)) /\ Saved /\ step[l].next.term
         \/ state.term /\ Saved
<1> USE DEF gateVars, stateVars, lineVars, stepVars, subVars, doneVars, vars
<1>1. ASSUME NEW l \in Lanes, HandlerThrows(l) \/ Finish(l)
      PROVE  Saved /\ step[l].next.term
  BY <1>1 DEF HandlerThrows, Finish, CommitCallbacks
<1>2. ASSUME NEW l \in Lanes,
             \/ Drop(l) \/ NoTransition(l) \/ Halt(l) \/ Fold(l) \/ Install(l)
             \/ NextCmd(l) \/ Reject(l) \/ PassDetached(l)
             \/ SaveOk(l) \/ SaveFails(l) \/ HandlerReturns(l) \/ Detach(l)
      PROVE  FALSE
  BY <1>2
     DEF Drop, NoTransition, Halt, Fold, Install, FailRun, NextCmd, Reject,
         PassDetached, SaveOk, SaveFails, HandlerReturns, Detach
<1>3. CASE CloseSubs \/ CallDone
  BY <1>3 DEF CloseSubs, CallDone, DoneAnswer
<1>4. CASE \/ StartReturns \/ Load \/ LoadFails \/ CallerDispatch
           \/ LoopDispatch \/ DisposalSettles \/ CallIdle
           \/ IdleLooks \/ (\E w \in detached : DetachedSettles(w))
           \/ (\E s \in Subs : SubFails(s)) \/ Teardown \/ DrainSettles
           \/ DrainTimesOut \/ EndDisposals \/ FinalSave
  <2>1. waiter' = waiter
    BY <1>4
       DEF StartReturns, Load, LoadFails, CallerDispatch, LoopDispatch,
           DisposalSettles, CallIdle, IdleLooks, DetachedSettles, SubFails,
           FailRun, Teardown, DrainSettles, DrainTimesOut, EndDisposals,
           FinalSave
  <2> QED
    BY <2>1
<1>5. CASE Next
  <2>1. CASE Engine
    BY <1>1, <1>2, <1>4, <2>1 DEF Engine, StopMicrotask
  <2>2. CASE Stopping
    BY <1>3, <1>4, <2>2 DEF Stopping
  <2>3. CASE Awaited
    BY <1>1, <1>2, <1>4, <2>3 DEF Awaited
  <2>4. CASE World
    BY <1>2, <1>3, <1>4, <2>4 DEF World
  <2> QED
    BY <1>5, <2>1, <2>2, <2>3, <2>4 DEF Next
<1> QED
  BY <1>5

\* In a run on one lane done() resolves only for a terminal State, and only
\* once the store holds it.
THEOREM DoneMeansSaved ==
  ASSUME OneLaneOnly
  PROVE  Spec => DoneOnlyIfSaved
<1>1. Init => SavedIsStored
  BY DEF Init, SavedIsStored
<1>2. LaneInv /\ SavedIsStored /\ [Next]_vars => SavedIsStored'
  BY SavedStep
<1>3. ASSUME LaneInv, SavedIsStored, [Next]_vars, waiter # "resolved",
             waiter' = "resolved"
      PROVE  state.term /\ (HasStore => stored = state)
  <2>1. ASSUME NEW l \in Lanes, HandlerThrows(l) \/ Finish(l)
        PROVE  step[l].next = state
    <3>1. l = "main" /\ pc["main"] \in {"cmd", "cmds"}
      BY <1>3, <2>1, MainLane DEF HandlerThrows, Finish, LaneInv
    <3> QED
      BY <1>3, <3>1 DEF LaneInv, CommitOrder
  <2>2. state.term /\ Saved
    BY <1>3, <2>1, WhoAnswersDone
  <2> QED
    BY <1>3, <2>2 DEF Saved, SavedIsStored
<1>4. Spec => []LaneInv
  BY LaneInvariance
<1> QED
  BY <1>1, <1>2, <1>3, <1>4, PTL DEF Spec, DoneOnlyIfSaved

\* A step that leaves the line, the fates and the step's Msg alone, and begins
\* no step of a Msg, keeps what the tail stands for.
LEMMA TailFrame ==
  ASSUME FateOfTail, UNCHANGED <<queue, origin, fate>>,
         pc'["main"] # "idle" /\ step'["main"].msg # Boot =>
           pc["main"] # "idle" /\ step'["main"].msg = step["main"].msg
  PROVE  FateOfTail'
BY DEF FateOfTail

\* A new work item joins the tail: a Msg, or a promise that is waited for.
LEMMA TailJoin ==
  ASSUME LaneInv, started, FateOfTail, NEW o, NEW f,
         works + 1 \in Works, works' = works + 1,
         origin' = [origin EXCEPT ![works + 1] = o],
         fate' = [fate EXCEPT ![works + 1] = f], o = "detached" => f = "wait",
         queue' = queue \/ queue' = Chain(works + 1), UNCHANGED step,
         pc'["main"] # "idle" => pc["main"] # "idle"
  PROVE  FateOfTail'
<1> DEFINE q == queue["main"]
           w == works + 1
<1> TypeOK /\ OneLane /\ Numbered
  BY DEF LaneInv
<1>1. \A i \in 1 .. Len(queue'["main"]) :
        \/ i \in 1 .. Len(q) /\ queue'["main"][i] = q[i]
        \/ queue'["main"][i] = w
  <2>1. CASE queue' = Chain(w)
    BY <2>1, ChainKeepsNumbers
  <2>2. CASE queue' = queue
    BY <2>2
  <2> QED
    BY <2>1, <2>2
<1>2. /\ \A v \in Works : v # w => fate'[v] = fate[v] /\ origin'[v] = origin[v]
      /\ fate'[w] = f /\ origin'[w] = o
  BY LineFacts, HistoryFacts
<1>3. \A i \in 1 .. Len(q) : q[i] \in Works /\ q[i] # w
  BY LineFacts DEF Numbered
<1>4. step["main"].msg \in {Boot} \cup Works /\ step["main"].msg # w
  BY LineFacts DEF Numbered, Steps
<1> HIDE DEF q, w
<1>5. \A i \in 1 .. Len(queue'["main"]) :
        origin'[queue'["main"][i]] = "detached" =>
          fate'[queue'["main"][i]] = "wait"
  BY <1>1, <1>2, <1>3 DEF FateOfTail, q
<1>6. pc'["main"] # "idle" /\ step["main"].msg # Boot =>
        fate'[step["main"].msg] = "step"
  BY <1>2, <1>4 DEF FateOfTail
<1> QED
  BY <1>5, <1>6 DEF FateOfTail

\* The turn of a work item keeps what the tail stands for.
LEMMA TailTurn ==
  ASSUME OneLaneOnly, LaneInv, OrderInv, FateOfTail, NEW l \in Lanes,
         Drop(l) \/ NoTransition(l) \/ Halt(l) \/ Fold(l) \/ PassDetached(l)
  PROVE  FateOfTail'
<1> USE DEF gateVars, stateVars, lineVars, stepVars, subVars, doneVars
<1> DEFINE q == queue["main"]
           h == Head(queue["main"])
<1> TypeOK /\ OneLane /\ Numbered
  BY DEF LaneInv
<1>1. l = "main" /\ queue["main"] # <<>> /\ pc["main"] = "idle"
  <2>1. queue[l] # <<>> /\ pc[l] = "idle"
    BY DEF Drop, NoTransition, Halt, Fold, PassDetached, Serve, Turn
  <2> QED
    BY <2>1, MainLane
<1>2. PICK outcome : Leave("main", outcome) /\ (Fold(l) => outcome = "step")
  BY <1>1 DEF Drop, NoTransition, Halt, Fold, PassDetached
<1>3. \A i \in 1 .. Len(queue'["main"]) :
        /\ i + 1 \in 1 .. Len(q) /\ queue'["main"][i] = q[i + 1]
        /\ q[i + 1] \in Works /\ q[i + 1] # h
  <2>1. /\ \A i \in 1 .. Len(queue'["main"]) :
             i + 1 \in 1 .. Len(q) /\ queue'["main"][i] = q[i + 1]
        /\ h = q[1] /\ 1 \in 1 .. Len(q)
    BY <1>1, <1>2, LeaveMoves
  <2>2. ASSUME NEW i \in 1 .. Len(queue'["main"])
        PROVE  q[i + 1] \in Works /\ q[i + 1] # h
    <3>1. i + 1 \in 1 .. Len(q) /\ 1 < i + 1
      BY <2>1, LineFacts
    <3>2. q[1] < q[i + 1]
      BY <2>1, <3>1 DEF OrderInv, LineInOrder
    <3>3. q[1] \in Nat /\ q[i + 1] \in Works /\ q[i + 1] \in Nat
      BY <2>1, <3>1, LineFacts
    <3> QED
      BY <2>1, <3>2, <3>3
  <2> QED
    BY <2>1, <2>2
<1>4. /\ origin' = origin /\ h \in Works /\ fate'[h] = outcome
      /\ \A v \in Works : v # h => fate'[v] = fate[v]
  <2>1. h \in Works
    BY <1>1, LineFacts
  <2> QED
    BY <1>2, <2>1, HistoryFacts DEF Leave
<1>5. \/ pc'["main"] = "idle"
      \/ step'["main"].msg = h /\ outcome = "step"
  <2>1. CASE Fold(l)
    <3>1. PICK s, n : BeginCommit("main", h, s, n)
      BY <1>1, <2>1 DEF Fold
    <3> QED
      BY <1>2, <2>1, <3>1, LineFacts DEF BeginCommit, Step
  <2>2. CASE ~Fold(l)
    BY <1>1, <2>2 DEF Drop, NoTransition, Halt, PassDetached
  <2> QED
    BY <2>1, <2>2
<1> HIDE DEF q, h
<1>6. \A i \in 1 .. Len(queue'["main"]) :
        origin'[queue'["main"][i]] = "detached" =>
          fate'[queue'["main"][i]] = "wait"
  BY <1>3, <1>4 DEF FateOfTail, q
<1> QED
  BY <1>4, <1>5, <1>6 DEF FateOfTail

\* A step that ends stands for nothing any more.
LEMMA TailSettle ==
  ASSUME LaneInv, OrderInv, FateOfTail, NEW outcome,
         Settle("main", outcome)
  PROVE  FateOfTail'
<1> DEFINE q == queue["main"]
           m == step["main"].msg
<1> TypeOK
  BY DEF LaneInv
<1>1. UNCHANGED <<queue, origin>> /\ pc'["main"] = "idle"
  BY LineFacts DEF Settle
<1>2. \A i \in 1 .. Len(q) : q[i] \in Works /\ q[i] # m
  BY LineFacts DEF OrderInv, LineInOrder
<1>3. \A v \in Works : v # m => fate'[v] = fate[v]
  BY HistoryFacts DEF Settle
<1> HIDE DEF q, m
<1> QED
  BY <1>1, <1>2, <1>3 DEF FateOfTail, q

\* Every step keeps what the tail stands for.
LEMMA TailStep ==
  ASSUME OneLaneOnly, LaneInv, OrderInv, FateOfTail, [Next]_vars
  PROVE  FateOfTail'
<1> USE DEF gateVars, stateVars, lineVars, stepVars, subVars, doneVars, vars
<1> TypeOK /\ OneLane
  BY DEF LaneInv
<1>1. ASSUME started, NEW org \in {"caller", "loop", "tell"}, Enqueue(org),
             UNCHANGED step, pc'["main"] # "idle" => pc["main"] # "idle"
      PROVE  FateOfTail'
  <2>1. /\ works + 1 \in Works /\ works' = works + 1
        /\ origin' = [origin EXCEPT ![works + 1] = org]
        /\ queue' = queue \/ queue' = Chain(works + 1)
        /\ \E f : fate' = [fate EXCEPT ![works + 1] = f]
    BY <1>1 DEF Enqueue
  <2> QED
    BY <1>1, <2>1, TailJoin
<1>2. ASSUME NEW l \in Lanes,
             Drop(l) \/ NoTransition(l) \/ Halt(l) \/ Fold(l) \/ PassDetached(l)
      PROVE  FateOfTail'
  BY <1>2, TailTurn
<1>3. ASSUME NEW l \in Lanes, Finish(l) \/ Reject(l)
      PROVE  FateOfTail'
  <2>1. l = "main"
    BY <1>3, MainLane DEF Finish, Reject
  <2>2. PICK outcome : Settle("main", outcome)
    BY <1>3, <2>1 DEF Finish, Reject
  <2> QED
    BY <2>2, TailSettle
<1>4. ASSUME NEW l \in Lanes, HandlerReturns(l) \/ Install(l)
      PROVE  FateOfTail'
  <2>1. /\ UNCHANGED step /\ pc["main"] # "idle"
        /\ (started /\ Enqueue("loop")) \/ UNCHANGED lineVars
    <3>1. started \/ UNCHANGED lineVars
      BY <1>4, MadeOnceStarted
    <3> QED
      BY <1>4, <3>1, MainLane DEF HandlerReturns, Install
  <2> QED
    BY <1>1, <2>1, TailFrame
<1>5. ASSUME NEW l \in Lanes,
             SaveOk(l) \/ SaveFails(l) \/ HandlerThrows(l) \/ NextCmd(l)
      PROVE  FateOfTail'
  <2>1. UNCHANGED <<queue, origin, fate>> /\ pc["main"] # "idle"
    BY <1>5, MainLane DEF SaveOk, SaveFails, HandlerThrows, NextCmd
  <2>2. step'["main"].msg = step["main"].msg
    <3>1. CASE SaveOk(l) \/ SaveFails(l) \/ HandlerThrows(l)
      BY <3>1 DEF SaveOk, SaveFails, HandlerThrows
    <3>2. CASE NextCmd(l)
      <4>1. step' = [step EXCEPT ![l].left = @ - 1]
        BY <3>2 DEF NextCmd
      <4> QED
        BY <4>1, LineFacts DEF Steps
    <3> QED
      BY <1>5, <3>1, <3>2
  <2> QED
    BY <2>1, <2>2, TailFrame
<1>6. ASSUME NEW l \in Lanes, Detach(l)
      PROVE  FateOfTail'
  <2>1. /\ UNCHANGED <<step, pc>>
        /\ works' = works + 1 /\ queue' = Chain(works + 1)
        /\ origin' = [origin EXCEPT ![works + 1] = "detached"]
        /\ fate' = [fate EXCEPT ![works + 1] = "wait"]
        /\ works < MaxWork
    BY <1>6 DEF Detach
  <2>2. works + 1 \in Works
    BY <2>1, LineFacts, ConstantTypes DEF Works
  <2> QED
    BY <1>6, <2>1, <2>2, TailJoin, MadeOnceStarted
<1>7. CASE Load
  <2>1. PICK s, n : BeginCommit("main", Boot, s, n)
    BY <1>7 DEF Load
  <2>2. step'["main"].msg = Boot /\ UNCHANGED <<queue, origin, fate>>
    BY <1>7, <2>1, LineFacts DEF Load, BeginCommit, Step
  <2> QED
    BY <2>2, TailFrame
<1>8. CASE LoadFails
  BY <1>8, TailFrame DEF LoadFails
<1>9. CASE CallerDispatch \/ LoopDispatch
  <2>1. /\ UNCHANGED <<step, pc>>
        /\ \E org \in {"caller", "loop", "tell"} : Enqueue(org)
    BY <1>9, ConstantTypes DEF CallerDispatch, LoopDispatch
  <2> QED
    BY <1>1, <1>9, <2>1, MadeOnceStarted
<1>10. CASE \/ StartReturns \/ DisposalSettles \/ CallDone \/ CallIdle
            \/ IdleLooks \/ (\E w \in detached : DetachedSettles(w))
            \/ (\E s \in Subs : SubFails(s)) \/ Teardown \/ DrainSettles
            \/ DrainTimesOut \/ CloseSubs \/ EndDisposals \/ FinalSave
            \/ UNCHANGED vars
  <2>1. UNCHANGED <<queue, origin, fate, pc, step>>
    BY <1>10
       DEF StartReturns, DisposalSettles, CallDone, CallIdle, IdleLooks,
           DetachedSettles, SubFails, Teardown, DrainSettles, DrainTimesOut,
           CloseSubs, EndDisposals, FinalSave
  <2> QED
    BY <2>1, TailFrame
<1>11. CASE Next
  <2>1. CASE Engine
    BY <1>2, <1>3, <1>4, <1>5, <1>10, <2>1 DEF Engine, StopMicrotask
  <2>2. CASE Stopping
    BY <1>10, <2>2 DEF Stopping
  <2>3. CASE Awaited
    BY <1>4, <1>5, <1>7, <1>8, <1>10, <2>3 DEF Awaited
  <2>4. CASE World
    BY <1>6, <1>9, <1>10, <2>4 DEF World
  <2> QED
    BY <1>11, <2>1, <2>2, <2>3, <2>4 DEF Next
<1> QED
  BY <1>10, <1>11

\* Nothing but its own look answers idle().
LEMMA OnlyIdleLooks ==
  ASSUME [Next]_vars, idle.at = "waiting", idle'.at = "resolved"
  PROVE  IdleLooks
<1> USE DEF gateVars, stateVars, lineVars, stepVars, subVars, doneVars, vars
<1>1. ASSUME NEW l \in Lanes,
             \/ Drop(l) \/ NoTransition(l) \/ Halt(l) \/ Fold(l) \/ Install(l)
             \/ NextCmd(l) \/ Finish(l) \/ Reject(l) \/ PassDetached(l)
             \/ SaveOk(l) \/ SaveFails(l) \/ HandlerReturns(l)
             \/ HandlerThrows(l) \/ Detach(l)
      PROVE  FALSE
  BY <1>1
     DEF Drop, NoTransition, Halt, Fold, Install, NextCmd, Finish, Reject,
         PassDetached, SaveOk, SaveFails, HandlerReturns, HandlerThrows, Detach
<1>2. CASE \/ StartReturns \/ Load \/ LoadFails \/ CallerDispatch
           \/ LoopDispatch \/ DisposalSettles \/ CallDone \/ CallIdle
           \/ (\E w \in detached : DetachedSettles(w))
           \/ (\E s \in Subs : SubFails(s)) \/ Teardown \/ DrainSettles
           \/ DrainTimesOut \/ CloseSubs \/ EndDisposals \/ FinalSave
  <2>1. idle' = idle \/ idle.at = "none"
    BY <1>2
       DEF StartReturns, Load, LoadFails, CallerDispatch, LoopDispatch,
           DisposalSettles, CallDone, CallIdle, DetachedSettles, SubFails,
           Teardown, DrainSettles, DrainTimesOut, CloseSubs, EndDisposals,
           FinalSave
  <2> QED
    BY <2>1
<1>3. CASE Next
  <2>1. CASE Engine
    BY <1>1, <1>2, <2>1 DEF Engine, StopMicrotask
  <2>2. CASE Stopping
    BY <1>2, <2>2 DEF Stopping
  <2>3. CASE Awaited
    BY <1>1, <1>2, <2>3 DEF Awaited
  <2>4. CASE World
    BY <1>1, <1>2, <2>4 DEF World
  <2> QED
    BY <1>3, <2>1, <2>2, <2>3, <2>4 DEF Next
<1> QED
  BY <1>3

\* idle() looks at a settled tail that was only refused since: nothing waits.
LEMMA SameTailIsQuiet ==
  ASSUME LaneInv, OrderInv, FateOfTail, TailSettled(idle.upTo), SameTail
  PROVE  \A l \in Lanes : pc[l] = "idle" /\ queue[l] = <<>>
<1> TypeOK /\ OneLane /\ Numbered
  BY DEF LaneInv
<1>1. idle.upTo \in Nat /\ works \in Nat
  BY LineFacts, ConstantTypes DEF TypeOK, WaitType
<1>2. ASSUME NEW v \in OnMain, v \in Works, v <= works
      PROVE  fate[v] \in {"discarded", "stopped"}
  <2>1. v > idle.upTo /\ v \in Nat
    BY <1>2, LineFacts DEF TailSettled
  <2>2. v \in idle.upTo + 1 .. works
    BY <1>1, <1>2, <2>1
  <2> QED
    BY <2>2 DEF SameTail
<1>3. pc["main"] = "idle"
  <2> SUFFICES ASSUME pc["main"] # "idle" PROVE FALSE
    OBVIOUS
  <2>1. step["main"].msg \in OnMain /\ step["main"].msg \in {Boot} \cup Works
    BY LineFacts DEF OnMain, Steps
  <2>2. step["main"].msg # Boot
    BY <1>1, <2>1 DEF TailSettled, Boot
  <2>3. fate[step["main"].msg] \in {"discarded", "stopped"}
    BY <1>2, <2>1, <2>2 DEF Numbered
  <2> QED
    BY <2>2, <2>3 DEF FateOfTail
<1>4. queue["main"] = <<>>
  <2> SUFFICES ASSUME queue["main"] # <<>> PROVE FALSE
    OBVIOUS
  <2>1. 1 \in 1 .. Len(queue["main"])
    <3>1. queue["main"] \in Seq(Works)
      BY LineFacts
    <3> QED
      BY <3>1
  <2> DEFINE h == queue["main"][1]
  <2>2. h \in OnMain /\ h \in Works /\ h <= works
    BY <2>1, LineFacts DEF OnMain, Numbered
  <2>3. fate[h] \in {"discarded", "stopped"}
    BY <1>2, <2>2
  <2>4. fate[h] \in {"line", "wait"}
    BY <2>1 DEF FateOfTail, OrderInv, FateOfLine
  <2> QED
    BY <2>3, <2>4
<1> QED
  BY <1>3, <1>4 DEF OneLane, Lanes

\* In a run on one lane idle() returns only when no Msg waits and no step
\* runs, whatever was dispatched, refused or detached while it waited.
THEOREM IdleIsQuiescent ==
  ASSUME OneLaneOnly
  PROVE  Spec => IdleMeansQuiescent
<1> DEFINE Returns == idle.at = "waiting" /\ idle'.at = "resolved"
           Quiescent == \A l \in Lanes : pc[l] = "idle" /\ queue[l] = <<>>
<1>1. Init => FateOfTail
  <2> SUFFICES ASSUME Init PROVE FateOfTail
    OBVIOUS
  <2>1. queue["main"] = <<>> /\ step["main"].msg = Boot
    BY DEF Init, Lanes, NoStep, Step
  <2> QED
    BY <2>1 DEF FateOfTail
<1>2. LaneInv /\ OrderInv /\ FateOfTail /\ [Next]_vars => FateOfTail'
  BY TailStep
<1>3. ASSUME LaneInv, OrderInv, FateOfTail, [Next]_vars
      PROVE  Returns => Quiescent
  <2> SUFFICES ASSUME Returns PROVE Quiescent
    OBVIOUS
  <2>1. IdleLooks
    BY <1>3, OnlyIdleLooks
  <2>2. TailSettled(idle.upTo) /\ SameTail
    BY <2>1 DEF IdleLooks
  <2> QED
    BY <1>3, <2>2, SameTailIsQuiet
<1>4. Spec => []LaneInv
  BY LaneInvariance
<1>5. Spec => []OrderInv
  BY OrderInvariance
<1> QED
  BY <1>1, <1>2, <1>3, <1>4, <1>5, PTL DEF Spec, IdleMeansQuiescent
=============================================================================
