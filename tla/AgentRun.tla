------------------------------ MODULE AgentRun ------------------------------
(***************************************************************************)
(* createAgent (packages/tea/src/agent/index.ts): the loop of a brain call *)
(* and the tools it asks for, composed of a monitored run, a fan-out, a    *)
(* resilient slice for the brain and one for the compaction, and the tool  *)
(* ladder.  The host is a durable loop (EngineLoopDurable): it folds a Msg,*)
(* saves, then starts the handlers, so a step here is one fold, and a      *)
(* crash keeps the slice and loses the handlers in flight.  On waking it   *)
(* dispatches what define-agent.ts chooses: a boot, or the next start.     *)
(*                                                                         *)
(* What the model answers is the environment's: a batch of new call ids,   *)
(* perhaps with one twice, or none.  Prompts, usage, checkpoints and the   *)
(* lifecycle notes are left out.                                           *)
(***************************************************************************)
EXTENDS FanOut, MonitoredRun, ToolLadder

CONSTANTS
  AgentCalls,      \* the call ids the model will use, in order
  AgentBare,       \* those of a tool without a policy
  AgentWindow,     \* toolConcurrency
  AgentStages,     \* stages of the pipeline, 0: a single shot
  AgentBrain,      \* resilience of the brain, see ResilientSlice
  AgentCompact,    \* of the compaction
  AgentTool,       \* of a tool
  AgentDelay,      \* backoff
  AgentMaxTurns,   \* config.maxTurns, 0: none
  AgentElapsed,    \* config.maxElapsedMs, 0: none
  AgentWatchdog,   \* config.deadlineMs, 0: none
  AgentStopWhen,   \* the answers of config.stopWhen
  AgentFolds,      \* the answers of planCompaction
  AgentMayCancel,  \* somebody may cancel
  AgentHorizon,    \* bound: the last instant
  AgentMaxCrashes, \* bound: crashes
  AgentMaxStarts   \* bound: starts

AgentIds == {AgentCalls[i] : i \in DOMAIN AgentCalls}
AgentKeys == AgentIds \union {"brain", "compact"}

\* A retry policy is all that createAgent gives the brain and the compaction
\* (index.ts:309, :339), and the ladder a tool, with a timeout
\* (tool-resilience.ts:209).
RetryOnly(c) == c \in Bricks /\ c.threshold = 0 /\ c.ttl = 0 /\ c.capacity = 0

ASSUME AgentAssumption ==
  /\ AgentCalls \in Seq(AgentIds) /\ IsInjective(AgentCalls)
  /\ {"brain", "compact"} \intersect AgentIds = {} /\ AgentBare \subseteq AgentIds
  /\ RetryOnly(AgentBrain) /\ AgentBrain.deadline = 0
  /\ RetryOnly(AgentCompact) /\ AgentCompact.deadline = 0
  /\ RetryOnly(AgentTool)
  /\ AgentWindow \in Nat \ {0} /\ AgentStages \in Nat /\ AgentDelay \in Nat
  /\ AgentMaxTurns \in Nat /\ AgentElapsed \in Nat /\ AgentWatchdog \in Nat
  /\ AgentStopWhen \subseteq BOOLEAN /\ AgentFolds \subseteq Nat
  /\ AgentHorizon \in Nat /\ AgentMaxCrashes \in Nat /\ AgentMaxStarts \in Nat

VARIABLES
  agent,        \* AgentState, the stored one and the one in memory
  agentOut,     \* handlers in flight, by key
  agentRing,    \* timer Msgs rung and not yet folded
  agentHost,    \* "down", "woken" (nothing dispatched yet) or "up"
  agentNow,     \* the clock
  agentCrashes,
  agentUsed,    \* call ids the model has used
  agentSent,    \* history: handlers started, by call id
  agentKilled,  \* history: handlers a crash killed, by call id
  agentLived    \* history: time the host was up with the call live, by call id

agentHistory == <<agentSent, agentKilled, agentLived>>
agentVars == <<agent, agentOut, agentRing, agentHost, agentNow, agentCrashes,
               agentUsed, agentHistory>>

-----------------------------------------------------------------------------
(* The slice.                                                              *)

NoConv == [turns |-> <<>>, records |-> <<>>, count |-> 0, awaiting |-> "none",
           folding |-> 0]
FreshConv == [NoConv EXCEPT !.awaiting = "llm"]

InitAgent ==
  [run |-> InitRun, llm |-> InitSlice(AgentBrain, {"brain"}),
   compaction |-> InitSlice(AgentCompact, {"compact"}),
   ladder |-> InitSlice(AgentTool, AgentIds), tools |-> InitFan,
   conv |-> NoConv, refused |-> <<>>, failure |-> "none", output |-> FALSE]

IsSettled(s) == s.run.phase \in {"done", "failed", "cancelled"} \/ s.failure # "none"
Awaits(s, kind) == ~IsSettled(s) /\ s.conv.awaiting = kind

\* status() of types.ts, for its caller's question.
IsMidRun(s) == s.failure = "none" /\ LiveRun(s.run)

InitAgentHost ==
  /\ agent = InitAgent
  /\ agentOut = [k \in AgentKeys |-> 0]
  /\ agentRing = {}
  /\ agentHost = "woken"
  /\ agentNow = 0 /\ agentCrashes = 0 /\ agentUsed = 0
  /\ agentSent = [k \in AgentIds |-> 0]
  /\ agentKilled = [k \in AgentIds |-> 0]
  /\ agentLived = [k \in AgentIds |-> 0]

\* A verb answers the next slice and the keys of the Cmds.
Verb(s, run) == [s |-> s, run |-> run]
And(r, run) == Verb(r.s, r.run \union run)

InBrain(s, r) == Verb([s EXCEPT !.llm = r.s], r.run)
InCompaction(s, r) == Verb([s EXCEPT !.compaction = r.s], r.run)

FireBrain(s, at) ==
  InBrain(s, Attempt(AgentBrain, s.llm, "brain", at, AgentDelay))

\* What a start keeps of the last run: the slices of the brain and the tools.
StartAgent(s, at) ==
  FireBrain([s EXCEPT !.run = StartRun(@, AgentStages, at), !.conv = FreshConv,
                      !.failure = "none", !.output = FALSE, !.tools = InitFan,
                      !.compaction = InitSlice(AgentCompact, {"compact"}),
                      !.refused = <<>>], at)

-----------------------------------------------------------------------------
(* A turn of the brain.                                                    *)

AdvanceStage(s, at) ==
  LET run == Advance(s.run, at)
  IN IF run.phase = "done"
       THEN Verb([s EXCEPT !.run = run, !.conv = NoConv, !.output = TRUE], {})
       ELSE FireBrain([s EXCEPT !.run = run, !.conv = FreshConv,
                                !.tools = InitFan], at)

MutDedupeByCallId(calls) == calls
DedupeByCallId(calls) ==
  LET new(seen, k) == IF Contains(seen, k) THEN seen ELSE Append(seen, k)
  IN FoldLeft(new, <<>>, calls)

\* The calls the fan-out has just moved to running go through the ladder.
ArmLaunch(s, before, after, at) ==
  LadderLaunch(AgentTool, AgentBare, s.ladder,
               Kept(after, ToSet(after) \ ToSet(before)), at, AgentDelay)

Turn(s, calls, at) ==
  LET told == [s EXCEPT !.conv.turns = Append(@, DedupeByCallId(calls))]
      fan == Scatter(InitFan, DedupeByCallId(calls), AgentWindow).s
      armed == ArmLaunch(s, <<>>, fan.running, at)
  IN IF ~Awaits(s, "llm") THEN Verb(s, {})
     ELSE IF calls = <<>> THEN AdvanceStage(told, at)
     ELSE Verb([told EXCEPT !.conv.awaiting = "tools", !.tools = fan,
                            !.ladder = armed.s, !.run = Progress(@, at)],
               armed.run)

\* A brain call that comes back settles its slice, live run or not.
BrainOkVerb(s, calls, at) ==
  Turn([s EXCEPT !.llm = SettleOk(AgentBrain, @, "brain", at)], calls, at)

BrainErrVerb(s, at) ==
  LET llm == SettleErr(AgentBrain, s.llm, "brain", at, AgentDelay)
  IN Verb([s EXCEPT !.llm = llm,
                    !.failure = IF llm.calls["brain"].phase = "failed"
                                  THEN "llm" ELSE @], {})

-----------------------------------------------------------------------------
(* A tool comes back.                                                      *)

CancelAgent(s) == Verb([s EXCEPT !.run = CancelRun(@)], {})

\* Compacting at folding turns, clamped to what there is; below 2, nothing.
Compacting(s, folding, at) ==
  InCompaction([s EXCEPT !.conv.awaiting = "compacting",
                         !.conv.folding = folding, !.run = Progress(@, at)],
               Attempt(AgentCompact, s.compaction, "compact", at, AgentDelay))

\* The batch is complete: stop, compact or go on, in this order.
BatchDone(s, stop, plan, at, launched) ==
  LET drained == [s EXCEPT !.tools = InitFan]
      folding == MinOf(plan, Len(s.conv.turns))
  IN IF AgentMaxTurns > 0 /\ s.conv.count >= AgentMaxTurns
       THEN Verb([s EXCEPT !.failure = "turn_limit"], {})
     ELSE IF AgentElapsed > 0 /\ at - s.run.startedAt >= AgentElapsed
       THEN Verb([s EXCEPT !.failure = "elapsed_limit"], {})
     ELSE IF stop THEN CancelAgent(s)
     ELSE IF folding >= 2 THEN Compacting(drained, folding, at)
     ELSE And(FireBrain([drained EXCEPT !.run = Progress(@, at)], at), launched)

MutRecordUnstamped(s, k, ok) == [call |-> k, ok |-> ok, turn |-> 0]
Record(s, k, ok) == [call |-> k, ok |-> ok, turn |-> s.conv.count]

\* The ladder has taken the calls that followed into the fan-out.
AfterItem(s, armed, stop, plan, at) ==
  LET turned == [s EXCEPT !.ladder = armed.s, !.conv.count = @ + 1,
                          !.conv.awaiting = "llm"]
  IN IF IsComplete(s.tools) THEN BatchDone(turned, stop, plan, at, armed.run)
     ELSE Verb([s EXCEPT !.ladder = armed.s, !.run = Progress(@, at)], armed.run)

GoOn(s, before, stop, plan, at) ==
  AfterItem(s, ArmLaunch(s, before, s.tools.running, at), stop, plan, at)

SettleTool(s, k, ok, stop, plan, at) ==
  LET status == IF ok THEN "done" ELSE "failed"
      folded == [s EXCEPT
                   !.tools = SettleItem(@, k, status, AgentWindow, FALSE).s,
                   !.refused = IF ok THEN @ ELSE Append(@, k),
                   !.conv.records = Append(@, Record(s, k, ok))]
  IN IF ~Awaits(s, "tools") \/ ~Contains(s.tools.running, k) THEN Verb(s, {})
     ELSE GoOn(folded, s.tools.running, stop, plan, at)

\* What the ladder decided: the calls it gives up on settle as failed.
ApplyLadder(s, r, stop, plan, at) ==
  LET order(v, k) == And(SettleTool(v.s, k, FALSE, stop, plan, at), v.run)
  IN FoldLeft(order, Verb([s EXCEPT !.ladder = r.s], r.run), r.settle)

ToolOkVerb(s, k, stop, plan, at) ==
  IF Contains(s.tools.running, k)
    THEN SettleTool([s EXCEPT !.ladder = LadderOk(AgentTool, AgentBare, @, k, at)],
                    k, TRUE, stop, plan, at)
    ELSE Verb(s, {})

\* The ladder decides whether a failure is final.
ToolErrVerb(s, k, stop, plan, at) ==
  IF Contains(s.tools.running, k)
    THEN ApplyLadder(s, LadderErr(AgentTool, AgentBare, s.ladder, k, at, AgentDelay),
                     stop, plan, at)
    ELSE Verb(s, {})

-----------------------------------------------------------------------------
(* Compaction.                                                             *)

\* The oldest turns become one, and the records of those left move with them.
FoldSummary(conv) ==
  LET n == conv.folding
      kept == Kept(conv.records, {rec \in ToSet(conv.records) : rec.turn >= n})
      moved(rec) == [rec EXCEPT !.turn = @ - (n - 1)]
  IN [conv EXCEPT !.turns = <<<<>>>> \o SubSeq(@, n + 1, Len(@)),
                  !.records = [j \in DOMAIN kept |-> moved(kept[j])],
                  !.awaiting = "llm", !.folding = 0]

CompactOkVerb(s, at) ==
  LET settled == [s EXCEPT !.compaction = SettleOk(AgentCompact, @, "compact", at)]
  IN IF Awaits(s, "compacting")
       THEN FireBrain([settled EXCEPT !.conv = FoldSummary(@)], at)
       ELSE Verb(settled, {})

\* A compaction that gives up goes on without.
CompactErrVerb(s, at) ==
  LET judged == SettleErr(AgentCompact, s.compaction, "compact", at, AgentDelay)
      settled == [s EXCEPT !.compaction = judged]
  IN IF judged.calls["compact"].phase = "waiting_retry" \/ ~Awaits(s, "compacting")
       THEN Verb(settled, {})
       ELSE FireBrain([settled EXCEPT !.conv.awaiting = "llm",
                                      !.conv.folding = 0], at)

-----------------------------------------------------------------------------
(* Timers and boot.                                                        *)

\* Every slice asks for its timers, whatever the phase of the run.
AgentTimers(s) ==
  Deadlines(AgentBrain, s.llm) \union Deadlines(AgentCompact, s.compaction)
    \union Deadlines(AgentTool, s.ladder)
    \union RunDeadlines(s.run, AgentWatchdog)

OnTimerVerb(s, t, stop, plan) ==
  IF t.kind = "safety"
    THEN Verb([s EXCEPT !.run = OnDeadline(@, t.key, t.seq)], {})
  ELSE IF t.key = "compact"
    THEN InCompaction(s, OnTimer(AgentCompact, s.compaction, t, AgentDelay))
  ELSE IF t.key = "brain"
    THEN InBrain(s, OnTimer(AgentBrain, s.llm, t, AgentDelay))
  ELSE ApplyLadder(s, LadderTimer(AgentTool, s.ladder, t, AgentDelay), stop, plan,
                   t.at)

MutRecompact(s, at) == Quiet(s.compaction)
Recompact(s, at) == Attempt(AgentCompact, s.compaction, "compact", at, AgentDelay)

BootVerb(s, stop, plan, at) ==
  LET woken == [s EXCEPT !.run = BootRun(@, at)]
  IN IF IsSettled(woken) \/ s.conv.awaiting = "none" THEN Verb(woken, {})
     ELSE IF s.conv.awaiting = "llm" THEN FireBrain(woken, at)
     ELSE IF s.conv.awaiting = "compacting"
       THEN InCompaction(woken, Recompact(s, at))
     ELSE ApplyLadder(woken,
                      LadderBoot(AgentTool, AgentBare, s.ladder, s.tools.running,
                                 at, AgentDelay),
                      stop, plan, at)

-----------------------------------------------------------------------------
(* The host.                                                               *)

\* A fold: back is the key of the handler whose answer it folds, if any.
Folds(r, back) ==
  /\ agent' = r.s
  /\ agentOut' = [k \in AgentKeys |->
                    agentOut[k] - (IF k \in back THEN 1 ELSE 0)
                                + (IF k \in r.run THEN 1 ELSE 0)]
  /\ agentSent' = [k \in AgentIds |->
                     agentSent[k] + (IF k \in r.run THEN 1 ELSE 0)]
  /\ UNCHANGED <<agentNow, agentCrashes, agentKilled, agentLived>>

Answers(k) == agentHost = "up" /\ agentOut[k] > 0 /\ UNCHANGED <<agentRing, agentHost>>

\* The batches the model may ask for next: new ids, in order.
AgentBatches ==
  LET id(i) == AgentCalls[agentUsed + i]
      left == Len(AgentCalls) - agentUsed
  IN {<<>>} \union (IF left >= 1 THEN {<<id(1)>>, <<id(1), id(1)>>} ELSE {})
            \union (IF left >= 2 THEN {<<id(1), id(2)>>} ELSE {})

BrainOk ==
  \E calls \in AgentBatches :
    /\ Answers("brain")
    /\ Folds(BrainOkVerb(agent, calls, agentNow), {"brain"})
    /\ agentUsed' = agentUsed + Len(DedupeByCallId(calls))

BrainErr ==
  /\ Answers("brain")
  /\ Folds(BrainErrVerb(agent, agentNow), {"brain"})
  /\ UNCHANGED agentUsed

ToolOk(k) ==
  \E stop \in AgentStopWhen, plan \in AgentFolds :
    /\ Answers(k)
    /\ Folds(ToolOkVerb(agent, k, stop, plan, agentNow), {k})
    /\ UNCHANGED agentUsed

ToolErr(k) ==
  \E stop \in AgentStopWhen, plan \in AgentFolds :
    /\ Answers(k)
    /\ Folds(ToolErrVerb(agent, k, stop, plan, agentNow), {k})
    /\ UNCHANGED agentUsed

CompactOk ==
  /\ Answers("compact")
  /\ Folds(CompactOkVerb(agent, agentNow), {"compact"})
  /\ UNCHANGED agentUsed

CompactErr ==
  /\ Answers("compact")
  /\ Folds(CompactErrVerb(agent, agentNow), {"compact"})
  /\ UNCHANGED agentUsed

\* A timer rings when it is due, once, into the line of Msgs.  Msgs already on
\* the line are folded before it, so it may find itself out of date.
TimerRings ==
  \E t \in AgentTimers(agent) :
    /\ agentHost = "up" /\ agentRing = {} /\ t.at <= agentNow
    /\ agentRing' = {t}
    /\ UNCHANGED <<agent, agentOut, agentHost, agentNow, agentCrashes,
                   agentUsed, agentHistory>>

TimerFolds ==
  \E t \in agentRing, stop \in AgentStopWhen, plan \in AgentFolds :
    /\ agentHost = "up"
    /\ agentRing' = {}
    /\ Folds(OnTimerVerb(agent, t, stop, plan), {})
    /\ UNCHANGED <<agentHost, agentUsed>>

Cancel ==
  /\ AgentMayCancel /\ agentHost = "up"
  /\ Folds(CancelAgent(agent), {})
  /\ UNCHANGED <<agentRing, agentHost, agentUsed>>

\* The first Msg of a process: a boot if the stored run is under way.
Begin ==
  \E stop \in AgentStopWhen, plan \in AgentFolds :
    /\ agentHost = "woken"
    /\ agentHost' = "up"
    /\ IF IsMidRun(agent)
         THEN Folds(BootVerb(agent, stop, plan, agentNow), {})
         ELSE /\ agent.run.id < AgentMaxStarts
              /\ Folds(StartAgent(agent, agentNow), {})
    /\ UNCHANGED <<agentRing, agentUsed>>

Crash ==
  /\ agentHost = "up" /\ agentCrashes < AgentMaxCrashes
  /\ agentHost' = "down"
  /\ agentCrashes' = agentCrashes + 1
  /\ agentOut' = [k \in AgentKeys |-> 0]
  /\ agentKilled' = [k \in AgentIds |-> agentKilled[k] + agentOut[k]]
  /\ agentRing' = {}
  /\ UNCHANGED <<agent, agentNow, agentUsed, agentSent, agentLived>>

Wake ==
  /\ agentHost = "down"
  /\ agentHost' = "woken"
  /\ UNCHANGED <<agent, agentOut, agentRing, agentNow, agentCrashes, agentUsed,
                 agentHistory>>

\* While the host is up no timer is overdue: setTimeout is prompt.
AgentTime ==
  /\ agentNow < AgentHorizon
  /\ agentHost = "up" => /\ agentRing = {}
                         /\ \A t \in AgentTimers(agent) : t.at > agentNow
  /\ agentHost # "woken"
  /\ agentNow' = agentNow + 1
  /\ agentLived' = [k \in AgentIds |->
       agentLived[k] +
         (IF agentHost = "up" /\ agent.ladder.calls[k].phase \in LivePhases
            THEN 1 ELSE 0)]
  /\ UNCHANGED <<agent, agentOut, agentRing, agentHost, agentCrashes, agentUsed,
                 agentSent, agentKilled>>

AgentNext ==
  \/ \E k \in AgentIds : ToolOk(k) \/ ToolErr(k)
  \/ BrainOk \/ BrainErr \/ CompactOk \/ CompactErr
  \/ TimerRings \/ TimerFolds \/ Cancel
  \/ Begin \/ Crash \/ Wake \/ AgentTime

AgentSpec == InitAgentHost /\ [][AgentNext]_agentVars

-----------------------------------------------------------------------------
(* Properties.                                                             *)

AgentTypeOK ==
  /\ agent.run.phase \in RunPhases
  /\ agent.conv.awaiting \in {"none", "llm", "tools", "compacting"}
  /\ agent.conv.records \in Seq([call : AgentIds, ok : BOOLEAN, turn : Nat])
  /\ agentOut \in [AgentKeys -> Nat]
  /\ agentHost \in {"down", "woken", "up"}
  /\ agentNow \in 0 .. AgentHorizon

(* The model is never asked to go on from a turn that has an unanswered    *)
(* tool call, nor from one answered twice, however the answers, the        *)
(* timeouts, the retries and the crashes fell: settleTool folds each call  *)
(* of the batch once, and only a complete batch fires the brain.           *)
EveryCallAnsweredOnce ==
  agent.conv.awaiting # "tools" =>
    \A i \in DOMAIN agent.conv.turns, k \in AgentIds :
      Contains(agent.conv.turns[i], k) =>
        Cardinality({j \in DOMAIN agent.conv.records :
                       agent.conv.records[j].call = k}) = 1

(* A live run is never stuck: while the host is up there is a handler in   *)
(* flight or a timer armed that will move it ("re-emits the ONE            *)
(* outstanding effect derived from phase x awaiting", boot).               *)
NeverStuck ==
  agentHost = "up" /\ ~IsSettled(agent) =>
    \/ \E k \in AgentKeys : agentOut[k] > 0
    \/ \E t \in AgentTimers(agent) : t.kind # "safety"
    \/ agentRing # {}

(* The ladder's budget survives the process: a tool's handler starts at    *)
(* most maxAttempts times, and once more for each crash that killed it     *)
(* ("buy an attempt the budget never granted and reset the count that      *)
(* survived the kill", boot).                                              *)
AttemptsAreBudgeted ==
  \A k \in AgentIds :
    agentSent[k] <= agentKilled[k] +
      (IF k \in AgentBare \/ AgentTool.attempts = 0 THEN 1 ELSE AgentTool.attempts)

(* "Cancel ... from here isSettled holds, so every later Msg folds to a    *)
(* no-op and issues nothing" (index.ts:1320): a settled run starts no      *)
(* handler, unless a new run is started.                                   *)
SettledIssuesNothing ==
  [][IsSettled(agent) /\ agent'.run.id = agent.run.id =>
       \A k \in AgentKeys : agentOut'[k] <= agentOut[k]]_agentVars

(* "At settle time conv.turnCount equals the index in turns of the turn    *)
(* that scattered this batch" (index.ts:841): each record names the turn   *)
(* that asked for it (turns are numbered from 0).                          *)
RecordsNameTheirTurn ==
  \A j \in DOMAIN agent.conv.records :
    LET rec == agent.conv.records[j]
    IN /\ rec.turn + 1 \in DOMAIN agent.conv.turns
       /\ Contains(agent.conv.turns[rec.turn + 1], rec.call)

(* A tool call that times out had its whole budget: "this is what keeps    *)
(* DOWNTIME out of the budget" (resilient-call/index.ts:923).              *)
DowntimeIsFree ==
  [][\A k \in AgentIds :
       /\ k \notin AgentBare
       /\ \E t \in agentRing : t.kind = "deadline" /\ t.key = k
       /\ agentRing' = {} /\ agentHost' = "up"
       /\ Contains(agent'.refused, k) /\ ~Contains(agent.refused, k)
       => agentLived[k] >= AgentTool.deadline]_agentVars
=============================================================================
