# A TLA+ verification of demlik

This directory models the parts of the repository that hold state under
interleavings, failures and restarts, checks them with TLC on small instances
and proves the main results with TLAPS for every instance. Paths below are
relative to `packages/tea/src/` unless they begin with `packages/`.

## The system

`@demlik/tea` runs a *machine*: a pure fold `(State, Msg) -> (State, Cmds)`, a
set of *Subs* a State wants running, and handlers that carry out the Cmds. Around the
loop are *batteries*: slices of State with pure verbs that a machine composes
(an agent, a retried call, a poller), and hosts (files, Durable Objects, React,
a browser extension). The other three packages (`code-graph`, `backlog-sweep`,
`structure-sweep`) are batch programs over a source tree; of these only
`structure-sweep move apply` has to survive being cut short.

| part | state it keeps | operations | hard behaviour |
|---|---|---|---|
| run loop, `internal/engine/loop.ts`, `builtins.ts` | `state`, `installed`, `saveStatus`, `gate`, `tail`, the line, `subRegistry`, in-flight work, pending disposals | dispatch, tell, boot, commit (save, reconcile, listeners, Cmds, callbacks), detach, stop, done, idle | every await is an interleaving point; save, load, handlers, Subs and disposals fail or never end; stop() may come anywhere and gives up after a limit |
| fenced file store, `node/` | lock file and steal guard, state file, version stamp, the version a run last saw | lock, steal, load, save, delete | several processes, crashes between two file operations |
| Durable Object host, `do/` | event log, meta and snapshot cells, owed effects, intake ledger, projections | append, snapshot, load, step, owe, confirm, settle | un-awaited appends, eviction between two puts, re-POSTs |
| resilience, `internal/resilience/` | breaker, bucket, cache, attempts and budget of a call; who holds a token | attempt, gate, settle, timer, refresh | stale timers, late successes, a 401 for several calls at once |
| flow, `internal/flow/` | cursor and ledger of a plan, poll instant, saga log, fan-out lists, stages and watchdog of a run, the open window of a batch | answers, timers, compensation, boot | late and duplicate answers, evictions between any two of them |
| work queue, journal, intake | the queue in a shared store, push and pull watermarks, processed keys | claim, mark, sync, receive | load-change-save around awaits, overlapping syncs, redelivery |
| agent, `agent/` | phase, transcript, tools in flight, retry slices, compaction | start, brain and tool answers, compaction, cancel, timers, boot | every answer may be late, repeated or lost with the process |
| react host, `react/mounted-run.ts` | phase of one mounted run, held Msgs | connect, disconnect, retire, send | a cleanup judged one microtask late |
| Effect host, `effect/` | the table of children, the handle of a run whose Layer is being built | spawn, stop, attach, post | scopes closed and callers interrupted anywhere |
| subs, `subs/` | what each Sub holds open, by key | start, stop, release | opening throws half way, releases outlast the stop |
| extension bridge, `extension/` | the State a surface shows | hydrate, broadcast, dispatch | the worker stops at any time, nothing is sent twice |
| timing and jev, `internal/timing/`, `internal/jev/` | the sample held, the last emission; batches, answers and failures by key | input, flush; add, settle | timers and Msgs late |
| file moves, `packages/structure-sweep/src/move/` | the working tree, HEAD and its trailer | rename commit, rewrite commit, re-run | cut short anywhere, cleaned up by hand |

What makes each part correct:

* **loop**: one transition at a time, in the order Msgs were accepted; a State is
  stored before any effect of it runs; the Subs that run are those of the last
  State the listeners heard; every promise handed out settles; stop() returns,
  after which nothing begins and nothing of value is lost unreported.
* **fenced store**: one holder of the lock; a save succeeds only over what its
  run has seen, so of two live writers one is refused.
* **durable host**: what is loaded after a crash is the fold of the events that
  were logged; an effect owed is carried out, once where the receiver dedupes.
* **batteries**: a late, duplicate or stale answer changes nothing it must not;
  what waits has something that will move it; what was begun is finished, undone,
  or said to be unfinished; what is opened is closed.

## Modules

| module | what it models |
|---|---|
| `EngineLoop` | the run loop: `startLoop` with the supervision and terminality extensions |
| `DurableRun`, `EngineLoopDurable` | what a run with a store promises, abstractly; the refinement mapping and the inductive invariant of a run on one lane |
| `FileLock`, `FencedFile` | the lock file and its steal guard over processes that end; the fenced store on top of it |
| `EventLog`, `EventSourcedStore` | what an event-sourced actor promises, abstractly; its log, snapshots and evictions |
| `OwedEffects` | round trips owed, re-issued and confirmed (`do/deferred-gateway.ts`, `durable-effects.ts`, `resume.ts`, `idempotent-effect.ts`) |
| `StepPull` | the pull carrier and its hands (`do/step-host.ts`) |
| `Workflow` | the durable workflow and its grain (`internal/flow/workflow/`) |
| `ResilientSlice`, `AuthedCall` | the resilient call with its bricks; the authed call over it |
| `QueueOps`, `FanOut`, `MonitoredRun`, `ToolLadder`, `AgentRun` | the agent and the batteries it is composed of |
| `Kept` | `Array.prototype.filter`, as a recursive function |
| `WorkQueue`, `JournalSync`, `Intake` | the queue over a store, the sync client, the idempotent intake |
| `ReconcilePass`, `Poller`, `Saga`, `BatchWindow` | the other flow batteries |
| `ThrottledInput`, `ClassifyBatch` | the throttled input; the classified batches of jev (over `FanOut`) |
| `MountedRun` | `useMachine`'s run and its Sub gate |
| `Children`, `HostedRun`, `SubHandles` | spawned children; a run in a `ManagedRuntime`; what Subs hold open |
| `Bridge` | the runtime bridge of a browser extension |
| `MoveApply` | `structure-sweep move apply` |
| `EngineLoopProof` | theorems: the run loop |
| `FencedFileProof` | theorems: the lock and the fenced store |
| `HostsProof` | theorems: mount, hosted run, Sub handles, children |
| `CallsProof` | theorems: authed call, throttled input, classified batches; lemmas on folds and filters |
| `StoresProof` | theorems: event-sourced store, pull carrier, journals, bridge, owed effects |
| `FlowProof` | theorems: poller, reconciler, saga, moves, queue, batch window, intake, workflow |
| `AgentProof` | theorems: the agent |
| `BatteriesProof` | theorems: what a run checks of several parts at once |
| `MCEngineLoop`, `MCFencedFile`, `MCWorkflow`, `MCAgentRun`, `MCBatteries` | the small instances TLC runs |

The composition follows the code's: `AgentRun` holds a `MonitoredRun`, a `FanOut`
(over `QueueOps`), a `ToolLadder` and two `ResilientSlice`s in one State, as
`createAgent` does; `ReconcilePass` fetches its pages through a `ResilientSlice`;
`FencedFile` runs under `FileLock`. Battery verbs are pure in the code, so they
are operators here that answer the next slice and the Cmds; the actions of the
module that holds the slice call them, and are whole folds.

An operator `MutX` beside a definition `X` is a plausible bug: put in its place
it breaks the property it is listed with in `PROJECT.json`. Nothing else uses it.

### EngineLoop

JavaScript runs one callback at a time, so an action is the code between two
awaits. Where such a stretch reads and changes too much for one action (the
listeners and the Cmds of `commit`) it is cut into several, and `Quiet` keeps
every other action out until the stretch is over.

| in the module | in the code |
|---|---|
| `gate` | the gate of `loop.ts`: open, draining, closed; "abandoned" is a closed gate whose drain timed out |
| `queue`, `pc`, `step` | the promise chain `tail`: what is chained and not begun, and where the current step is. Two lanes, because `tail` is replaced when `startLoop` returns: what was chained on the old one runs beside the boot ("fork") |
| `works`, `origin`, `fate` | the Msgs and detached promises made, who made each, what its dispatch was answered with; `OnLine` is `MsgLine` |
| `state`, `installed`, `saveStatus`, `stored`, `bootError` | the variables of those names; `stored` is the store's content |
| `running`, `disposals` | `subRegistry`, `pendingDisposals` |
| `phase`, `drainTo`, `counted`, `flushed`, `stopDue` | where `teardown` is, the tail it waits for, what its notice counted, its final save, and the microtask a failure queues |
| `failure`, `stoppedBy`, `waiter`, `idle` | terminality's flags, one caller of `done()`, one of `idle()` |
| `Load`, `LoadFails`, `StartReturns` | `boot`, and the assignment of `tail` |
| `Drop`, `NoTransition`, `Halt`, `Fold` | a Msg's turn in `enqueueStep`: given up, refused, halting, folded |
| `SaveOk`, `SaveFails`, `Install`, `NextCmd`, `HandlerReturns`, `HandlerThrows`, `Finish`, `Reject` | `commit`, await by await |
| `CallerDispatch`, `LoopDispatch`, `Detach`, `DetachedSettles`, `PassDetached` | `enqueueDispatch`, `detachInFlight` |
| `SubFails`, `DisposalSettles` | `subFailed`, `trackDisposal` |
| `Teardown`, `StopMicrotask`, `DrainSettles`, `DrainTimesOut`, `CloseSubs`, `EndDisposals`, `FinalSave` | `stop()` |
| `CallDone`, `CallIdle`, `IdleLooks` | `done()`, `idle()` |

A State is the number of the fold that made it, the Subs it wants and whether it
is terminal; a machine is any choice of these (`Wants`, `Terms`, `CmdCounts`).
The number of Cmds a transition emits is all the loop needs to know of them.

Abstractions a reader should know: the order in which independent promise
callbacks run is arbitrary; several disposals are a count; a throw out of boot
reaches `bootError` at a quiet moment, as its rejection does. Not modelled: a
Sub entry's `gate`, a `stop()` called from inside a listener, observers and
telemetry (they read), and the Cmd edge (it wraps a handler's result).

### FileLock and FencedFile

An action is one file operation of one process. `lock` says who made the lock
file and whether its stamp is in it, `guard` who made `<lock>.steal`; `pc` is
where each process is in `acquireFileLock` and `stealIfStillStale`, `seen` the
text it read. `Judges` keeps the read and the stat of `inspectLock` apart. A
process may end between any two operations (`End`); its files stay.

Ages follow one rule: a file can be older than `graceMs` only if whoever made it
is gone. That is the code's own assumption that a live writer is never two
seconds between two file operations. A process id used again, and the clock step
`file-lock.ts:34` warns of, are outside it.

`FencedFile` adds `bytes` and `stamp` (the two files), and per process what its
run is doing, the `version` it last saw (of the fencing extension) and its
`state`: the set of Msgs folded into it, one more per save. `acked` and `ousted`
are histories: the Msgs of completed saves, and the runs that another's save or a
delete has ousted. A load takes no lock and reads in `LoadOrder`; `Compare`,
`WriteBytes`, `WriteStamp` and the two unlinks are under it.

### EventSourcedStore

`events`, `meta` and `snapshot` are the storage cells, the rest is the memory of
an activation. An append (`writers`) is followed from await to await; an eviction
(`Evict`) takes the memory and what was not put. A State is the sequence of Msgs
folded into it, so that a repeated or a lost event shows. `AwaitsAppends` says
that the host lets a turn's append settle before the next turn, as
`workflowGrain.deliver` does and as `snapshotNow` asks; `PutsLandTogether` is the
code's statement (line 423) about Durable Object storage. Storage itself is
external: it writes what it is given, in order. Boot is taken to save the State
it loaded, that is, `init` returns the State it is given.

### The other modules

Each module's header names its files and its environment, each variable is
commented with the code's own. Here, what stands for what, and what a reader
might miss. Throughout, an action is one callback: one fold with everything its
verb does, or the code between two awaits; an answer may come late and in any
order; a crash or eviction keeps what the code stores and loses handlers,
timers and Msgs on their way; instants are small naturals.

* **ResilientSlice** (`internal/resilience/`). `Gate` is the order of
  `resilient-call`: cache, breaker, bucket, budget; `Attempt`, `Resume`,
  `SettleOk`, `SettleErr`, `OnTimer`, `Deadlines` are the verbs. Left out: the
  `maxElapsed` retry policy, the slice's own clock (it only turns an instant into
  a delay), inputs and results.
* **AuthedCall**. `authed` is the slice (resilience, `stale`, `authRetry`,
  `parked`); `Got401`, `TokenRefreshed`, `RefreshFailed`, `RunOk`, `RunErr`,
  `TimerDue` are the cells its header wires. The host stays up.
* **AgentRun** with `MonitoredRun`, `FanOut`, `ToolLadder`. `agent` is
  `AgentState`; `StartAgent`, `Turn`, `SettleTool`, `CompactOkVerb`, ... are the
  verbs of `createAgent`; `Folds` is one transition: save, then start the
  handlers. `Begin` is what `define-agent.ts` dispatches when a process starts.
  The model picks what the brain asks for (a batch of new ids, perhaps one
  twice in it; a call id never comes again in a later turn), `stopWhen` and
  `planCompaction`. Left out: prompts, usage, checkpoints,
  lifecycle notes; one tool name has a policy.
* **OwedEffects**. `oweLog` is the durable log, of which the ledger and the
  applied keys are folds, as in the code; `oweGate` is the volatile gateway. The
  consumer is the one the headers of those files describe. `Reissued` is the awaits
  of `reissueSurvivingEffects`, one survivor after the other.
* **Workflow**. `wfLive` is the recorder's model, `wfLog` and `wfSnapshot` are
  durable, `wfAppends` and `wfPuts` are the events and the snapshots being put, one
  after the other (`AppendLands`, `SnapshotLands`), `wfChains` where each caller of
  `deliver` is. The event and its meta cell land together, as
  `event-sourced-store.ts:423` says; the snapshot is a put of its own. Plans are of
  steps with and without a compensation. `wfAnew` marks that an activation has folded
  results onto an older snapshot.
* **StepPull**. A POST at the host moves through `Handle`, `ResumeLands`,
  `Complete`; `stepIntake` is the ledger in memory; the hands are `Drive`. The
  engine and the deferral hook are idempotent, as their comments ask. The
  capability token and the give-up alarm are left out.
* **WorkQueue** over `QueueOps`: a client's operation is its load and its save;
  **JournalSync**: a sync is followed from await to await, with the default
  stores in memory, so a client that restarts is a new one, and a durable client's
  restart is left out; **Intake**: wired as its test's wired machine, a worker
  answers or dies, a host keeps every key or lets keys age and clears items in
  the completing step.
* **ReconcilePass**: scan, plan, apply over the paginated walk; each apply is told
  at most once. **Poller**: the machine its header wires. **Saga**: the slice and
  the one Cmd or answer in flight; a host that was down performs the Cmd its
  slice names, and keyed effects that stand answer well.
* **BatchWindow** and **ThrottledInput** run on a line of Msgs, so timers and
  samples are folded after the instant they name; the window ships through a Cmd
  after its save.
* **ClassifyBatch**: the window of items, the fan-out of batches, the cache and the
  failure marks in one slice. An item is its key, an ask answers all its keys or
  errs, stamps are the instants of the folds.
* **MountedRun**: `screen` is what React made of the component, `mountTasks` the
  microtasks in which a disconnect is judged. **HostedRun** is the handle `runIn`
  gives it instead of a run.
* **Children**: `spawning` is how far a spawn is, `scope` and `table` what `stop`
  and the finalizers change. Of the Effect library both modules assume only what
  their headers say of Scopes and Fibers. `run.stop()` on a child leaves its
  entry, as documented, and is left out.
* **SubHandles**: `handleTable` is the battery's table by key, `handles` what is
  really open; `AsksFor` is one pass of `reconcileSubs`.
* **Bridge**: what the worker and the surfaces send is delivered in order; the
  worker stops at any time. The history backlog, parsing, the tab filter and the
  acknowledgement are left out.
* **MoveApply**: `moveHead` and `moveTree` are what is renamed and rewritten in
  HEAD and in the working tree, `moveTop` HEAD's trailer. `BeginApply` reads git
  and plans, the rest are the writes and the two commits; `CutShort` comes
  between any two. Refusals before the first commit change nothing and are left
  out, as are the formatter and the lockfile; to discard is to go back to HEAD.

## What the runs check

| run | instance | question, and what it shows |
|---|---|---|
| `loop_durable` | a store, three work items (two with a caller of done() and terminal States, or with a caller of idle() and detached work), one Sub, callers and the loop as senders, eager runners | Saves before effects, accepted order, drops accounted for, a drained line empty, Subs those of the installed State, nothing begun after stop(), `DurableRun` implemented; done() resolves only for a stored terminal State and hears of what closed the run; idle() returns at rest. |
| `loop_live` | two work items, with a store (tells, detached work) and without one ("restart", dispatches while `startLoop` runs) | stop() returns, a failure stops the run, every accepted dispatch is answered. |
| `fenced_file` | three processes, two saves, a delete, one process ending, five ways to find the files | One holder; no completed save lost; a foreign lock never stolen; a run ousted by a save stays out. |
| `batteries` | one part at a time, below | The promises of every other part. |
| `loop_done_deps`, `loop_fork`, `fenced_guard`, `event_log_unawaited`, `workflow_ids`, `agent_compact`, `agent_cancel`, `gateway_reissue` | small | violations, see Findings |

`batteries` is a union: the parts share no state in the code, so a behaviour is
one of one part (`part`, chosen in the initial state) while the others rest where
they begin. Its properties, and the sizes of the parts' state spaces:

| part | states | property | says |
|---|---|---|---|
| event-sourced store | 18k | `SnapshotFoldsItsEvents`, `LogIsTheState`, `ReplayIsBounded`, `ImplementsEventLog` | what a load after an eviction gives is what was applied |
| agent | 123k | `EveryCallAnsweredOnce`, `NeverStuck`, `AttemptsAreBudgeted` | no call answered twice or dropped, a live run always has something that moves it, a retry budget is never exceeded but by what a crash took |
| authed call | 86k | `WaitingIsLive` (ParkedIsLive), `BreakerShields` | a parked call has a refresh coming; an open circuit lets nothing pass but its probes |
| owed effects | 18k | `UnansweredIsOwed`, `DoneOnce` (EffectivelyOnce) | a call without an answer is owed across evictions; its write is made once |
| workflow, saga | 157k, 0.1k | `NothingHalfDone` (EffectsAreExact, SagaIsExact) | one id names one effect; an abort undoes exactly what stands, newest first |
| file moves | 4k | `NothingHalfDone` (MovesAreWhole) | wherever a run is cut short, two commits come of it and nothing names an old path |
| pull carrier | 65k | `StepsGoThrough` | no acknowledged result is missing from the checkpoint |
| queue | 21k | `LoneOpsStick` | what an operation that met no other one did, stays done |
| journal, bridge | 86k, 25k | `ReplicasAgree` | clients and surfaces agree once the messages are through |
| reconciler, poller | 5k, 4k | `PassIsExact`, `NeverSilent` | every page once, every change; an unfinished poller always has a timer or a fetch |
| intake, batch window | 0.7k, 1.2k | `DoneOnce` (WorkIsDoneOnce, BatchesAreExact) | a payload is worked once, an item leaves in one batch |
| throttled input, classified batches | 27k, 14k | `WaitingIsLive` (GateHolds, AnswersAreTrue) | a held sample has a timer and the cap holds; a polled key is told of its last attempt |
| React mount | 25k | `RunFollowsScreen` | one run up, stopped when the tree is gone, no Msg lost |
| children, hosted run, Sub handles | 9k, 1.2k, 1.1k | `ScopesHold` | what is open is known and ends with its run |

Why these bounds are enough for what is asked. Loop: each hazard needs one
step under way, one Msg behind it and one accepted or refused while stop() runs:
three work items; two where a caller watches as well, or work is detached, as each
of these takes a work item's place beside the step (`Within`). There is one Sub,
wanted or not, and at most one Cmd; the theorems on the loop are for any number of
both. Fenced file: three processes because a wrong steal needs one holder and
two stealers; two saves because a lost one needs a writer and an overwriter.
Event log: a second snapshot over events of an earlier activation needs four
events and one eviction, and eight and three leave room for a repetition.

Agent: two calls with a window of one are one running and one behind it in one
turn, or a turn or a stage each; one of them is of a tool without a policy. Two
attempts and a tool deadline of two in a horizon of four let a first attempt
time out or fail and a second race the crash; three turns let a compaction come
between two of them. Authed: two calls are what one
refresh must serve, and a horizon of four lets a deadline, a cooldown and a
probe follow each other. Owed: two calls and two evictions, because a re-issue
of a re-issue is the third kind of id. Workflow: four steps, the second without
a compensation, two evictions; snapshots after every second result, or none, so that
an activation finds none, or one of all the log. It is followed until one finds an
older one (`wfAnew`): that is `workflow_ids`. Pull
carrier: a first POST in resume, its repeat, an eviction and a second step.
Queue and journal: two clients, of which one of the journal's may overlap its
own syncs; two records are one counted too often and one never pushed. Moves:
two rows so that a rename commit can hold a part of the plan, two cuts and two
commits by hand, with every choice of what names the files. The remaining parts
are checked to the end of their small state spaces with at least two of
everything that can collide.

## Fairness

Only `EngineLoop` claims liveness. `Engine` is what the JavaScript engine runs
by itself (promise callbacks, the microtask of a failure) and `Stopping` is
`stop()` with its timers: both weakly fair, because a due callback is run and an
armed timer fires. In `Stopping` is the final save: ADR 0025 leaves it without a
limit, so that stop() returns is claimed only for a store that answers. Nothing
is assumed of handlers, other saves, loads, disposals or callers. `DispatchSettles`
is the exception its statement names: where what the loop awaits settles
(`WF_vars(Awaited)`), every accepted dispatch is answered.

## What is proved

For every value of the constants, by TLAPS:

* `EngineLoopProof`: the loop keeps its types (`TypeCorrect`), and done() is answered
  (`DoneIsHeard`) on one lane (`OneLaneOnly`: a store, or no runner or handler
  that dispatches while `startLoop` is on the stack) where no `deps` throw. A caller
  may still wait only while the step under way, a stop or the failure that began one
  will tell it (`CommitTells`, `WaiterIsHeard`), and that needs that nothing folds
  once stop() has closed the Subs: what is on the line by then is detached
  (`TailDrains`), and a failure has begun a stop (`FailureCloses`). Both
  hypotheses are needed. `loop_done_deps` is what throwing `deps` do. Without a store,
  a runner's dispatch during `startLoop` lands on the line stop() does not wait for,
  and a Msg that halts there after the Subs were closed leaves a later done()
  unanswered (TLC, `HasStore = FALSE`, `EagerStart = TRUE`, strategy "stop").
* `EngineLoopProof`: a run with a store saves before its effects
  (`SavesBeforeEffects`) and implements `DurableRun` (`ImplementsDurable`).
  `SaveBeforeEffects` is not inductive: that `stored` is still the step's State
  when a handler runs needs that no other step runs (`OneLane`), that the gate
  was not given up on between the save and the handler (`GateFollowsStop`,
  `CommitOrder`), and that the final save of a stop cannot find a step under way
  in a run that drained (`DrainedLine`, which needs work items to be `Numbered`
  as they join). `LaneInv` is the conjunction; it is inductive for every run on one
  lane, because what makes a work item has `startLoop` behind it
  (`MadeOnceStarted`). The proof goes action by action, with a lemma for what joins
  and leaves the line.
* `EngineLoopProof`, of every run on one lane, with a store or without, what else the
  loop's runs check. `StaysStopped` (`StoppedForGood`) and, if no `deps` throw,
  `SubsFollowInstalled` (`SubsOfTheInstalled`) need `LaneInv` and no more;
  `DoneOnlyIfSaved` (`DoneMeansSaved`) needs also that a State recorded as saved is
  what the store holds (`SavedIsStored`), and `DrainedLeavesNothing`
  (`DrainedIsEmpty`) that detached work is on the line from when it is detached until
  it settles (`DetachedOnLine`), and that what a drained line holds came after the
  tail stop() awaited (`LateOnly`). `FoldsInOrder`
  (`FoldsFollowDispatch`) and `DropsAreCounted` (`DropsCounted`) rest on `OrderInv`:
  the line is in the order its items were made, behind the step and behind every
  Msg folded (`LineInOrder`), a Msg has the fate "line" exactly while it waits
  (`FateOfLine`), and once stop() gave up whatever waits was counted
  (`WaitingIsCounted`). `IdleMeansQuiescent` (`IdleIsQuiescent`) adds the fates of the
  step and of the promises on the line (`FateOfTail`): idle() returns at a tail
  behind which everything was refused, and nothing on the tail was.
  `NoSubOutlivesStop` (`SubsEndWithStop`) holds of every run, eager ones too: stop()
  closes the gate first, no step opens it again, and a shut gate starts no Sub.
* `FencedFileProof`, if no steal guard of a dead process is about (`NoDeadGuard`):
  one holder of the lock (`OneHolder`), carried to the store because every step
  of `FencedFile` is one of `FileLock` (`FencedFileLocks`, `OneWriter`). The
  invariant: a stealer holds the guard, what it read of a dead process is still
  what the lock says (`VerdictHolds`), so what it removes is a dead process's lock
  (`StealsFromTheDead`) and a live holder's lock is its own (`HolderMadeIt`).
* `FencedFileProof`, if also nothing is deleted under a run: no completed save is
  overwritten unseen (`NothingIsLost`) and an ousted run stays out
  (`OustedIsRefused`). The invariant: versions are never ahead of the stamp and
  an ousted run's is behind it (`VersionsBehind`), and a run at the version of the
  stamp has seen every completed save (`SeesTheAcked`), which is why version is
  read before bytes.
* `FencedFileProof!TypesHold`: types. The stamp is bounded by the saves
  begun, and while one is under way it is behind them (`StoreFits`).
* `FencedFileProof!ForeignIsLeft`: the lock of another host stays, with dead guards
  about and whoever ends when. Nobody holds beside it and a stealer that read its
  stamp knows it (`ForeignInv`).
* `StoresProof`, the event-sourced store, if appends settle before the next turn and both puts
  of an append land together (`Careful`): types, exact snapshots, a log that is
  the State's, a bounded replay, and that the store implements `EventLog`
  (`StoreImplementsEventLog`). The invariant `StoreInv` says where the one append
  is (`Turns`): that fixes, at each await, how far events, meta and State are
  apart. With it the log is a beginning of the State even after an eviction
  (`LogOfTheState`), which makes a load a recovery, and what an activation
  believes of its snapshot is never ahead of the stored one (`SnapshotKnown`),
  which bounds the replay.
* `FlowProof!PollerNeverSilent`, if interval and backoff are at least 1
  (`DelaysPass`). That a timer is set, rung, or an observation out is not
  inductive: a result that asked for the instant that has just rung would leave
  the Sub's id as it is and arm nothing. An instant that rang is in the past
  (`RangInThePast`) and the next one never is.
* `StoresProof!CarrierGoesThrough`, if no two runs share a callId
  (`CallsAreNamed`). A result a POST carries is of a step that was run and that the
  checkpoint is at or behind (`PullKnown`), so a resume() that lands takes it in; and a
  key of the intake is not free only while its result is behind the checkpoint, in
  resume(), or rejected (`PullTaken`), because an eviction empties the ledger and
  resume() at once.
* `HostsProof!MountFollowsScreen`, for any choice of Reacts. `RunsAreHeld`,
  `MsgsAreKept` and `ShownIsInstalled` carry what the property says of runs, Msgs
  and snapshots; `PhaseFollows` is the strengthening: what each state of the screen
  owes once the microtasks still waiting are over.
* `FlowProof!ReconcilerIsExact`, with nothing assumed of the slice the
  page fetch goes through. Pages are fetched at the length of what was read
  (`ReadInOrder`), the one change out is the one at the cursor (`OneAtATime`), and
  what was applied is counted by the ledger, the change done and not told, and the
  evictions (`ChangesAreCounted`).

* `HostsProof`. `TableStaysTrue`: what a child's spawn has come to bounds what its
  scope, run and notice may be (`ChildFits`). `HostedStaysExact`: every Msg posted
  is in one place (`MsgsHeldOnce`), and the states of handle, fiber and scope that
  go together are listed (`HostStates`). `SubHandlesAreHeld`, if no two runs share a
  battery (`OneRunHolds`): `HandlesFit` holds for any number of runs, that a Sub
  finds its own handle in the table only for one.
* `FlowProof`. `SagaStaysExact`: the log is the first steps in order, the world is
  those of the log but for the one under way, and what the ledger calls cancelled is
  above (`SagaInv`). `MovesStayWhole`: what is stale and may not stay so is among
  the edits of the run under way (`EditsCover`). `LoneOpsStayStuck` (`QueueInv`):
  every queue stored or loaded shows the items held as running, and an operation
  that no other ran into is alone between its load and its save. `BatchesStayExact`
  (`BatchInv`): the places of the items rise through the shipped batches, the flush
  Cmd, the buffer and the line, none is missing but those lost on the way, and the
  window's clock is the stamp of the buffer's head. `WorkStaysDoneOnce`
  (`IntakeInv`): a key has one item, whose status goes with what the intake
  remembers of the key, the works are the pending and the running items, and there
  are as many kicks as items to claim. `EffectsStayExact` (`WfInv`): what a load
  gives fits its ledger, which owes activities under the ids that are their numbers
  and then undos, later steps first (`OwesFit`, `StageFits`); memory is ahead of it
  by the event under way at most (`EventUnderWay`), a snapshot being put is that
  model (`SnapshotUnderWay`), and nothing was performed but what it owes. It holds
  for any length of the log and any number of results between snapshots, until an
  activation folds a tail onto an older snapshot (`~wfAnew`, in the property itself),
  because that counts its ids anew (finding 8). Its hypothesis: one caller at a time
  (`OneCaller`); with two the property is false (`do.ts:448`, under Findings).
* `CallsProof`. `ParkedStaysLive`, `BreakerStaysShut` (`AuthInv`): a parked call has
  spent its one refresh and waits in no other way, and the instant an open circuit
  bears is the one it tripped at. The `circuit`'s own instant has to be tied to
  `authTripped` because the slice has none. `GateStaysTrue` (`GateInv`): the line is
  in the order of the samples and ahead of the slice, what was emitted is behind it;
  with a throttle of 0 several emissions may bear one instant, so that order, and
  not the instants, is what the invariant goes by. `AnswersStayTrue` (`ClassInv`):
  the running batches, the waiting ones and the buffer share no key (`LinesFit`),
  the asks in flight are running batches and the rest of those was lost (`AsksFit`),
  and buffer, failure marks and cache say of each key what its last attempt came to.
* `StoresProof`. `JournalsStayConverged` (`JournalInv`): a client's cursor is within
  what all have converged to, and a client whose answers were heard and that syncs
  once at a time has its records at the remote in order, exactly as counted
  (`Sure`). `SurfacesStayCurrent` (`BridgeInv`): while the worker is up and its
  observers have been told, the last State on the way to a surface, or shown by it,
  is the run's, or its hydrate is on the way (`Told`). `UnansweredStaysOwed`
  (`LedgerInv`): the gateway's counter is past every id, a call that has an id is
  outstanding under it and shares it with none, and what waits is pending.
  `WritesStayOnce` (`WriteInv`), if the run does not await again a call it gave up
  (`~OweAgain`, see Findings): at most one write is begun or made, none before it
  was asked for, and one that was made is marked for as long as its call is owed.
* `AgentProof`, if the policies are those `createAgent` can hand on (`AgentAssumption`:
  a retry for brain and compaction, a retry and a timeout for a tool, no breaker,
  cache or bucket) and the model names each call once. The invariant, `AgentInv`, has
  four parts. `Shaped`: the fan-out's two lists share no call and nothing waits while
  nothing runs (`ToolsFit`); every call of a turn that is not open has one record, every
  open one has none, and a record names no turn before the one that asked
  (`ConvHolds`: without that a compaction could drop the answer and keep the call).
  `Tally`, call by call: how many handlers are in flight, started and killed against the
  ladder's phase and count; a call that waits was never started, one that runs is
  `Handled`. `Driven`: what the run awaits of brain or compaction is in flight or
  waiting for its retry. And what rings has a key to ring for (`RingFits`). It yields
  `EveryCallIsAnsweredOnce`, `TheAgentIsNeverStuck` and `AttemptsKeepToTheBudget`. A
  ladder verb may give up several calls at once (a boot, a timer); `ApplyLadder` then
  settles them one by one, so the books are stated with the set `D` of the calls given
  up and not yet settled, and with the set `run` of the handlers the fold has still to
  start (`Sound`); between two Msgs both are empty. Each verb keeps `Sound` (`Fair`),
  a fold turns a fair verb into the next state (`FoldKeeps`), and every action is a
  fold, a crash, or a move of the clock.
* `BatteriesProof`: a step of the host of all parts is a step of one (`PartsMove`),
  so what the parts promise is promised there: `ScopesAreKept`,
  `ReplicasStayInAgreement`, `WorkTakesEffectOnce`, `WaitingStaysLive` and
  `NothingStaysHalfDone`, with the hypotheses above.

Two things are stated the way they are because of the prover. Induction over data is
done in the form of sets: a fold is taken along the finite set of its partial
results (`CallsProof`, first part), and a filter is `Kept`, a function recursive
over the places of a sequence, because what `SelectSeq` keeps cannot be unfolded;
a workflow's load is such a function too (`LoadGrain`).
And `AnswersAreTrue` and `BatchesAreExact` speak of the lots and the places of a
sequence where the flattened sequence would say the same.

Only model-checked: liveness (out of the prover's reach). Of a run without a store whose
runners or handlers dispatch as they start, only the types and `NoSubOutlivesStop`
are proved: there a step may run beside the boot's (`TailLane`), and TLC refutes
`OneHandlerAtATime` and `DoneHears`.

## Findings

Each has a violating run; `PROJECT.json` quotes the line it contradicts.

1. `loop_done_deps`: `deps` that throw in a terminal, saved commit skip the commit
   callbacks: a parked done() is never answered.
2. `loop_fork`: without a store, a Msg a runner dispatches while `startLoop` is on
   the stack is chained on the tail `startLoop` then replaces; its step, handlers
   included, runs beside the boot's.
3. `fenced_guard`: clearing a dead stealer's guard can remove a live one's; two
   stealers then run at once and two processes hold the lock.
4. `event_log_unawaited`: appends wired as the module's example wires them let a
   snapshot record a State one event ahead of its seq; that event folds twice.
5. `agent_compact`: a compaction shortens the transcript but not the count the next
   tool records are stamped with; they name turns past its end.
6. `agent_cancel`: a cancelled run keeps the retry timers of its slices, which start
   handlers when they ring.
7. `gateway_reissue`: a call re-issued after an eviction is owed a second time; its
   answer confirms that delivery and leaves the first owed for ever.
8. `workflow_ids`: a workflow evicted between an event and its snapshot folds the
   event onto the older snapshot with a recorder that counts from 0, and one id goes
   to two effects; even with a snapshot after every result.

### Seen while modelling

No run states these. Where a constant or a small change to an instance shows
one, it is named.

Run loop and files:

* What a handler detaches once stop() has begun to drain is on a tail that stop()
  does not wait for: only what was on the line by then is done with when it returns
  (`DrainedLeavesNothing` says so).
* `delete()` puts the version back to 0, and a run that a save or the delete itself
  ousted can match it again (`DeleteUnderRun = TRUE` violates `OustedStaysOut`,
  against `node/index.ts:155`). The property, and its run, are of deletes between
  runs.
* The comment at `node/index.ts:256` says a crash between the state and its stamp
  "reads as a conflict for the next writer". It does not: a run that loaded at the
  old version before the crash saves over the new bytes. Nothing completed is
  lost, since that save never returned.

Durable hosts:

* If storage does not land an append's two puts together (`PutsLandTogether =
  FALSE`), an eviction between them makes the next append overwrite a logged event.
* `idempotentEffect.run` awaits between its look and its mark: a call awaited again
  after it was given up is written twice (`OweAgain = TRUE` violates `DoneOnce`).
* Two callers of one workflow grain: `drive()` (`do.ts:448`) performs what is owed in
  memory, whose result may not have landed; after an eviction its id goes to another
  effect (`WfCallers` of two violates `NothingHalfDone`).
* Two runs of a step host that share callIds take each other's results for
  duplicates (`keyOf`, `step-host.ts:441`); a `resume` that rejects leaves its key
  pending; a duplicate during an inline resume makes the hands re-POST without
  sleeping; `DeferResumeHook.enqueue` is called on every not-ready re-POST (517),
  where its doc says at most once per callId.
* `createAgentHost` with `autoBoot` resumes only agents that are "suspended"
  (`do/resume.ts:77-84`). A durable timer leaves no alarm if the object dies between
  saving and re-arming, until something wakes it.
* `projection.ts`: registering with a rebuilt initial value and a stored offset over
  a fresh counter skips updates (against 17-19); a throw in `apply` is skipped for
  ever (against "self-heals").

Batteries:

* Resilient call: time the host was down can count against a call's deadline, though
  `resume` is there to keep it out (923): a retry timer that was due meanwhile rings
  with the instant it was set to and takes the charging clock back to it (607).
  `AgentCancel.cfg` with a horizon of 5 violates `DowntimeIsFree`; a probe whose call was given up by its deadline leaves the half-open
  breaker's slot taken (752-765). The bucket refills twice for a timer that rings
  late. `settleFailed` keeps `retry[key]`; a `refresh_token_err` leaves parked calls
  running. A new agent run keeps the last one's retry state of brain and tools.
* Poller: with a delay of 0 it can fall silent (`PollDelay = 0` violates
  `NeverSilent`); a result that lands late revives a poller that was done or had
  given up.
* Reconciler: a scan evicted mid-page has no verb to resume with; a duplicate ack
  advances the cursor over a change that was not applied (564). Saga answers are
  positional too.
* Work queue: operations that overlap lose updates. Journal: overlapping syncs count
  a tail twice, after which an append is never pushed; `pushed` and `converged` live
  in memory only. Intake: with keys that age out and items cleared late, a key
  received again makes boot re-arm its completed item.
* Batch window: a flush Cmd lost between its save and its handler loses the batch.
* Classified batches: the asks lost with a host keep their keys pending and their
  place in the window for ever, as there is no boot verb.
* Throttled input: dedupe drops the last sample of a burst while an older one waits;
  a stale settle Msg flushes before the new settle window is over; a late timer
  stamps its emission with the instant it was set to, so that two emissions can be
  closer in real time than the cap.
* Prediction: `nextSeq` restarts at 0 when its buffer drains (documented in
  `.patterns/tea/client-prediction.md:124`).

Hosts and adapters:

* Two runs that share one transport or managed-resource battery overwrite each
  other's entry for a key (`HandleRuns = {"r", "s"}` violates `ScopesHold`). A
  managed resource's release in mid run is not awaited, so the next acquire of the
  same key overlaps it.
* `runIn`: Msgs held for a run that stops by itself between start and attach are
  refused without a report.
* Reconnecting web socket: a `connect` that throws in the backoff timer leaves the
  Sub with neither socket nor timer.
* Bridge: a reply that overtook a broadcast would leave a surface behind; the
  browser's order of delivery is what prevents it.
* Move apply: a user who commits a half-made tree, as the refusal "commit or discard
  them first" offers, or who commits on top of the rename commit, leaves the moved
  files' own imports and their package's entries unrewritten, and the next apply
  reports success.
* The sweep's verdict file is rewritten in place; a crash in the write leaves one
  the next run cannot parse.

## Not modelled, and why

* Wire formats, prompts, transcripts, rendering, observability, testing and devtools:
  no state that interleaves. The pure core, `compose` and `protocol` are types,
  constructors and cell lookup.
* Persistence (`recorder`, `snapshot`, `trace-replay`): pure folds over a log.
* Durable Object sockets, presence and SSE: wiring over platform objects. The durable
  timer and projections keep a cell each; the remarks above are what reading them gave.
* `fileJournal` takes the same lock around one rewrite; an unfenced `fileStore`
  promises only that the last writer wins. The Effect engine runs the same loop
  inside scopes of a library outside this repository.
* Await-terminal and retry-to-success are a handful of lines over the parts modelled;
  debounce and throttle wrap one timer; jev's ask and its decoding are one call.
* `code-graph`, `backlog-sweep` and the analysis in `structure-sweep` (lowering,
  extraction, planning of rewrites) are sequential functions of a source tree. What
  could be wrong in them is which imports they see, and that is in their parsing
  libraries and in data a model would only repeat.

## Plan

Done: everything in the table of modules. What would come next, in this order:

1. Prediction, projections and the durable timer, each over the store it writes to.
2. The reconnecting web socket over `SubHandles`, and presence and SSE over the
   Durable Object's hibernation.
