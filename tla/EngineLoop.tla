----------------------------- MODULE EngineLoop -----------------------------
(***************************************************************************)
(* The run loop every engine of @demlik/tea is built on: startLoop in      *)
(* packages/tea/src/internal/engine/loop.ts, with the two extensions that  *)
(* change its control flow, supervision and terminality (builtins.ts).     *)
(*                                                                         *)
(* JavaScript runs one callback at a time, so an action is the code        *)
(* between two awaits.  A synchronous stretch that is too long for one     *)
(* action is cut into several, and no other action may fall between them   *)
(* (Quiet).  A work item is a Msg or a promise handed to detachWork; its   *)
(* number is the order it was made in.  A State is abstracted to the fold  *)
(* that produced it and to what the loop reads from it: the Subs it wants  *)
(* and whether it is terminal.                                             *)
(***************************************************************************)
EXTENDS Integers, Sequences, FiniteSets

CONSTANTS
  HasStore,     \* run() was given a store
  Strategy,     \* the declared supervision: "stop", "escalate" or "restart"
  NSubs,        \* entries of config.subs
  Wants,        \* the sets of Subs a State of this machine may want
  Terms,        \* the answers of its terminal predicate
  CmdCounts,    \* the numbers of Cmds a transition may emit
  Origins,      \* who sends Msgs: "caller", "loop", "tell"
  Observers,    \* which of "done" and "idle" is called
  EagerStart,   \* runners and handlers may dispatch while they start
  DepsMayThrow, \* a Sub entry's deps may throw
  MaxWork,      \* bound: work items
  MaxDetach,    \* bound: promises handed to detachWork
  IdleCap       \* config.idleCap

\* undefined: no State is set.
NoState == [ver |-> -1, want |-> {}, term |-> FALSE]
Boot == 0
Subs == 1 .. NSubs
Lanes == {"main", "fork"}
Works == 1 .. MaxWork

ASSUME LoopAssumption ==
  /\ HasStore \in BOOLEAN
  /\ Strategy \in {"stop", "escalate", "restart"}
  /\ NSubs \in Nat
  /\ Wants \subseteq SUBSET Subs
  /\ Terms \subseteq BOOLEAN
  /\ CmdCounts \subseteq Nat
  /\ Origins \subseteq {"caller", "loop", "tell"}
  /\ Observers \subseteq {"done", "idle"}
  /\ EagerStart \in BOOLEAN
  /\ DepsMayThrow \in BOOLEAN
  /\ MaxWork \in Nat
  /\ MaxDetach \in Nat
  /\ IdleCap \in Nat

States == [ver : Nat, want : SUBSET Subs, term : BOOLEAN]

VARIABLES
  gate,        \* "open", "draining", "closed" or "abandoned"
  state,       \* the State in memory
  installed,   \* the State the listeners were last told about
  saveStatus,  \* of state
  stored,      \* what the store holds
  bootError,   \* boot failed
  started,     \* startLoop has returned, so tail is the boot's
  queue,       \* per lane, the work items chained on it and not begun
  pc,          \* per lane, where its current step is
  step,        \* per lane, that step: its Msg, its State, its Cmds to go
  works,       \* work items made so far
  origin,      \* who made each
  fate,        \* what became of each
  detached,    \* detached work still in flight
  running,     \* subRegistry
  disposals,   \* pendingDisposals, as a count
  phase,       \* where stop() is
  stopDue,     \* a failure has scheduled stop()
  drainTo,     \* the last work item chained on the tail stop() waits for
  counted,     \* the Msgs the DrainTimeoutNotice counted
  flushed,     \* what became of the final save
  folded,      \* history: the Msgs folded, in order
  failure,     \* terminality: a failure is closing the run
  stoppedBy,   \* terminality: that failure is done()'s answer
  waiter,      \* terminality: one caller of done()
  idle         \* one caller of idle()

gateVars == <<gate, phase, stopDue, drainTo, counted, flushed>>
stateVars == <<state, installed, saveStatus, stored, bootError, folded>>
lineVars == <<queue, works, origin, fate, detached>>
stepVars == <<pc, step, started>>
subVars == <<running, disposals>>
doneVars == <<failure, stoppedBy, waiter>>
vars == <<gateVars, stateVars, lineVars, stepVars, subVars, doneVars, idle>>

-----------------------------------------------------------------------------
(* The line of work.                                                       *)

Step(m, s, n) == [msg |-> m, next |-> s, left |-> n]
NoStep == Step(Boot, NoState, 0)

\* Until startLoop overwrites it with the boot's promise, tail is a resolved
\* promise: what is chained on it then runs on a lane of its own.
TailLane == IF started THEN "main" ELSE "fork"

MutChainInFront(w) == [queue EXCEPT ![TailLane] = <<w>> \o @]
Chain(w) == [queue EXCEPT ![TailLane] = Append(@, w)]

\* No synchronous stretch is under way.  A throw out of boot is not one: its
\* rejection reaches bootError only some microtasks later.
Quiet ==
  /\ started
  /\ \A l \in Lanes : /\ pc[l] \notin {"install", "cmds"}
                      /\ pc[l] = "throwing" => step[l].msg = Boot

\* The Msgs whose turn has not come, which MsgLine counts.
MutCallersOnLine ==
  {w \in 1 .. works : fate[w] = "line" /\ origin[w] = "caller"}
OnLine == {w \in 1 .. works : fate[w] = "line"}

\* The work the tail still stands for: what is chained on it, and its step.
OnMain == {queue["main"][i] : i \in 1 .. Len(queue["main"])}
            \cup (IF pc["main"] = "idle" THEN {} ELSE {step["main"].msg})

\* The tail, as it was when work item w was the last one made, has settled.
TailSettled(w) == \A v \in OnMain : v > w

\* inFlight is not empty: a handler or detached work is awaited.
InFlight == detached # {} \/ \E l \in Lanes : pc[l] = "cmd"

\* What a dispatch the gate refuses is answered with.
Refusal(org) ==
  IF \/ gate = "draining" /\ org # "tell"
     \/ gate = "abandoned" /\ org = "loop"
  THEN "discarded" ELSE "stopped"

\* A Msg is dispatched.
Enqueue(org) ==
  LET w == works + 1 IN
  /\ w \in Works
  /\ works' = w
  /\ origin' = [origin EXCEPT ![w] = org]
  /\ IF gate = "open"
     THEN /\ fate' = [fate EXCEPT ![w] = "line"]
          /\ queue' = Chain(w)
     ELSE /\ fate' = [fate EXCEPT ![w] = Refusal(org)]
          /\ UNCHANGED queue
  /\ UNCHANGED detached

\* The step on lane l ends, and its dispatch with it.
Settle(l, outcome) ==
  /\ pc' = [pc EXCEPT ![l] = "idle"]
  /\ step' = [step EXCEPT ![l] = NoStep]
  /\ fate' = IF step[l].msg = Boot THEN fate
             ELSE [fate EXCEPT ![step[l].msg] = outcome]
  /\ UNCHANGED <<queue, works, origin, detached, started>>

-----------------------------------------------------------------------------
(* Boot and the turn of a work item.                                       *)

Init ==
  /\ gate = "open" /\ phase = "none" /\ stopDue = FALSE
  /\ drainTo = 0 /\ counted = {} /\ flushed = "none"
  /\ installed = NoState /\ saveStatus = "pending" /\ stored = NoState
  /\ bootError = FALSE /\ folded = <<>>
  /\ queue = [l \in Lanes |-> <<>>]
  /\ works = 0
  /\ origin = [w \in Works |-> "none"] /\ fate = [w \in Works |-> "unmade"]
  /\ detached = {} /\ running = {} /\ disposals = 0
  /\ failure = FALSE /\ stoppedBy = FALSE /\ waiter = "none"
  /\ idle = [at |-> "none", upTo |-> 0, rounds |-> 0]
  /\ started = HasStore
  /\ IF HasStore
     THEN /\ state = NoState
          /\ pc = [l \in Lanes |-> IF l = "main" THEN "load" ELSE "idle"]
          /\ step = [l \in Lanes |-> NoStep]
     ELSE \E want \in Wants, term \in Terms, n \in CmdCounts :
            /\ state = [ver |-> 0, want |-> want, term |-> term]
            /\ pc = [l \in Lanes |-> IF l = "main" THEN "install" ELSE "idle"]
            /\ step = [l \in Lanes |->
                         IF l = "main" THEN Step(Boot, state, n) ELSE NoStep]

\* Where commit() goes once the State is set: to store.save, if it may call it.
MutSaveInBackground == "install"
FirstOfCommit == IF HasStore /\ gate # "abandoned" THEN "save" ELSE "install"

\* commit(), up to the call of store.save if it makes one.
BeginCommit(l, m, s, n) ==
  /\ state' = s
  /\ saveStatus' = "pending"
  /\ step' = [step EXCEPT ![l] = Step(m, s, n)]
  /\ pc' = [pc EXCEPT ![l] = FirstOfCommit]

\* store.load() and init answer.
Load ==
  /\ Quiet /\ pc["main"] = "load"
  /\ \E want \in Wants, term \in Terms, n \in CmdCounts :
       BeginCommit("main", Boot,
                   [ver |-> 0, want |-> want, term |-> term], n)
  /\ UNCHANGED <<gateVars, lineVars, subVars, doneVars, idle, started,
                 installed, stored, bootError, folded>>

\* store.load() fails, the saved State is refused, or init throws.
LoadFails ==
  /\ Quiet /\ pc["main"] = "load"
  /\ pc' = [pc EXCEPT !["main"] = "throwing"]
  /\ UNCHANGED <<gateVars, stateVars, lineVars, subVars, doneVars, idle,
                 started, step>>

\* startLoop returns, and tail is the boot's promise from here on.
StartReturns ==
  /\ ~started
  /\ pc["main"] \notin {"install", "cmds"}
  /\ started' = TRUE
  /\ UNCHANGED <<gateVars, stateVars, lineVars, subVars, doneVars, idle, pc,
                 step>>

\* The Msg at the head of lane l has its turn.
Turn(l) ==
  /\ Quiet /\ pc[l] = "idle" /\ queue[l] # <<>>
  /\ origin[Head(queue[l])] # "detached"

Leave(l, outcome) ==
  /\ queue' = [queue EXCEPT ![l] = Tail(@)]
  /\ fate' = [fate EXCEPT ![Head(queue[l])] = outcome]
  /\ UNCHANGED <<works, origin, detached>>

\* stop() gave up before the Msg's turn: it is dropped.
MutDropUnanswered(l) ==
  /\ Turn(l) /\ gate = "abandoned"
  /\ Leave(l, IF origin[Head(queue[l])] = "caller" THEN "line" ELSE "silent")
  /\ UNCHANGED <<gateVars, stateVars, stepVars, subVars, doneVars, idle>>

Drop(l) ==
  /\ Turn(l) /\ gate = "abandoned"
  /\ Leave(l, IF origin[Head(queue[l])] = "caller" THEN "dropped" ELSE "silent")
  /\ UNCHANGED <<gateVars, stateVars, stepVars, subVars, doneVars, idle>>

\* The Msg reaches the fold.
Serve(l) == Turn(l) /\ gate # "abandoned" /\ ~bootError

\* Boot failed, or the State has no cell for a told Msg, or the fold makes no
\* transition, refuses the Msg, or throws under "escalate" or in rehydrate.
NoTransition(l) ==
  /\ \/ /\ Turn(l) /\ gate # "abandoned" /\ bootError
        /\ Leave(l, "rejected")
     \/ /\ Serve(l) /\ origin[Head(queue[l])] = "tell"
        /\ Leave(l, "no_cell")
     \/ /\ Serve(l)
        /\ \E outcome \in {"done", "rejected"} : Leave(l, outcome)
  /\ UNCHANGED <<gateVars, stateVars, stepVars, subVars, doneVars, idle>>

\* stopOnFailure(), which only a run that was open is given.
MutNoStopOnFailure == stopDue' = stopDue
StopOnFailure == stopDue' = (stopDue \/ gate = "open")

\* The fold throws under "stop": halt(), and the dispatch rejects.
Halt(l) ==
  /\ Serve(l) /\ Strategy = "stop"
  /\ Leave(l, "rejected")
  /\ StopOnFailure
  /\ gate' = "closed"
  /\ failure' = TRUE
  /\ UNCHANGED <<stateVars, stepVars, subVars, stoppedBy, waiter, idle, phase,
                 drainTo, counted, flushed>>

\* The fold returns a State and Cmds; a rehydrated State comes with none.
Fold(l) ==
  /\ Serve(l)
  /\ \E want \in Wants, term \in Terms,
        n \in CmdCounts \cup (IF Strategy = "restart" THEN {0} ELSE {}) :
       BeginCommit(l, Head(queue[l]),
                   [ver |-> state.ver + 1, want |-> want, term |-> term], n)
  /\ Leave(l, "step")
  /\ folded' = Append(folded, Head(queue[l]))
  /\ UNCHANGED <<gateVars, subVars, doneVars, idle, started, installed, stored,
                 bootError>>

-----------------------------------------------------------------------------
(* The rest of commit(): save, reconcile, install, Cmds, commit callbacks. *)

Saved == ~HasStore \/ saveStatus = "saved"

SaveOk(l) ==
  /\ Quiet /\ pc[l] = "save"
  /\ stored' = step[l].next
  /\ saveStatus' = "saved"
  /\ pc' = [pc EXCEPT ![l] = "install"]
  /\ UNCHANGED <<gateVars, lineVars, subVars, doneVars, idle, started, step,
                 state, installed, bootError, folded>>

\* A done() caller of a terminal State hears that its save failed.
MutSaveFailureSwallowed(l) ==
  /\ Quiet /\ pc[l] = "save"
  /\ saveStatus' = "failed"
  /\ pc' = [pc EXCEPT ![l] = "install"]
  /\ UNCHANGED <<gateVars, lineVars, subVars, doneVars, idle, started, step,
                 state, installed, stored, bootError, folded>>

SaveFails(l) ==
  /\ Quiet /\ pc[l] = "save"
  /\ saveStatus' = "failed"
  /\ waiter' = IF waiter = "parked" /\ step[l].next.term
               THEN "rejected" ELSE waiter
  /\ pc' = [pc EXCEPT ![l] = "throwing"]
  /\ UNCHANGED <<gateVars, lineVars, subVars, idle, started, step, state,
                 installed, stored, bootError, folded, failure, stoppedBy>>

\* subFailed(), for whichever Sub it is.
FailRun ==
  /\ StopOnFailure
  /\ failure' = (failure \/ gate = "open")
  /\ gate' = IF gate = "open" THEN "draining" ELSE gate
  /\ UNCHANGED <<phase, drainTo, counted, flushed, stoppedBy, waiter>>

\* The Subs a reconcile stops, and those it starts, when the deps of the Subs
\* in unread threw.  A run that is stopping starts nothing.
MutStopNone(unread) == {}
ToStop(unread) == running \ (state.want \cup unread)

MutStartAnyway(unread) == (state.want \ unread) \ running
ToStart(unread) ==
  IF gate = "open" THEN (state.want \ unread) \ running ELSE {}

(* reconcileSubs() and the installed callbacks.  unread: the Subs whose    *)
(* deps threw; bad: those whose runner threw; dead: those whose source     *)
(* died before the runner returned; early: the first runner to start       *)
(* dispatched before any of them failed.                                   *)
Install(l) ==
  /\ pc[l] = "install"
  /\ \E unread \in IF DepsMayThrow THEN SUBSET Subs ELSE {{}} :
       LET stopping == ToStop(unread)
           starting == ToStart(unread)
       IN \E bad \in SUBSET starting, early \in BOOLEAN :
          \E dead \in SUBSET (starting \ bad) :
            /\ running' = (running \ stopping) \cup (starting \ (bad \cup dead))
            /\ disposals' = disposals + Cardinality(stopping \cup dead)
            /\ IF bad \cup dead # {} THEN FailRun
               ELSE UNCHANGED <<gateVars, doneVars>>
            /\ IF early
               THEN EagerStart /\ starting # {} /\ "loop" \in Origins
                      /\ Enqueue("loop")
               ELSE UNCHANGED lineVars
            /\ IF unread \cup bad = {}
               THEN /\ installed' = step[l].next
                    /\ pc' = [pc EXCEPT ![l] = "cmds"]
               ELSE /\ pc' = [pc EXCEPT ![l] = "throwing"]
                    /\ UNCHANGED installed
  /\ UNCHANGED <<idle, started, step, state, saveStatus, stored, bootError,
                 folded>>

\* The next Cmd's handler starts, unless stop() has given up on the step.
MutNextCmdAbandoned(l) ==
  /\ pc[l] = "cmds" /\ step[l].left > 0
  /\ pc' = [pc EXCEPT ![l] = "cmd"]
  /\ step' = [step EXCEPT ![l].left = @ - 1]
  /\ UNCHANGED <<gateVars, stateVars, lineVars, subVars, doneVars, idle,
                 started>>

NextCmd(l) ==
  /\ pc[l] = "cmds" /\ step[l].left > 0 /\ gate # "abandoned"
  /\ pc' = [pc EXCEPT ![l] = "cmd"]
  /\ step' = [step EXCEPT ![l].left = @ - 1]
  /\ UNCHANGED <<gateVars, stateVars, lineVars, subVars, doneVars, idle,
                 started>>

\* The handler settles; a Msg it returned is dispatched, before the next Cmd.
HandlerReturns(l) ==
  /\ Quiet /\ pc[l] = "cmd"
  /\ pc' = [pc EXCEPT ![l] = "cmds"]
  /\ \/ "loop" \in Origins /\ Enqueue("loop")
     \/ UNCHANGED lineVars
  /\ UNCHANGED <<gateVars, stateVars, subVars, doneVars, idle, started, step>>

\* terminality's commit callback.
CommitCallbacks(l) ==
  /\ waiter' = IF waiter = "parked" /\ Saved /\ step[l].next.term
               THEN "resolved" ELSE waiter
  /\ UNCHANGED <<failure, stoppedBy>>

\* The commit callbacks run in a finally, so they run here too.
MutThrowSkipsCallbacks(l) ==
  /\ Quiet /\ pc[l] = "cmd"
  /\ pc' = [pc EXCEPT ![l] = "throwing"]
  /\ UNCHANGED <<gateVars, stateVars, lineVars, subVars, doneVars, idle,
                 started, step>>

HandlerThrows(l) ==
  /\ Quiet /\ pc[l] = "cmd"
  /\ pc' = [pc EXCEPT ![l] = "throwing"]
  /\ CommitCallbacks(l)
  /\ UNCHANGED <<gateVars, stateVars, lineVars, subVars, idle, started, step>>

\* No Cmd is left to run, or stop() has given up on the step.
Finish(l) ==
  /\ pc[l] = "cmds" /\ (step[l].left = 0 \/ gate = "abandoned")
  /\ CommitCallbacks(l)
  /\ Settle(l, "done")
  /\ UNCHANGED <<gateVars, stateVars, subVars, idle>>

\* The error leaves the step: its dispatch rejects, or boot has failed.
Reject(l) ==
  /\ pc[l] = "throwing"
  /\ step[l].msg = Boot => Quiet
  /\ bootError' = (bootError \/ step[l].msg = Boot)
  /\ Settle(l, "rejected")
  /\ UNCHANGED <<gateVars, subVars, doneVars, idle, state, installed,
                 saveStatus, stored, folded>>

-----------------------------------------------------------------------------
(* What reaches the loop from outside a step.                              *)

\* dispatch() or dispatchOnce() by a caller, or tell() by another program.  A
\* Msg told to a cell the State has not is answered at once and leaves nothing.
CallerDispatch ==
  /\ Quiet
  /\ \E org \in Origins \ {"loop"} : Enqueue(org)
  /\ UNCHANGED <<gateVars, stateVars, stepVars, subVars, doneVars, idle>>

\* A Sub, a handler or detached work dispatches; a handler may as it starts.
LoopDispatch ==
  /\ "loop" \in Origins
  /\ \/ Quiet /\ (running # {} \/ InFlight \/ disposals > 0)
     \/ ~started /\ EagerStart /\ pc["main"] = "cmd"
  /\ Enqueue("loop")
  /\ UNCHANGED <<gateVars, stateVars, stepVars, subVars, doneVars, idle>>

\* A handler hands a promise to detachWork.
MutDetachOffTail(l) ==
  /\ pc[l] = "cmd" /\ (Quiet \/ (~started /\ EagerStart))
  /\ Cardinality({w \in Works : origin[w] = "detached"}) < MaxDetach
  /\ works < MaxWork
  /\ works' = works + 1
  /\ origin' = [origin EXCEPT ![works'] = "detached"]
  /\ fate' = [fate EXCEPT ![works'] = "wait"]
  /\ detached' = detached \cup {works'}
  /\ UNCHANGED <<gateVars, stateVars, stepVars, subVars, doneVars, idle, queue>>

Detach(l) ==
  /\ pc[l] = "cmd" /\ (Quiet \/ (~started /\ EagerStart))
  /\ Cardinality({w \in Works : origin[w] = "detached"}) < MaxDetach
  /\ works < MaxWork
  /\ works' = works + 1
  /\ origin' = [origin EXCEPT ![works'] = "detached"]
  /\ fate' = [fate EXCEPT ![works'] = "wait"]
  /\ queue' = Chain(works')
  /\ detached' = detached \cup {works'}
  /\ UNCHANGED <<gateVars, stateVars, stepVars, subVars, doneVars, idle>>

DetachedSettles(w) ==
  /\ Quiet
  /\ detached' = detached \ {w}
  /\ UNCHANGED <<gateVars, stateVars, stepVars, subVars, doneVars, idle, queue,
                 works, origin, fate>>

\* The tail passes a detached promise that has settled.
PassDetached(l) ==
  /\ Quiet /\ pc[l] = "idle" /\ queue[l] # <<>>
  /\ origin[Head(queue[l])] = "detached" /\ Head(queue[l]) \notin detached
  /\ Leave(l, "done")
  /\ UNCHANGED <<gateVars, stateVars, stepVars, subVars, doneVars, idle>>

\* The source of a running Sub dies.
SubFails(s) ==
  /\ Quiet /\ s \in running
  /\ running' = running \ {s}
  /\ FailRun
  /\ UNCHANGED <<stateVars, lineVars, stepVars, idle, disposals>>

\* An asynchronous cleanup of a Sub settles.
MutDisposalSettlesTwice ==
  /\ Quiet /\ disposals > 0
  /\ disposals' = disposals - 2
  /\ UNCHANGED <<gateVars, stateVars, lineVars, stepVars, doneVars, idle,
                 running>>

DisposalSettles ==
  /\ Quiet /\ disposals > 0
  /\ disposals' = disposals - 1
  /\ UNCHANGED <<gateVars, stateVars, lineVars, stepVars, doneVars, idle,
                 running>>

-----------------------------------------------------------------------------
(* stop().                                                                 *)

\* teardown() up to its wait for the tail.
Teardown ==
  /\ Quiet /\ phase = "none"
  /\ phase' = "drain"
  /\ gate' = IF gate = "open" THEN "draining" ELSE gate
  /\ drainTo' = works
  /\ stopDue' = FALSE
  /\ UNCHANGED <<stateVars, lineVars, stepVars, subVars, doneVars, idle,
                 counted, flushed>>

\* The microtask stopOnFailure() queued; a second stop() does nothing.
StopMicrotask == stopDue /\ Teardown

DrainSettles ==
  /\ Quiet /\ phase = "drain" /\ TailSettled(drainTo)
  /\ gate' = "closed"
  /\ phase' = "drained"
  /\ UNCHANGED <<stateVars, lineVars, stepVars, subVars, doneVars, idle,
                 stopDue, drainTo, counted, flushed>>

\* disposeTimeoutMs passes first: the loop gives up on the tail.
DrainTimesOut ==
  /\ Quiet /\ phase = "drain" /\ ~TailSettled(drainTo)
  /\ gate' = "abandoned"
  /\ counted' = OnLine
  /\ phase' = "drained"
  /\ UNCHANGED <<stateVars, lineVars, stepVars, subVars, doneVars, idle,
                 stopDue, drainTo, flushed>>

\* lastStateReached(), then every Sub stops.
CloseSubs ==
  /\ Quiet /\ phase = "drained"
  /\ phase' = "dispose"
  /\ running' = {}
  /\ disposals' = disposals + Cardinality(running)
  /\ stoppedBy' = failure
  /\ waiter' = IF ~failure \/ waiter # "parked" THEN waiter
               ELSE IF ~state.term THEN "rejected"
               ELSE IF Saved THEN "resolved" ELSE waiter
  /\ UNCHANGED <<stateVars, lineVars, stepVars, idle, failure, gate, stopDue,
                 drainTo, counted, flushed>>

\* The disposals have settled, or disposeTimeoutMs has passed again.
MutDisposalsUnlimited ==
  /\ Quiet /\ phase = "dispose" /\ disposals = 0
  /\ phase' = IF HasStore /\ state # NoState /\ ~bootError
              THEN "final" ELSE "stopped"
  /\ UNCHANGED <<stateVars, lineVars, stepVars, subVars, doneVars, idle, gate,
                 stopDue, drainTo, counted, flushed>>

EndDisposals ==
  /\ Quiet /\ phase = "dispose"
  /\ phase' = IF HasStore /\ state # NoState /\ ~bootError
              THEN "final" ELSE "stopped"
  /\ UNCHANGED <<stateVars, lineVars, stepVars, subVars, doneVars, idle, gate,
                 stopDue, drainTo, counted, flushed>>

FinalSave ==
  /\ Quiet /\ phase = "final"
  /\ phase' = "stopped"
  /\ \/ flushed' = "saved" /\ stored' = state
     \/ flushed' = "failed" /\ UNCHANGED stored
  /\ UNCHANGED <<lineVars, stepVars, subVars, doneVars, idle, gate, stopDue,
                 drainTo, counted, state, installed, saveStatus, bootError,
                 folded>>

-----------------------------------------------------------------------------
(* What a booted handle answers.                                           *)

Ready ==
  /\ Quiet /\ state # NoState /\ ~bootError
  /\ pc["main"] = "idle" \/ step["main"].msg # Boot

\* What done() answers at once, or that its caller waits.
MutDoneUnsaved ==
  IF state.term THEN "resolved" ELSE IF stoppedBy THEN "rejected" ELSE "parked"
DoneAnswer ==
  IF state.term /\ Saved THEN "resolved"
  ELSE IF state.term /\ saveStatus = "failed" THEN "rejected"
  ELSE IF ~state.term /\ stoppedBy THEN "rejected"
  ELSE "parked"

\* done(), by one caller.
CallDone ==
  /\ Ready /\ "done" \in Observers /\ waiter = "none"
  /\ waiter' = DoneAnswer
  /\ UNCHANGED <<gateVars, stateVars, lineVars, stepVars, subVars, idle,
                 failure, stoppedBy>>

\* idle(), by one caller.
CallIdle ==
  /\ Ready /\ "idle" \in Observers /\ idle.at = "none" /\ IdleCap > 0
  /\ idle' = [at |-> "waiting", upTo |-> works, rounds |-> 1]
  /\ UNCHANGED <<gateVars, stateVars, lineVars, stepVars, subVars, doneVars>>

\* tail is still the promise idle() read: since then every dispatch was refused.
MutTailUnread == TRUE
SameTail ==
  \A w \in idle.upTo + 1 .. works : fate[w] \in {"discarded", "stopped"}

\* The tail idle() read has settled: it returns if tail is still that one.
IdleLooks ==
  /\ Quiet /\ idle.at = "waiting" /\ TailSettled(idle.upTo)
  /\ idle' =
       IF SameTail THEN [idle EXCEPT !.at = "resolved"]
       ELSE IF idle.rounds = IdleCap THEN [idle EXCEPT !.at = "capped"]
       ELSE [idle EXCEPT !.upTo = works, !.rounds = @ + 1]
  /\ UNCHANGED <<gateVars, stateVars, lineVars, stepVars, subVars, doneVars>>

-----------------------------------------------------------------------------
(* The specification.                                                      *)

\* The loop's own progress, which waits for nobody.
Engine ==
  \/ StartReturns \/ StopMicrotask
  \/ \E l \in Lanes :
       \/ Drop(l) \/ NoTransition(l) \/ Halt(l) \/ Fold(l)
       \/ Install(l) \/ NextCmd(l) \/ Finish(l) \/ Reject(l) \/ PassDetached(l)

\* stop(), with its timers and its final save.
Stopping ==
  \/ DrainSettles \/ DrainTimesOut \/ CloseSubs \/ EndDisposals \/ FinalSave

\* What the loop awaits of the store and of the handlers.
Awaited ==
  \/ Load \/ LoadFails
  \/ \E l \in Lanes :
       SaveOk(l) \/ SaveFails(l) \/ HandlerReturns(l) \/ HandlerThrows(l)
  \/ \E w \in detached : DetachedSettles(w)

World ==
  \/ CallerDispatch \/ LoopDispatch \/ Teardown \/ DisposalSettles
  \/ \E l \in Lanes : Detach(l)
  \/ \E s \in Subs : SubFails(s)
  \/ CallDone \/ CallIdle \/ IdleLooks

Next == Engine \/ Stopping \/ Awaited \/ World

\* The JavaScript engine runs what is due, and timers fire.  Nothing is asked
\* of handlers, of the store outside the final save, or of the outside world.
Spec == Init /\ [][Next]_vars /\ WF_vars(Engine) /\ WF_vars(Stopping)

-----------------------------------------------------------------------------
(* Properties.                                                             *)

Pcs == {"idle", "load", "save", "install", "cmds", "cmd", "throwing"}
Fates == {"unmade", "line", "step", "wait", "done", "rejected", "no_cell",
          "dropped", "silent", "discarded", "stopped"}
Steps == [msg : {Boot} \cup Works, next : States \cup {NoState}, left : Nat]

GateType ==
  /\ gate \in {"open", "draining", "closed", "abandoned"}
  /\ phase \in {"none", "drain", "drained", "dispose", "final", "stopped"}
  /\ drainTo \in 0 .. MaxWork
  /\ counted \subseteq Works /\ flushed \in {"none", "saved", "failed"}

StateType ==
  /\ state \in States \cup {NoState} /\ installed \in States \cup {NoState}
  /\ stored \in States \cup {NoState}
  /\ saveStatus \in {"pending", "saved", "failed"}
  /\ folded \in Seq(Works)

LineType ==
  /\ queue \in [Lanes -> Seq(Works)] /\ works \in 0 .. MaxWork
  /\ origin \in [Works -> {"none", "caller", "loop", "tell", "detached"}]
  /\ fate \in [Works -> Fates] /\ detached \subseteq Works

StepType == pc \in [Lanes -> Pcs] /\ step \in [Lanes -> Steps]

SubType == running \subseteq Subs /\ disposals \in Nat

WaitType ==
  /\ waiter \in {"none", "parked", "resolved", "rejected"}
  /\ idle \in [at : {"none", "waiting", "resolved", "capped"},
               upTo : 0 .. MaxWork, rounds : 0 .. IdleCap]

FlagType ==
  /\ started \in BOOLEAN /\ stopDue \in BOOLEAN /\ bootError \in BOOLEAN
  /\ failure \in BOOLEAN /\ stoppedBy \in BOOLEAN

\* Every variable keeps its type.
TypeOK == /\ GateType /\ StateType /\ LineType /\ StepType /\ SubType
          /\ WaitType /\ FlagType

\* Save before effects (invariant 3 of the runtime, commit()): while a handler
\* of a transition runs, the store holds exactly the State that emitted its
\* Cmd, and that State is the one in memory and the one the listeners know.
SaveBeforeEffects ==
  HasStore => \A l \in Lanes :
    pc[l] = "cmd" => /\ stored = step[l].next
                     /\ state = step[l].next
                     /\ installed = step[l].next

\* The loop is serial (ADR 0018): it never interleaves two handlers.  With a
\* store nothing is made before startLoop returns, and there is one lane.  A
\* storeless boot whose runners or handlers dispatch as they start leaves a step
\* on the tail startLoop replaces, which runs beside the boot's own.
OneHandlerAtATime ==
  \A k, l \in Lanes : pc[k] = "cmd" /\ pc[l] = "cmd" => k = l

\* Msgs fold in the order the loop accepted them, whoever sent them.
FoldsInOrder ==
  \A i, j \in 1 .. Len(folded) : i < j => folded[i] < folded[j]

\* A Msg stop() dropped is in the count of the DrainTimeoutNotice, and no Msg
\* of that count is ever folded (enqueueStep, ADR 0025).
DropsAreCounted ==
  /\ \A w \in Works : fate[w] \in {"dropped", "silent"} => w \in counted
  /\ \A i \in 1 .. Len(folded) : folded[i] \notin counted

\* Once stop() has returned nothing begins any more: no fold, no store call,
\* no handler, no Sub (ADR 0025: "tea starts no store call after stop() has
\* returned").  What was under way may still end.
StaysStopped ==
  [][phase = "stopped" =>
       /\ folded' = folded
       /\ running' \subseteq running
       /\ \A l \in Lanes : pc'[l] \in {"save", "cmd"} => pc'[l] = pc[l]]_vars

\* An open run runs exactly the Subs of the State its listeners last heard,
\* whichever saves, runners and handlers failed on the way.
SubsFollowInstalled ==
  gate = "open" /\ installed # NoState => running = installed.want

\* From the moment stop() closes the Subs none runs, and none is started by
\* the late end of a step it gave up on.
NoSubOutlivesStop ==
  phase \in {"dispose", "final", "stopped"} => running = {}

\* done() resolves only for a terminal State, and only once the store holds it.
DoneOnlyIfSaved ==
  [][waiter # "resolved" /\ waiter' = "resolved" =>
       state.term /\ (HasStore => stored = state)]_vars

\* A caller of done() is not left waiting for an answer the run already has: a
\* terminal saved State, or the failure that closed the run.
DoneHears ==
  /\ Quiet /\ (gate = "open" \/ phase = "stopped")
  /\ \A l \in Lanes : pc[l] = "idle" /\ queue[l] = <<>>
  /\ waiter = "parked"
  => ~failure /\ ~(state.term /\ Saved)

\* A tail stop() has drained leaves nothing in flight (teardown()): no handler,
\* and none of the work that handlers had detached when stop() read the tail.
\* What a handler detaches after that, stop() does not wait for.
DrainedLeavesNothing ==
  gate = "closed" /\ phase \in {"dispose", "final", "stopped"} =>
    /\ \A l \in Lanes : pc[l] # "cmd"
    /\ \A w \in detached : w > drainTo

\* idle() returns only when no Msg waits, no step runs and no work a handler
\* detached is still awaited, on any lane, whatever joined the tail meanwhile.
IdleMeansQuiescent ==
  [][idle.at = "waiting" /\ idle'.at = "resolved" =>
       \A l \in Lanes : pc[l] = "idle" /\ queue[l] = <<>>]_vars

\* stop() returns, whatever handlers, disposals and a pending load do.
StopReturns == (phase = "drain") ~> (phase = "stopped")

\* A Sub failure or a halting reducer throw stops the run by itself.
FailureStops == failure ~> (phase = "stopped")

\* Where everything awaited settles, so does every accepted dispatch: each
\* caller's promise resolves or rejects, through a stop() too.
DispatchSettles ==
  WF_vars(Awaited) => \A w \in Works :
    (fate[w] = "line") ~> (fate[w] \notin {"line", "step"})

=============================================================================
