------------------------------ MODULE StepPull ------------------------------
(***************************************************************************)
(* The pull carrier (packages/tea/src/do/step-host.ts): stepHost, which    *)
(* answers one `/step` POST at a time for the runs of a Durable Object, in *)
(* line or with a deferResume hook; and runStepLoop, the hands that ask    *)
(* for a step, run it, remember its result and POST it.                    *)
(*                                                                         *)
(* A POST or its answer may be lost, and the hands then POST again while   *)
(* the first one is still at the host; the host may be evicted inside a    *)
(* POST; the hands may give up or die anywhere, and drive again.  The      *)
(* engine and the hook are the ones the comments ask for: resume is        *)
(* idempotent against the checkpoint, and so is enqueue against the call.  *)
(***************************************************************************)
EXTENDS Sequences, Integers

CONSTANTS
  StepRuns,          \* the runs one Durable Object drives
  StepCalls,         \* [StepRuns -> the callIds of its steps, in order]
  StepMaxPosts,      \* bound: POSTs of all runs
  StepMaxEvictions,  \* bound: evictions of the host
  StepMaxRestarts    \* bound: drives a run begins after its first

ASSUME StepAssumption == {StepMaxPosts, StepMaxEvictions, StepMaxRestarts} \subseteq Nat

VARIABLES
  stepKnob,      \* [defers, lasts]: a hook is given; the hands' store is
  stepPast,      \* checkpoint: steps of each run behind it
  stepDue,       \* checkpoint: results the hook has yet to resume
  stepIntake,    \* in memory: the keys of the receive-once ledger
  stepPosts,     \* the POSTs at the host or answered, each with its stage
  stepHands,     \* the drive of each run
  stepSaved,     \* the executed store of each run
  stepCount,     \* POSTs sent so far, and the drives each run began again
  stepEvictions,
  stepRan,       \* history: times each step was executed
  stepCut,       \* history: executions the store did not get to remember
  stepRejected   \* history: results whose resume() rejected, in this activation

stepVars == <<stepKnob, stepPast, stepDue, stepIntake, stepPosts, stepHands,
              stepSaved, stepCount, stepEvictions, stepRan, stepCut, stepRejected>>

NoStep == "none"
CallsOf(r) == {StepCalls[r][i] : i \in DOMAIN StepCalls[r]}
AllCalls == UNION {CallsOf(r) : r \in StepRuns}

Covered(r, c) == \E i \in 1 .. stepPast[r] : StepCalls[r][i] = c
NextStepOf(r) ==
  IF stepPast[r] < Len(StepCalls[r]) THEN StepCalls[r][stepPast[r] + 1] ELSE "done"

Post(r, n, c) == [run |-> r, n |-> n, posted |-> c, at |-> "arriving", body |-> NoStep]
Drive(pc, c, n) == [pc |-> pc, call |-> c, n |-> n]

StepInit ==
  /\ stepKnob \in [defers : BOOLEAN, lasts : BOOLEAN]
  /\ stepPast = [r \in StepRuns |-> 0]
  /\ stepDue = {}
  /\ stepIntake = [k \in StepRuns \union AllCalls |-> "absent"]
  /\ stepPosts = {}
  /\ stepHands = [r \in StepRuns |-> Drive("ask", NoStep, 0)]
  /\ stepSaved = [r \in StepRuns |-> {}]
  /\ stepCount = [posts |-> 0, again |-> [r \in StepRuns |-> 0]]
  /\ stepEvictions = 0
  /\ stepRan = [r \in StepRuns |-> [c \in CallsOf(r) |-> 0]]
  /\ stepCut = stepRan
  /\ stepRejected = {}

-----------------------------------------------------------------------------
\* The host: handle()

PostGoes(q, at) == stepPosts' = (stepPosts \ {q}) \union {[q EXCEPT !.at = at]}

\* keyOf of the intake: the run does not come into it.
MutKeyOf(q) == q.run
KeyOf(q) == q.posted

\* A first result is taken in, a duplicate is not, resumed or not; with a hook,
\* a result whose resume has not landed is enqueued.
Handle(q) ==
  LET new == /\ q.posted # NoStep /\ ~stepKnob.defers
             /\ stepIntake[KeyOf(q)] = "absent"
      unready == /\ q.posted # NoStep /\ stepKnob.defers
                 /\ ~Covered(q.run, q.posted)
  IN /\ q.at = "arriving"
     /\ PostGoes(q, IF new THEN "resume" ELSE IF unready THEN "enqueue" ELSE "answer")
     /\ stepIntake' = IF new THEN [stepIntake EXCEPT ![KeyOf(q)] = "pending"]
                        ELSE stepIntake
     /\ UNCHANGED <<stepPast, stepDue, stepEvictions>>

\* resume() reaches the checkpoint, at most once; then it resolves.
AdvanceRun(r, c) ==
  stepPast' = [stepPast EXCEPT ![r] = IF NextStepOf(r) = c THEN @ + 1 ELSE @]

ResumeLands(q) ==
  /\ q.at = "resume"
  /\ AdvanceRun(q.run, q.posted)
  /\ PostGoes(q, "complete")
  /\ UNCHANGED <<stepDue, stepIntake, stepEvictions>>

Complete(q) ==
  /\ q.at = "complete"
  /\ stepIntake' = [stepIntake EXCEPT ![KeyOf(q)] = "done"]
  /\ PostGoes(q, "answer")
  /\ UNCHANGED <<stepPast, stepDue, stepEvictions>>

\* resume() rejects, and handle() with it: nothing takes the key back.
ResumeRejects(q) ==
  /\ q.at = "resume"
  /\ stepPosts' = stepPosts \ {q}
  /\ stepRejected' = stepRejected \union {<<q.run, q.posted>>}
  /\ UNCHANGED <<stepPast, stepDue, stepIntake, stepEvictions>>

EnqueueResult(q) ==
  /\ q.at = "enqueue"
  /\ stepDue' = IF Covered(q.run, q.posted) THEN stepDue
                  ELSE stepDue \union {<<q.run, q.posted>>}
  /\ stepPosts' = (stepPosts \ {q})
                    \union {[q EXCEPT !.at = "answered", !.body = "working"]}
  /\ UNCHANGED <<stepPast, stepIntake, stepEvictions>>

\* The hook's returning activation resumes what is due.
Compute(d) ==
  /\ AdvanceRun(d[1], d[2])
  /\ stepDue' = stepDue \ {d}
  /\ UNCHANGED <<stepIntake, stepPosts, stepEvictions>>

Answer(q) ==
  /\ q.at = "answer"
  /\ stepPosts' = (stepPosts \ {q})
       \union {[q EXCEPT !.at = "answered", !.body = NextStepOf(q.run)]}
  /\ UNCHANGED <<stepPast, stepDue, stepIntake, stepEvictions>>

EvictHost ==
  /\ stepEvictions < StepMaxEvictions
  /\ stepEvictions' = stepEvictions + 1
  /\ stepIntake' = [k \in DOMAIN stepIntake |-> "absent"]
  /\ stepPosts' = {q \in stepPosts : q.at \in {"arriving", "answered"}}
  /\ stepRejected' = {}
  /\ UNCHANGED <<stepPast, stepDue>>

HostNext ==
  /\ \/ /\ \/ \E q \in stepPosts :
                \/ Handle(q) \/ ResumeLands(q) \/ Complete(q)
                \/ EnqueueResult(q) \/ Answer(q)
           \/ \E d \in stepDue : Compute(d)
        /\ UNCHANGED stepRejected
     \/ \E q \in stepPosts : ResumeRejects(q)
     \/ EvictHost
  /\ UNCHANGED <<stepKnob, stepHands, stepSaved, stepCount, stepRan, stepCut>>

-----------------------------------------------------------------------------
\* The hands: runStepLoop()

HandsAre(r, pc, c, n) == stepHands' = [stepHands EXCEPT ![r] = Drive(pc, c, n)]

\* A POST, the first one or the retry of one that got no answer.
Ask(r) ==
  LET n == stepCount.posts + 1
  IN /\ stepHands[r].pc = "ask" /\ n <= StepMaxPosts
     /\ stepCount' = [stepCount EXCEPT !.posts = n]
     /\ stepPosts' = stepPosts \union {Post(r, n, stepHands[r].call)}
     /\ HandsAre(r, "wait", stepHands[r].call, n)
     /\ UNCHANGED <<stepSaved, stepRan, stepCut>>

\* The transport fails; the POST may be at the host all the same.
TransportFails(r) ==
  /\ stepHands[r].pc = "wait"
  /\ HandsAre(r, "ask", stepHands[r].call, 0)
  /\ UNCHANGED <<stepPosts, stepSaved, stepCount, stepRan, stepCut>>

\* A step the store remembers is not run again; a host that is working is asked
\* again with the same result.
HearAnswer(r) ==
  \E q \in stepPosts :
    /\ stepHands[r].pc = "wait"
    /\ q.at = "answered" /\ q.n = stepHands[r].n
    /\ stepPosts' = stepPosts \ {q}
    /\ CASE q.body = "done" -> HandsAre(r, "done", NoStep, 0)
         [] q.body = "working" -> HandsAre(r, "ask", stepHands[r].call, 0)
         [] q.body \in stepSaved[r] -> HandsAre(r, "ask", q.body, 0)
         [] OTHER -> HandsAre(r, "run", q.body, 0)
    /\ UNCHANGED <<stepSaved, stepCount, stepRan, stepCut>>

Execute(r) ==
  /\ stepHands[r].pc = "run"
  /\ stepRan' = [stepRan EXCEPT ![r][stepHands[r].call] = @ + 1]
  /\ HandsAre(r, "save", stepHands[r].call, 0)
  /\ UNCHANGED <<stepPosts, stepSaved, stepCount, stepCut>>

Remember(r) ==
  /\ stepHands[r].pc = "save"
  /\ stepSaved' = [stepSaved EXCEPT ![r] = @ \union {stepHands[r].call}]
  /\ HandsAre(r, "ask", stepHands[r].call, 0)
  /\ UNCHANGED <<stepPosts, stepCount, stepRan, stepCut>>

\* The drive ends short of done (its deadline, too many failures, a store that
\* rejects, a crash), and a later one begins with nothing to POST.
DriveAgain(r) ==
  /\ stepHands[r].pc # "done"
  /\ stepCount.again[r] < StepMaxRestarts
  /\ stepCount' = [stepCount EXCEPT !.again[r] = @ + 1]
  /\ stepSaved' = IF stepKnob.lasts THEN stepSaved ELSE [stepSaved EXCEPT ![r] = {}]
  /\ stepCut' = IF stepHands[r].pc = "save"
                  THEN [stepCut EXCEPT ![r][stepHands[r].call] = @ + 1] ELSE stepCut
  /\ HandsAre(r, "ask", NoStep, 0)
  /\ UNCHANGED <<stepPosts, stepRan>>

HandsNext ==
  /\ \E r \in StepRuns :
       \/ Ask(r) \/ TransportFails(r) \/ HearAnswer(r) \/ Execute(r) \/ Remember(r)
       \/ DriveAgain(r)
  /\ UNCHANGED <<stepKnob, stepPast, stepDue, stepIntake, stepEvictions,
                 stepRejected>>

StepNext == HostNext \/ HandsNext

StepSpec == StepInit /\ [][StepNext]_stepVars

-----------------------------------------------------------------------------

(* "A store gives 'run once per `callId`' except between `execute`         *)
(* finishing and `set` landing" (step-host.ts:652); the default store      *)
(* forgets with its drive.  And the checkpoint is behind no step that was  *)
(* not run, nor the drive done before its run is.                          *)
StepsRunOnce ==
  \A r \in StepRuns :
    /\ \A c \in CallsOf(r) :
         /\ stepRan[r][c] <= 1 + (IF stepKnob.lasts THEN stepCut[r][c]
                                    ELSE stepCount.again[r])
         /\ Covered(r, c) => stepRan[r][c] > 0
    /\ stepHands[r].pc = "done" => NextStepOf(r) = "done"

(* "A re-POSTed result is absorbed exactly once" (step-host.ts:43): a host *)
(* that answers a result with a step, or with the end of the run, has it   *)
(* in the checkpoint, or has another POST of it in resume().  Only when    *)
(* that resume() rejected does the host answer and drop it, every time,    *)
(* until it is evicted: its key stays pending.                             *)
NothingSwallowed ==
  [][\A q \in stepPosts' \ stepPosts :
       q.at = "answered" /\ q.posted # NoStep /\ q.body # "working" =>
         \/ Covered(q.run, q.posted)
         \/ \E p \in stepPosts : /\ p.run = q.run /\ p.posted = q.posted
                                 /\ p.at = "resume"
         \/ <<q.run, q.posted>> \in stepRejected]_stepVars

(* The carrier gets every result through.                                  *)
StepsGoThrough == []StepsRunOnce /\ NothingSwallowed
=============================================================================
