---------------------------- MODULE MonitoredRun ----------------------------
(***************************************************************************)
(* createMonitoredRun (packages/tea/src/internal/flow/monitored-run/       *)
(* index.ts): the phase of a run, its pipeline of stages and the watchdog  *)
(* that fails a run making no progress.  The verbs are pure and emit no    *)
(* Cmd (checkpoints are left out).  A run id is the count of starts.       *)
(* markStale is left out: nothing in the agent calls it.                   *)
(***************************************************************************)
EXTENDS QueueOps, Integers

RunPhases == {"idle", "running", "stale", "done", "failed", "cancelled"}
LiveRun(run) == run.phase \in {"running", "stale"}

InitRun ==
  [phase |-> "idle", id |-> 0, stages |-> <<>>, startedAt |-> 0,
   progressAt |-> 0, seq |-> 0]

\* The stages 1..n wait in a queue, the first is claimed.
SeedStages(n) ==
  Claim(FoldLeft(Enqueue, <<>>, [i \in 1 .. n |-> i]))

\* A restart numbers its progress from 0 again, under a new id.
StartRun(run, n, at) ==
  [phase |-> "running", id |-> run.id + 1, stages |-> SeedStages(n),
   startedAt |-> at, progressAt |-> at, seq |-> 0]

Bumped(run, at) == [run EXCEPT !.progressAt = at, !.seq = @ + 1]

Progress(run, at) ==
  IF LiveRun(run) THEN [Bumped(run, at) EXCEPT !.phase = "running"] ELSE run

CancelRun(run) ==
  IF run.phase \in {"idle", "running", "stale"}
    THEN [run EXCEPT !.phase = "cancelled"] ELSE run

\* The stage under way is done; the run is when none is left to claim.
Advance(run, at) ==
  LET current == RunningItem(run.stages)
      left == IF current = 0 THEN run.stages
                ELSE MarkDone(run.stages, run.stages[current].id)
      bumped == [Bumped(run, at) EXCEPT !.stages = left]
  IN IF ~LiveRun(run) THEN run
     ELSE IF Claimable(left) = 0 THEN [bumped EXCEPT !.phase = "done"]
     ELSE [bumped EXCEPT !.stages = Claim(left)]

\* Only the alarm of this run and of its latest progress counts.
OnDeadline(run, id, seq) ==
  IF LiveRun(run) /\ id = run.id /\ seq = run.seq
    THEN [run EXCEPT !.phase = "failed"] ELSE run

BootRun(run, at) ==
  IF LiveRun(run) THEN [Bumped(run, at) EXCEPT !.phase = "running"] ELSE run

\* The alarms a run asks for; limit 0: no watchdog.
RunDeadlines(run, limit) ==
  IF limit = 0 \/ ~LiveRun(run) THEN {}
    ELSE {[kind |-> "safety", key |-> run.id, seq |-> run.seq,
           at |-> run.progressAt + limit]}
=============================================================================
