----------------------------- MODULE MCAgentRun -----------------------------
(* An agent for TLC: a brain and a compaction that try twice, a tool with  *)
(* a deadline of two ticks that tries twice, and a model with three calls  *)
(* to make.  The other bounds are in the .cfg files.                       *)
EXTENDS AgentRun

Twice == [deadline |-> 0, attempts |-> 2, threshold |-> 0, cooldown |-> 0,
          probes |-> 0, ttl |-> 0, capacity |-> 0, refill |-> 0]
TwiceInTime == [Twice EXCEPT !.deadline = 2]

TwoCalls == <<"c1", "c2">>
ThreeCalls == <<"c1", "c2", "c3">>
=============================================================================
