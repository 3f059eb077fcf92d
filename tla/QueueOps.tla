------------------------------ MODULE QueueOps ------------------------------
(***************************************************************************)
(* The pure queue operations of packages/tea/src/internal/work-queue/      *)
(* ops.ts, which the work queue, the fan-out, the monitored run, the saga  *)
(* and the intake delegate every status change to.  An item is its id and  *)
(* its status; inputs, instants and outputs are left out.                  *)
(***************************************************************************)
EXTENDS SequencesExt, Kept

ItemStatus == {"pending", "running", "done", "failed", "cancelled"}

Item(id, status) == [id |-> id, status |-> status]

Enqueue(queue, id) == Append(queue, Item(id, "pending"))

Claimable(queue) ==
  LET pending(i) == i.status = "pending" IN SelectInSeq(queue, pending)

\* claimNext answers null, and the caller keeps its queue, when nothing pends.
Claim(queue) ==
  IF Claimable(queue) = 0 THEN queue
    ELSE [queue EXCEPT ![Claimable(queue)].status = "running"]

\* Done items leave the queue; so does a removed one, whatever its status.
MarkDone(queue, id) == Kept(queue, {item \in ToSet(queue) : item.id # id})

\* The first item of that id; its status tells what the patch did.
Patch(queue, id, status) ==
  LET named(i) == i.id = id
      at == SelectInSeq(queue, named)
  IN IF at = 0 THEN queue ELSE [queue EXCEPT ![at].status = status]

ResetRunning(queue) ==
  [i \in DOMAIN queue |->
     IF queue[i].status = "running" THEN Item(queue[i].id, "pending")
                                    ELSE queue[i]]

RunningItem(queue) ==
  LET running(i) == i.status = "running" IN SelectInSeq(queue, running)
=============================================================================
