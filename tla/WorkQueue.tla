----------------------------- MODULE WorkQueue -----------------------------
(***************************************************************************)
(* createQueue (packages/tea/src/internal/work-queue/index.ts): the pure   *)
(* queue operations over a store.  Every operation awaits the load of the  *)
(* whole queue, applies its operation and awaits the save of the whole     *)
(* queue, with nothing that keeps two of them apart; a process may go down *)
(* between the two, and its boot resets what was left running.             *)
(***************************************************************************)
EXTENDS QueueOps, Integers

CONSTANTS
  QueueClients,  \* callers whose operations may overlap
  QueueMaxIds,   \* bound: ids handed out, each to one enqueue
  QueueMaxOps    \* bound: operations begun

ASSUME QueueAssumption == QueueMaxIds \in Nat /\ QueueMaxOps \in Nat

VARIABLES
  stored,     \* the queue in the store
  queueOp,    \* the operation each client has open, and the queue it loaded
  queueIds,   \* ids handed out so far
  queueOps,   \* operations begun so far
  queueMixed, \* history: clients whose open operation met another one
  queueSure,  \* history: items an operation that met no other one put there
  queueHeld   \* history: items such an operation claimed, and no one gave back

queueVars == <<stored, queueOp, queueIds, queueOps, queueMixed, queueSure,
               queueHeld>>

QueueIds == 1 .. QueueMaxIds
OnItem == {"markDone", "markFailed", "markCancelled", "removeItem", "retryItem",
           "bindOutput"}
Op(kind, id, loaded) == [kind |-> kind, id |-> id, loaded |-> loaded]
NoOp == Op("none", 0, <<>>)
Open == {c \in QueueClients : queueOp[c].kind # "none"}

QueueInit ==
  /\ stored = <<>>
  /\ queueOp = [c \in QueueClients |-> NoOp]
  /\ queueIds = 0 /\ queueOps = 0
  /\ queueMixed = {} /\ queueSure = {} /\ queueHeld = {}

-----------------------------------------------------------------------------

\* list(): the queue as the store has it now.
MutLoaded(c) == queueOp[c].loaded
Loaded(c) == stored

Loads(c, kind, id) ==
  /\ c \notin Open
  /\ queueOps < QueueMaxOps
  /\ queueOps' = queueOps + 1
  /\ queueOp' = [queueOp EXCEPT ![c] = Op(kind, id, Loaded(c))]
  /\ queueMixed' = IF Open = {} THEN queueMixed
                     ELSE queueMixed \union Open \union {c}
  /\ UNCHANGED <<stored, queueSure, queueHeld>>

BeginEnqueue(c) ==
  /\ queueIds < QueueMaxIds
  /\ queueIds' = queueIds + 1
  /\ Loads(c, "enqueue", queueIds + 1)

BeginOther(c) ==
  /\ \/ \E kind \in {"claimNext", "resetRunningToPending"} : Loads(c, kind, 0)
     \/ \E kind \in OnItem, id \in 1 .. queueIds : Loads(c, kind, id)
  /\ UNCHANGED queueIds

\* What the operation makes of the queue it loaded; an id it does not name
\* leaves the queue alone, and then nothing is saved.
Status ==
  [markFailed |-> "failed", markCancelled |-> "cancelled", retryItem |-> "pending"]

Applied(op) ==
  CASE op.kind = "enqueue" -> Enqueue(op.loaded, op.id)
    [] op.kind = "claimNext" -> Claim(op.loaded)
    [] op.kind \in {"markDone", "removeItem"} -> MarkDone(op.loaded, op.id)
    [] op.kind \in DOMAIN Status -> Patch(op.loaded, op.id, Status[op.kind])
    [] op.kind = "resetRunningToPending" -> ResetRunning(op.loaded)
    [] op.kind = "bindOutput" -> op.loaded

Names(op) == \E i \in DOMAIN op.loaded : op.loaded[i].id = op.id
Saves(op) == IF op.kind \in OnItem THEN Names(op) ELSE Applied(op) # op.loaded

\* The items an operation gives back, or takes out of the queue.
Ends(op) ==
  CASE op.kind \in OnItem \ {"bindOutput"} -> {op.id}
    [] op.kind = "resetRunningToPending" -> QueueIds
    [] op.kind \in {"enqueue", "claimNext", "bindOutput"} -> {}

Claimed(op) ==
  IF op.kind = "claimNext" /\ Claimable(op.loaded) # 0
    THEN {op.loaded[Claimable(op.loaded)].id} ELSE {}

\* The save lands, and the operation resolves.
SaveQueue(c) ==
  LET op == queueOp[c]
      alone == c \notin queueMixed
  IN /\ c \in Open
     /\ stored' = IF Saves(op) THEN Applied(op) ELSE stored
     /\ queueOp' = [queueOp EXCEPT ![c].kind = "none"]
     /\ queueMixed' = queueMixed \ {c}
     /\ queueSure' = (queueSure \union IF alone /\ op.kind = "enqueue" THEN {op.id}
                                         ELSE {})
                     \ (IF op.kind \in {"markDone", "removeItem"} THEN {op.id} ELSE {})
     /\ queueHeld' = (queueHeld \union IF alone THEN Claimed(op) ELSE {}) \ Ends(op)
     /\ UNCHANGED <<queueIds, queueOps>>

\* The save rejects, or the process goes down, before anything is written.
LoseOp(c) ==
  /\ c \in Open
  /\ queueOp' = [queueOp EXCEPT ![c].kind = "none"]
  /\ queueMixed' = queueMixed \ {c}
  /\ UNCHANGED <<stored, queueIds, queueOps, queueSure, queueHeld>>

QueueNext ==
  \E c \in QueueClients :
    BeginEnqueue(c) \/ BeginOther(c) \/ SaveQueue(c) \/ LoseOp(c)

QueueSpec == QueueInit /\ [][QueueNext]_queueVars

-----------------------------------------------------------------------------

(* An operation that met no other one sticks: the item it enqueued stays   *)
(* until someone takes it out, and the one it claimed runs, and is claimed *)
(* by no one else, until someone gives it back.  Operations that overlap   *)
(* may lose each other's updates (two enqueues, one item; one item, two    *)
(* claims) but nobody else's.                                              *)
LoneOpsStick ==
  /\ \A id \in queueSure : \E i \in DOMAIN stored : stored[i].id = id
  /\ \A i \in DOMAIN stored : stored[i].id \in queueHeld => stored[i].status = "running"
=============================================================================
