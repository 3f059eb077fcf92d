------------------------------- MODULE Intake -------------------------------
(***************************************************************************)
(* createIntake (packages/tea/src/internal/idempotency/idempotent-intake/  *)
(* index.ts): payloads that may arrive many times are worked once.  The    *)
(* slice (what was seen, what is queued) is durable, the workers and their *)
(* Cmds are not.  Wired as the wired machine of its tests: a new payload   *)
(* kicks the drain, the drain claims an item and starts its worker, whose  *)
(* answer completes the key.  A host either keeps every key for ever and   *)
(* clears completed items when it likes, or lets keys age out and clears   *)
(* an item in the step that completes it.                                  *)
(***************************************************************************)
EXTENDS QueueOps, FiniteSets, Naturals

CONSTANTS
  IntakeKeys,       \* the keys payloads come under
  IntakeMaxItems,   \* bound: payloads accepted
  IntakeMaxCrashes  \* bound: the host goes down so often

ASSUME IntakeAssumption == {IntakeMaxItems, IntakeMaxCrashes} \subseteq Nat

VARIABLES
  intakeAges,       \* do completed keys age out (ttlMs)
  seen,             \* each key: "absent", "pending" or "done"
  intakeQueue,      \* the items; an item's id is its key and a number
  kicks,            \* intake:process Cmds whose claim is not folded yet
  works,            \* the items at work
  accepted,         \* how many payloads were accepted
  completed,        \* the items whose completion was folded
  intakeCrashes     \* how often the host went down

intakeVars == <<intakeAges, seen, intakeQueue, kicks, works, accepted,
                completed, intakeCrashes>>

IntakeInit ==
  /\ intakeAges \in BOOLEAN
  /\ seen = [k \in IntakeKeys |-> "absent"] /\ intakeQueue = <<>>
  /\ kicks = 0 /\ works = {} /\ accepted = 0 /\ completed = {}
  /\ intakeCrashes = 0

ItemKey(id) == id[1]

-----------------------------------------------------------------------------

\* What a duplicate finds.  Work in flight never ages out, however slow it is.
MutLiveEntry(k, late) == IF late THEN "absent" ELSE seen[k]
LiveEntry(k, late) == IF late /\ seen[k] = "done" THEN "absent" ELSE seen[k]

\* A payload under key k, long after its key completed perhaps.  A duplicate is
\* dropped, or answered from the cache, and touches nothing.
Receive(k) ==
  \E late \in {FALSE, intakeAges} :
    \/ LiveEntry(k, late) # "absent" /\ UNCHANGED intakeVars
    \/ /\ LiveEntry(k, late) = "absent"
       /\ accepted < IntakeMaxItems
       /\ accepted' = accepted + 1
       /\ seen' = [seen EXCEPT ![k] = "pending"]
       /\ intakeQueue' = Enqueue(intakeQueue, <<k, accepted'>>)
       /\ kicks' = kicks + 1
       /\ UNCHANGED <<intakeAges, works, completed, intakeCrashes>>

MutAlreadyDone(id) == FALSE
AlreadyDone(id) == seen[ItemKey(id)] = "done"

MayClaim(item) == item.status = "pending" /\ ~AlreadyDone(item.id)

\* What a drain of a queue will claim.
ToClaim(queue) == {item \in ToSet(queue) : MayClaim(item)}

\* One kick of the drain: the first item that may be claimed goes to a worker.
ClaimNext ==
  /\ kicks > 0
  /\ kicks' = kicks - 1
  /\ LET at == SelectInSeq(intakeQueue, MayClaim)
     IN IF at = 0 THEN UNCHANGED <<intakeQueue, works>>
          ELSE /\ intakeQueue' =
                    Patch(intakeQueue, intakeQueue[at].id, "running")
               /\ works' = works \union {intakeQueue[at].id}
  /\ UNCHANGED <<intakeAges, seen, accepted, completed, intakeCrashes>>

\* A worker's answer is folded.  A host whose keys age out clears the item too.
CompleteItem(id) ==
  /\ id \in works
  /\ works' = works \ {id}
  /\ seen' = [seen EXCEPT ![ItemKey(id)] = "done"]
  /\ completed' = completed \union {id}
  /\ intakeQueue' =
       IF intakeAges THEN MarkDone(intakeQueue, id) ELSE intakeQueue
  /\ UNCHANGED <<intakeAges, kicks, accepted, intakeCrashes>>

\* A host whose keys stay clears a completed item some time later.
Clear(id) ==
  /\ AlreadyDone(id) /\ id \in {intakeQueue[i].id : i \in DOMAIN intakeQueue}
  /\ ~intakeAges
  /\ intakeQueue' = MarkDone(intakeQueue, id)
  /\ UNCHANGED <<intakeAges, seen, kicks, works, accepted, completed,
                 intakeCrashes>>

\* boot: a dead worker's claim is armed again, unless its key is done.
Rearmed(item) ==
  IF item.status = "running" /\ ~AlreadyDone(item.id)
    THEN Item(item.id, "pending") ELSE item

\* The workers and the kicks are gone; the host boots the slice and drains it.
GoDownAndBoot ==
  /\ intakeCrashes < IntakeMaxCrashes
  /\ intakeCrashes' = intakeCrashes + 1
  /\ works' = {}
  /\ intakeQueue' = [i \in DOMAIN intakeQueue |-> Rearmed(intakeQueue[i])]
  /\ kicks' = Cardinality(ToClaim(intakeQueue'))
  /\ UNCHANGED <<intakeAges, seen, accepted, completed>>

IntakeNext ==
  \/ \E k \in IntakeKeys : Receive(k)
  \/ ClaimNext \/ GoDownAndBoot
  \/ \E id \in IntakeKeys \X (1 .. IntakeMaxItems) :
       CompleteItem(id) \/ Clear(id)

IntakeSpec == IntakeInit /\ [][IntakeNext]_intakeVars

-----------------------------------------------------------------------------

(* Work is done once: no item is at work whose completion was folded ("a   *)
(* complete-then-crash never re-runs"), no key has two workers ("a slow    *)
(* worker is never double-enqueued"), and a key that drops its duplicates  *)
(* because it is pending has a worker, or an item a coming claim reaches.  *)
WorkIsDoneOnce ==
  /\ works \intersect completed = {}
  /\ \A id, other \in works : ItemKey(id) = ItemKey(other) => id = other
  /\ \A k \in IntakeKeys : seen[k] = "pending" =>
       \/ \E id \in works : ItemKey(id) = k
       \/ /\ \E item \in ToClaim(intakeQueue) : ItemKey(item.id) = k
          /\ kicks >= Cardinality(ToClaim(intakeQueue))
=============================================================================
