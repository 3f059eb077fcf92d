---------------------------- MODULE ClassifyBatch ----------------------------
(***************************************************************************)
(* createClassifyBatch (packages/tea/src/internal/jev/classify-batch/      *)
(* index.ts): items become batches in a window, batches are asked about at *)
(* most so many at a time by a fan-out, answers are cached for a while, and *)
(* failures are marked.  An item is its key.  A batch in flight comes back *)
(* well or with an error, in any order; the window's timer may ring late,  *)
(* for a window that is closed.  The slice is durable; the asks in flight  *)
(* are lost with the host, and nothing asks again.                         *)
(***************************************************************************)
EXTENDS FanOut

CONSTANTS
  ClassKeys,        \* the keys items have
  ClassMax,         \* maxItems
  ClassWindow,      \* concurrency
  ClassTtl,         \* ttlMs
  ClassHorizon,     \* bound: time
  ClassMaxItems,    \* bound: the items offered
  ClassMaxCrashes   \* bound: the host goes down so often

ASSUME ClassAssumption ==
  /\ {ClassMax, ClassWindow, ClassTtl} \subseteq Nat \ {0}
  /\ {ClassHorizon, ClassMaxItems, ClassMaxCrashes} \subseteq Nat

VARIABLES
  class,         \* the slice: buffer, fan, cache (when each expires), failed
  classAsks,     \* the batches a handler is asking about
  classRung,     \* an expiry Msg of a window is on the run's line
  classLast,     \* how each key's last attempt stands
  classLost,     \* the keys whose ask was lost with the host
  classTime, classItems, classCrashes

classVars == <<class, classAsks, classRung, classLast, classLost, classTime,
               classItems, classCrashes>>

NotCached == 0

ClassInit ==
  /\ class = [buffer |-> <<>>, fan |-> InitFan,
              cache |-> [k \in ClassKeys |-> NotCached], failed |-> {}]
  /\ classAsks = <<>> /\ classRung = FALSE
  /\ classLast = [k \in ClassKeys |-> "never"]
  /\ classLost = {} /\ classTime = 1 /\ classItems = 0 /\ classCrashes = 0

-----------------------------------------------------------------------------

Batched(batches) == UNION {ToSet(b) : b \in ToSet(batches)}

MutInFlight(s) == ToSet(s.buffer) \union Batched(s.fan.running)
InFlight(s) == ToSet(s.buffer) \union Batched(s.fan.running \o s.fan.pending)

IsAnswered(s, k, at) == s.cache[k] # NotCached /\ at < s.cache[k]

\* ANSWER_ORDER: the cache, the failures, what is in flight.
AnswerFor(s, k, at) ==
  CASE IsAnswered(s, k, at) -> "answered"
    [] ~IsAnswered(s, k, at) /\ k \in s.failed -> "failed"
    [] ~IsAnswered(s, k, at) /\ k \notin s.failed ->
         IF k \in InFlight(s) THEN "pending" ELSE "absent"

\* A verb's slice, with what the fan-out did, becomes the State; its Cmds start.
ClassFolds(s, r) ==
  /\ class' = [s EXCEPT !.fan = r.s]
  /\ classAsks' = classAsks \o r.launch

Flush(s, buffer) ==
  ClassFolds([s EXCEPT !.buffer = <<>>], Scatter(s.fan, <<buffer>>, ClassWindow))

\* An item taken in is in flight again: it loses its failure mark.
MutTaken(s, k) == [s EXCEPT !.buffer = Append(@, k)]
Taken(s, k) == [s EXCEPT !.buffer = Append(@, k), !.failed = @ \ {k}]

Drops(s, k) == IsAnswered(s, k, classTime) \/ k \in InFlight(s)

OfferItem(k) ==
  /\ classItems < ClassMaxItems
  /\ classItems' = classItems + 1
  /\ IF Drops(class, k)
       THEN UNCHANGED <<class, classAsks, classLast>>
       ELSE /\ classLast' = [classLast EXCEPT ![k] = "asked"]
            /\ LET s == Taken(class, k)
               IN IF Len(s.buffer) >= ClassMax
                    THEN Flush(s, s.buffer)
                    ELSE class' = s /\ UNCHANGED classAsks
  /\ UNCHANGED <<classRung, classLost, classTime, classCrashes>>

ClassWindowRings ==
  /\ class.buffer # <<>> /\ ~classRung
  /\ classRung' = TRUE
  /\ UNCHANGED <<class, classAsks, classLast, classLost, classTime, classItems,
                 classCrashes>>

ClassOnWindow ==
  /\ classRung /\ classRung' = FALSE
  /\ IF class.buffer = <<>> THEN UNCHANGED <<class, classAsks>>
                            ELSE Flush(class, class.buffer)
  /\ UNCHANGED <<classLast, classLost, classTime, classItems, classCrashes>>

\* The ask at i is over: the fan-out settles the batch, and may start the next.
BatchSettles(i, s, r, status) ==
  /\ class' = [s EXCEPT !.fan = r.s]
  /\ classAsks' = RemoveAt(classAsks, i) \o r.launch
  /\ classLast' = [k \in ClassKeys |->
                     IF k \in ToSet(classAsks[i]) THEN status ELSE classLast[k]]
  /\ UNCHANGED <<classRung, classLost, classTime, classItems, classCrashes>>

OnBatchOk(i) ==
  LET batch == classAsks[i]
      s == [class EXCEPT
              !.cache = [k \in ClassKeys |->
                           IF k \in ToSet(batch) THEN classTime + ClassTtl ELSE @[k]],
              !.failed = @ \ ToSet(batch)]
  IN BatchSettles(i, s, ItemOk(class.fan, batch, ClassWindow, FALSE), "answered")

\* The keys of a running batch are marked; nothing is cached.
OnBatchErr(i) ==
  LET batch == classAsks[i]
      keys == IF batch \in ToSet(class.fan.running) THEN ToSet(batch) ELSE {}
      s == [class EXCEPT !.failed = @ \union keys]
  IN BatchSettles(i, s, ItemErr(class.fan, batch, ClassWindow, FALSE), "failed")

OnEvict ==
  /\ class' = [class EXCEPT !.cache =
       [k \in ClassKeys |-> IF classTime >= @[k] THEN NotCached ELSE @[k]]]
  /\ UNCHANGED <<classAsks, classRung, classLast, classLost, classTime,
                 classItems, classCrashes>>

ClassHostDown ==
  /\ classCrashes < ClassMaxCrashes
  /\ classCrashes' = classCrashes + 1
  /\ classLost' = classLost \union Batched(classAsks)
  /\ classAsks' = <<>> /\ classRung' = FALSE
  /\ UNCHANGED <<class, classLast, classTime, classItems>>

ClassTime ==
  /\ classTime < ClassHorizon
  /\ classTime' = classTime + 1
  /\ UNCHANGED <<class, classAsks, classRung, classLast, classLost, classItems,
                 classCrashes>>

ClassNext ==
  \/ \E k \in ClassKeys : OfferItem(k)
  \/ \E i \in DOMAIN classAsks : OnBatchOk(i) \/ OnBatchErr(i)
  \/ ClassWindowRings \/ ClassOnWindow \/ OnEvict \/ ClassHostDown \/ ClassTime

ClassSpec == ClassInit /\ [][ClassNext]_classVars

-----------------------------------------------------------------------------

(* answerFor tells a key's last attempt: pending from the instant it is    *)
(* taken in until its batch settles, failed until it is taken in again,    *)
(* answered for ttlMs and absent from there.  No key is in two batches at  *)
(* once, no more batches are out than the window allows, and a key that    *)
(* reads pending waits for something: the open window's timer, an ask in   *)
(* flight, or a place behind a full window.  The asks lost with a host are *)
(* the exception: their keys read pending for good, and keep their place.  *)
AnswersAreTrue ==
  /\ \A k \in ClassKeys :
       LET answer == AnswerFor(class, k, classTime)
       IN CASE classLast[k] = "never" -> answer = "absent"
            [] classLast[k] = "asked" -> answer = "pending"
            [] classLast[k] = "failed" -> answer = "failed"
            [] classLast[k] = "answered" -> answer \in {"answered", "absent"}
  /\ LET lots == Append(class.fan.running \o class.fan.pending, class.buffer)
     IN \A i, j \in DOMAIN lots :
          IF i = j THEN IsInjective(lots[i])
                   ELSE ToSet(lots[i]) \intersect ToSet(lots[j]) = {}
  /\ Len(class.fan.running) <= ClassWindow
  /\ class.fan.pending # <<>> => Len(class.fan.running) = ClassWindow
  /\ Batched(class.fan.running) = Batched(classAsks) \union classLost
=============================================================================
