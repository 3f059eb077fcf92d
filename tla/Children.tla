------------------------------ MODULE Children ------------------------------
(***************************************************************************)
(* spawn and stop (packages/tea/src/effect/children.ts): a parent host     *)
(* runs child machines, each in a scope of its own forked from the         *)
(* parent's, and keeps a table of them.  The steps of a spawn interleave   *)
(* with whatever closes the child's scope: a stop, its run failing, the    *)
(* parent's scope closing; and with an interrupt of the caller.  Of the    *)
(* effect library: closing a scope marks it closed at once and then runs   *)
(* its finalizers, newest first; a finalizer added to a closed scope, or a *)
(* scope forked from one, is closed on the spot.                           *)
(***************************************************************************)
CONSTANT Child   \* the children a parent may spawn, one spawn each

VARIABLES
  spawning,      \* where each spawn stands
  scope,         \* each child's scope: none, open, closing or closed
  childRun,      \* each child's run: none, up or down
  table,         \* the children the host's table holds
  notice,        \* each child's notice: none, owed or told
  interrupted,   \* the spawns whose caller was interrupted
  parentOpen,    \* is the parent's scope open
  parentStops    \* the child a Cmd handler of the parent is stopping

childVars == <<spawning, scope, childRun, table, notice, interrupted,
               parentOpen, parentStops>>

Nobody == "nobody"

ChildrenInit ==
  /\ spawning = [c \in Child |-> "no"] /\ scope = [c \in Child |-> "none"]
  /\ childRun = [c \in Child |-> "none"] /\ notice = [c \in Child |-> "none"]
  /\ table = {} /\ interrupted = {} /\ parentOpen = TRUE /\ parentStops = Nobody

UnderWay(c) == spawning[c] \in {"start", "enrol", "recheck"}

At(c, from, to) == spawning[c] = from /\ spawning' = [spawning EXCEPT ![c] = to]

-----------------------------------------------------------------------------

\* The fork, and the finalizer that removes and notifies.
Spawn(c) ==
  /\ At(c, "no", "start")
  /\ IF parentOpen
       THEN scope' = [scope EXCEPT ![c] = "open"] /\ UNCHANGED notice
       ELSE /\ scope' = [scope EXCEPT ![c] = "closed"]
            /\ notice' = [notice EXCEPT ![c] = "owed"]
  /\ UNCHANGED <<childRun, table, interrupted, parentOpen, parentStops>>

\* The run a start leaves in a scope that has closed is stopped at once.
StartSucceeds(c) ==
  /\ At(c, "start", "enrol")
  /\ childRun' =
       [childRun EXCEPT ![c] = IF scope[c] = "open" THEN "up" ELSE "down"]
  /\ UNCHANGED <<scope, table, notice, interrupted, parentOpen, parentStops>>

StartFails(c) ==
  /\ At(c, "start", "failed")
  /\ scope' = [scope EXCEPT ![c] = IF @ = "open" THEN "closing" ELSE @]
  /\ UNCHANGED <<childRun, table, notice, interrupted, parentOpen, parentStops>>

Enrol(c) ==
  /\ At(c, "enrol", "recheck")
  /\ table' = table \union {c}
  /\ UNCHANGED <<scope, childRun, notice, interrupted, parentOpen, parentStops>>

\* A scope that closed under start ran remove before enrol.
MutRechecked(c) == table
Rechecked(c) == IF scope[c] = "open" THEN table ELSE table \ {c}

Recheck(c) ==
  /\ At(c, "recheck", "done")
  /\ table' = Rechecked(c)
  /\ UNCHANGED <<scope, childRun, notice, interrupted, parentOpen, parentStops>>

\* An interrupt of the caller waits for the spawn to be over.
MutInterruptedAt(step) == "gone"
InterruptedAt(step) == step

Interrupt(c) ==
  /\ UnderWay(c) /\ c \notin interrupted
  /\ interrupted' = interrupted \union {c}
  /\ spawning' = [spawning EXCEPT ![c] = InterruptedAt(@)]
  /\ UNCHANGED <<scope, childRun, table, notice, parentOpen, parentStops>>

-----------------------------------------------------------------------------

\* A Sub of the child fails, or its reducer throws, or the host calls stop.
CloseChild(c) ==
  /\ scope[c] = "open" /\ spawning[c] # "no"
  /\ scope' = [scope EXCEPT ![c] = "closing"]
  /\ UNCHANGED <<spawning, childRun, table, notice, interrupted, parentOpen,
                 parentStops>>

CloseParent ==
  /\ parentOpen /\ parentOpen' = FALSE
  /\ scope' = [c \in Child |-> IF scope[c] = "open" THEN "closing" ELSE scope[c]]
  /\ UNCHANGED <<spawning, childRun, table, notice, interrupted, parentStops>>

\* The first finalizer to run, the last that was added: the run stops.
StopRun(c) ==
  /\ scope[c] = "closing" /\ childRun[c] = "up"
  /\ childRun' = [childRun EXCEPT ![c] = "down"]
  /\ UNCHANGED <<spawning, scope, table, notice, interrupted, parentOpen,
                 parentStops>>

\* Then spawn's own: remove, and the notice on a fiber nobody waits for.
MutClosesAs == "closing"
ClosesAs == "closed"

RemoveAndNotify(c) ==
  /\ scope[c] = "closing" /\ childRun[c] # "up" /\ notice[c] = "none"
  /\ table' = table \ {c}
  /\ notice' = [notice EXCEPT ![c] = "owed"]
  /\ scope' = [scope EXCEPT ![c] = ClosesAs]
  /\ UNCHANGED <<spawning, childRun, interrupted, parentOpen, parentStops>>

\* A notice that waits for the parent's line: no handler of it may be running.
Notify(c) ==
  /\ notice[c] = "owed" /\ parentStops = Nobody
  /\ notice' = [notice EXCEPT ![c] = "told"]
  /\ scope' = [scope EXCEPT ![c] = "closed"]
  /\ UNCHANGED <<spawning, childRun, table, interrupted, parentOpen, parentStops>>

\* A Cmd handler of the parent stops a child and waits for it.
ParentStops(c) ==
  /\ parentStops = Nobody /\ c \in table /\ parentStops' = c
  /\ scope' = [scope EXCEPT ![c] = IF @ = "open" THEN "closing" ELSE @]
  /\ UNCHANGED <<spawning, childRun, table, notice, interrupted, parentOpen>>

ParentGoesOn ==
  /\ parentStops # Nobody /\ scope[parentStops] = "closed"
  /\ parentStops' = Nobody
  /\ UNCHANGED <<spawning, scope, childRun, table, notice, interrupted,
                 parentOpen>>

ChildrenNext ==
  \/ \E c \in Child :
       \/ Spawn(c) \/ StartSucceeds(c) \/ StartFails(c) \/ Enrol(c) \/ Recheck(c)
       \/ Interrupt(c) \/ CloseChild(c) \/ StopRun(c) \/ RemoveAndNotify(c)
       \/ Notify(c) \/ ParentStops(c)
  \/ CloseParent \/ ParentGoesOn

ChildrenSpec == ChildrenInit /\ [][ChildrenNext]_childVars

-----------------------------------------------------------------------------

(* Once a spawn is over, however it raced with its scope: the table holds  *)
(* no child whose scope has closed, and a child whose scope is open is in  *)
(* it; a closed scope left no run and owes or sent its notice.  And a      *)
(* parent that stops a child never waits for the notice that waits for it. *)
TableIsTrue ==
  /\ \A c \in Child : ~UnderWay(c) =>
       /\ c \in table => scope[c] \in {"open", "closing"}
       /\ scope[c] = "open" => c \in table
       /\ scope[c] = "closed" => childRun[c] # "up" /\ notice[c] # "none"
  /\ \A c \in Child :
       parentStops = c /\ notice[c] = "owed" => scope[c] = "closed"
=============================================================================
