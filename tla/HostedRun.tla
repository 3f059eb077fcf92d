------------------------------ MODULE HostedRun ------------------------------
(***************************************************************************)
(* The handle runIn gives useMachine (packages/tea/src/effect/run-in.ts):  *)
(* a run in the caller's ManagedRuntime, whose Layer may still be built    *)
(* when the handle is used.  Until the run exists its Msgs and its         *)
(* registrations are held.                                                 *)
(*                                                                         *)
(* Of the effect library it is assumed that a fiber may yield between two  *)
(* of its steps, that a Layer is built or fails, once, and that a          *)
(* finalizer added to a closed Scope is run on the spot (effect/run.ts:    *)
(* "A Scope that closes before that release is added runs it on add").     *)
(***************************************************************************)
EXTENDS Integers, FiniteSets, SequencesExt

CONSTANTS
  HostRegs,    \* the registrations that are made: subscribe, observe, on
  HostMaxMsgs  \* bound: the Msgs that are posted

ASSUME HostAssumption == HostMaxMsgs \in Nat

VARIABLES
  hostPhase,     \* building, live or closed
  hostFiber,     \* the fiber: waits for the Layer, starts, started, ended
  hostScope,     \* the Scope the run runs in: open or closed
  hostRun,       \* the run: none, up or stopped
  hostHeld,      \* Msgs held for the run
  hostTold,      \* Msgs the run took, in order
  hostRefused,   \* Msgs a stopped run or a closed handle refused
  hostDiscards,  \* Msgs reported under phase "discard"
  hostAsked,     \* registrations asked for
  hostWaiting,   \* of these, those that wait for the run
  hostMade,      \* and those that stand on it
  hostUndone,    \* and those that were undone
  hostAttached,  \* the promise dispatch waits for: open, ok or err
  hostReports,   \* how often a failure was reported under phase "boot"
  hostMsgs,
  hostEarly      \* history: it was stopped before its Layer was built

hostMsgVars == <<hostHeld, hostTold, hostRefused, hostDiscards, hostMsgs>>
hostRegVars == <<hostAsked, hostWaiting, hostMade, hostUndone>>
hostedVars == <<hostPhase, hostFiber, hostScope, hostRun, hostMsgVars,
                hostRegVars, hostAttached, hostReports, hostEarly>>

HostedInit ==
  /\ hostPhase = "building" /\ hostFiber = "waits" /\ hostScope = "open"
  /\ hostRun = "none" /\ hostAttached = "open"
  /\ hostHeld = <<>> /\ hostTold = <<>> /\ hostRefused = {} /\ hostDiscards = <<>>
  /\ hostAsked = {} /\ hostWaiting = {} /\ hostMade = {} /\ hostUndone = {}
  /\ hostReports = 0 /\ hostMsgs = 0 /\ hostEarly = FALSE

-----------------------------------------------------------------------------

\* Promise semantics: the first to settle it wins.
Settles(how) == hostAttached' = IF hostAttached = "open" THEN how ELSE hostAttached

MutLeft(held) == held
Left(held) == <<>>

\* The run will never start: what was held for it is reported, and let go.
CloseHosted ==
  /\ hostPhase' = "closed"
  /\ hostWaiting' = {}
  /\ hostDiscards' = hostDiscards \o hostHeld
  /\ hostHeld' = Left(hostHeld)
  /\ Settles("err")
  /\ UNCHANGED <<hostTold, hostRefused, hostMsgs, hostAsked, hostMade, hostUndone>>

\* The program asks, once the Layer is built, if it is still wanted.
MutMayStart(phase) == TRUE
MayStart(phase) == phase = "building"

LayerBuilt ==
  /\ hostFiber = "waits"
  /\ hostFiber' = IF MayStart(hostPhase) THEN "starts" ELSE "ended"
  /\ UNCHANGED <<hostPhase, hostScope, hostRun, hostMsgVars, hostRegVars,
                 hostAttached, hostReports, hostEarly>>

\* The Layer fails, the runtime is disposed, or the start dies.
HostedFails ==
  /\ hostFiber \in {"waits", "starts"} /\ hostRun = "none"
  /\ hostFiber' = "ended"
  /\ IF hostPhase = "building"
       THEN CloseHosted /\ hostReports' = hostReports + 1
       ELSE UNCHANGED <<hostPhase, hostMsgVars, hostRegVars, hostAttached, hostReports>>
  /\ UNCHANGED <<hostScope, hostRun, hostEarly>>

\* acquireRelease: in a Scope that was closed meanwhile the run stops at once.
RunStarts ==
  /\ hostFiber = "starts"
  /\ hostFiber' = "started"
  /\ hostRun' = IF hostScope = "open" THEN "up" ELSE "stopped"
  /\ UNCHANGED <<hostPhase, hostScope, hostMsgVars, hostRegVars, hostAttached,
                 hostReports, hostEarly>>

\* A registration that was undone while it waited is not made.
MutWanted(waiting) == waiting
Wanted(waiting) == waiting \ hostUndone

Attach ==
  /\ hostFiber = "started"
  /\ hostFiber' = "ended"
  /\ hostPhase' = "live"
  /\ hostMade' = hostMade \union Wanted(hostWaiting)
  /\ hostWaiting' = {} /\ hostHeld' = <<>>
  /\ IF hostRun = "up"
       THEN hostTold' = hostTold \o hostHeld /\ UNCHANGED hostRefused
       ELSE hostRefused' = hostRefused \union ToSet(hostHeld) /\ UNCHANGED hostTold
  /\ Settles("ok")
  /\ UNCHANGED <<hostScope, hostRun, hostDiscards, hostMsgs, hostAsked, hostUndone,
                 hostReports, hostEarly>>

-----------------------------------------------------------------------------

PostMsg ==
  /\ hostMsgs < HostMaxMsgs
  /\ hostMsgs' = hostMsgs + 1
  /\ \/ /\ hostPhase = "building" /\ hostHeld' = Append(hostHeld, hostMsgs')
        /\ UNCHANGED <<hostTold, hostRefused>>
     \/ /\ hostPhase = "live" /\ hostRun = "up"
        /\ hostTold' = Append(hostTold, hostMsgs')
        /\ UNCHANGED <<hostHeld, hostRefused>>
     \/ /\ hostPhase # "building" /\ ~(hostPhase = "live" /\ hostRun = "up")
        /\ hostRefused' = hostRefused \union {hostMsgs'}
        /\ UNCHANGED <<hostHeld, hostTold>>
  /\ UNCHANGED <<hostPhase, hostFiber, hostScope, hostRun, hostDiscards,
                 hostRegVars, hostAttached, hostReports, hostEarly>>

\* onTarget: a closed handle has nothing to register on.
Register ==
  \E r \in HostRegs \ hostAsked :
    /\ hostAsked' = hostAsked \union {r}
    /\ hostWaiting' = IF hostPhase = "building" THEN hostWaiting \union {r} ELSE hostWaiting
    /\ hostMade' = IF hostPhase = "live" THEN hostMade \union {r} ELSE hostMade
    /\ UNCHANGED <<hostPhase, hostFiber, hostScope, hostRun, hostMsgVars,
                   hostUndone, hostAttached, hostReports, hostEarly>>

UndoReg ==
  \E r \in hostAsked \ hostUndone :
    /\ hostUndone' = hostUndone \union {r}
    /\ hostMade' = hostMade \ {r}
    /\ UNCHANGED <<hostPhase, hostFiber, hostScope, hostRun, hostMsgVars,
                   hostAsked, hostWaiting, hostAttached, hostReports, hostEarly>>

StopHosted ==
  /\ hostScope = "open"
  /\ hostScope' = "closed"
  /\ hostRun' = IF hostRun = "up" THEN "stopped" ELSE hostRun
  /\ IF hostPhase = "building" THEN CloseHosted
     ELSE UNCHANGED <<hostPhase, hostMsgVars, hostRegVars, hostAttached>>
  /\ hostEarly' = (hostFiber = "waits")
  /\ UNCHANGED <<hostFiber, hostReports>>

\* A Sub or a reducer fails, or an outlet stops the run.
HostedRunEnds ==
  /\ hostRun = "up"
  /\ hostRun' = "stopped"
  /\ UNCHANGED <<hostPhase, hostFiber, hostScope, hostMsgVars, hostRegVars,
                 hostAttached, hostReports, hostEarly>>

HostedNext ==
  LayerBuilt \/ HostedFails \/ RunStarts \/ Attach \/ PostMsg \/ Register \/ UndoReg
    \/ StopHosted \/ HostedRunEnds

HostedSpec == HostedInit /\ [][HostedNext]_hostedVars

-----------------------------------------------------------------------------

(* Whenever the Layer is built or fails and the handle is stopped, every   *)
(* Msg posted is taken once and in order, refused, held, or reported once; *)
(* an undone registration does not stand and no other is forgotten; the    *)
(* dispatchers of a handle that is decided are answered; a closed handle   *)
(* holds nothing and leaves no run up, and a run that was stopped before   *)
(* its Layer was built never starts.                                       *)
HostedIsExact ==
  /\ \A m \in 1 .. hostMsgs :
       Cardinality({i \in DOMAIN hostTold : hostTold[i] = m})
         + Cardinality({i \in DOMAIN hostHeld : hostHeld[i] = m})
         + Cardinality({i \in DOMAIN hostDiscards : hostDiscards[i] = m})
         + Cardinality({m} \intersect hostRefused) = 1
  /\ \A j \in DOMAIN hostTold : \A i \in 1 .. j - 1 : hostTold[i] < hostTold[j]
  /\ hostMade \intersect hostUndone = {}
  /\ hostPhase = "live" /\ hostAttached = "ok" => hostAsked \ hostUndone = hostMade
  /\ hostPhase # "building" =>
       hostHeld = <<>> /\ hostWaiting = {} /\ hostAttached # "open"
  /\ hostFiber = "ended" => hostPhase # "building"
  /\ hostScope = "closed" => hostRun # "up"
  /\ hostEarly => hostRun = "none"
  /\ hostReports <= 1
=============================================================================
