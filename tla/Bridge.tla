------------------------------- MODULE Bridge -------------------------------
(***************************************************************************)
(* The runtime bridge of a browser extension (packages/tea/src/extension/  *)
(* bridge.ts and react.tsx): a run in the service worker broadcasts every  *)
(* transition it commits, and its State at boot; a surface that opens      *)
(* listens, asks for the State once, and shows the last State it was sent. *)
(* Nothing is sent twice: what finds nobody is dropped without a word.     *)
(* The browser delivers what one context sent another in the order sent,   *)
(* and stops the worker whenever it likes; the State is in the run's store.*)
(***************************************************************************)
EXTENDS SequencesExt, Kept

CONSTANTS
  Surface,          \* the extension pages that may be open
  BridgeMaxState,   \* bound: the States the run goes through are 1 to this
  BridgeMaxStops,   \* bound: the browser stops the worker so often
  BridgeMaxOpens    \* bound: pages opened

ASSUME BridgeAssumption ==
  {BridgeMaxState, BridgeMaxStops, BridgeMaxOpens} \subseteq Nat

VARIABLES
  worker,      \* "down", "booting" or "up"
  hostState,   \* the run's State, saved before it is installed
  untold,      \* is a committed transition still to be observed
  line,        \* dispatched Msgs on the run's line
  asked,       \* what surfaces sent the worker: hydrates and dispatches
  sent,        \* what the worker sent each surface: States, or 0 for null
  shown,       \* each surface: is it open, and the State it shows, 0 for none
  bridgeStops, opens

bridgeVars ==
  <<worker, hostState, untold, line, asked, sent, shown, bridgeStops, opens>>

Shut == [open |-> FALSE, state |-> 0]
Showing(state) == [open |-> TRUE, state |-> state]

BridgeInit ==
  /\ worker = "up" /\ hostState = 1 /\ untold = FALSE /\ line = 0 /\ asked = <<>>
  /\ sent = [s \in Surface |-> <<>>] /\ shown = [s \in Surface |-> Shut]
  /\ bridgeStops = 0 /\ opens = 0

\* chrome.runtime.sendMessage reaches whoever listens now.
Broadcast(state) ==
  sent' = [s \in Surface |->
             IF shown[s].open THEN Append(sent[s], state) ELSE sent[s]]

-----------------------------------------------------------------------------

\* A page mounts useBackgroundRuntime: it subscribes and then hydrates.
MutFirstAsks(s) == asked
FirstAsks(s) == Append(asked, [does |-> "hydrate", from |-> s])

OpenSurface(s) ==
  /\ ~shown[s].open /\ opens < BridgeMaxOpens
  /\ opens' = opens + 1
  /\ shown' = [shown EXCEPT ![s] = Showing(0)]
  /\ asked' = FirstAsks(s)
  /\ UNCHANGED <<worker, hostState, untold, line, sent, bridgeStops>>

\* The page goes away, and what was on its way to it.
ShutSurface(s) ==
  /\ shown[s].open
  /\ shown' = [shown EXCEPT ![s] = Shut]
  /\ sent' = [sent EXCEPT ![s] = <<>>]
  /\ asked' = Kept(asked, {m \in ToSet(asked) : m.from # s \/ m.does = "dispatch"})
  /\ UNCHANGED <<worker, hostState, untold, line, bridgeStops, opens>>

SurfaceDispatches(s) ==
  /\ shown[s].open /\ hostState + line + Len(asked) < BridgeMaxState
  /\ asked' = Append(asked, [does |-> "dispatch", from |-> s])
  /\ UNCHANGED <<worker, hostState, untold, line, sent, shown, bridgeStops,
                 opens>>

\* A broadcast or a reply arrives: a null reply leaves what is shown.
SurfaceHears(s) ==
  /\ sent[s] # <<>>
  /\ sent' = [sent EXCEPT ![s] = Tail(@)]
  /\ shown' =
       [shown EXCEPT ![s].state = IF Head(sent[s]) = 0 THEN @ ELSE Head(sent[s])]
  /\ UNCHANGED <<worker, hostState, untold, line, asked, bridgeStops, opens>>

-----------------------------------------------------------------------------

\* A run that boots has no State to give; a worker that is down gets nothing.
AnswerHydrate ==
  /\ asked # <<>> /\ Head(asked).does = "hydrate"
  /\ asked' = Tail(asked)
  /\ sent' = IF worker = "down" THEN sent
               ELSE [sent EXCEPT ![Head(asked).from] =
                       Append(@, IF worker = "up" THEN hostState ELSE 0)]
  /\ UNCHANGED <<worker, hostState, untold, line, shown, bridgeStops, opens>>

TakeDispatch ==
  /\ asked # <<>> /\ Head(asked).does = "dispatch"
  /\ asked' = Tail(asked)
  /\ line' = IF worker = "down" THEN line ELSE line + 1
  /\ UNCHANGED <<worker, hostState, untold, sent, shown, bridgeStops, opens>>

\* The run folds one Msg at a time, its own or a surface's, and then tells its
\* observers.
FoldMsg ==
  /\ worker = "up" /\ ~untold /\ hostState < BridgeMaxState
  /\ hostState' = hostState + 1 /\ untold' = TRUE
  /\ \/ line > 0 /\ line' = line - 1
     \/ UNCHANGED line
  /\ UNCHANGED <<worker, asked, sent, shown, bridgeStops, opens>>

Observe ==
  /\ untold /\ untold' = FALSE
  /\ Broadcast(hostState)
  /\ UNCHANGED <<worker, hostState, line, asked, shown, bridgeStops, opens>>

StopWorker ==
  /\ worker # "down" /\ bridgeStops < BridgeMaxStops
  /\ worker' = "down" /\ bridgeStops' = bridgeStops + 1 /\ untold' = FALSE
  /\ line' = 0
  /\ UNCHANGED <<hostState, asked, sent, shown, opens>>

\* The worker starts and installs the bridge at once, over a run that loads.
StartWorker ==
  /\ worker = "down" /\ worker' = "booting"
  /\ UNCHANGED <<hostState, untold, line, asked, sent, shown, bridgeStops,
                 opens>>

MutBootFrame == UNCHANGED sent
BootFrame == Broadcast(hostState)

Booted ==
  /\ worker = "booting" /\ worker' = "up"
  /\ BootFrame
  /\ UNCHANGED <<hostState, untold, line, asked, shown, bridgeStops, opens>>

BridgeNext ==
  \/ \E s \in Surface :
       OpenSurface(s) \/ ShutSurface(s) \/ SurfaceDispatches(s) \/ SurfaceHears(s)
  \/ AnswerHydrate \/ TakeDispatch \/ FoldMsg \/ Observe
  \/ StopWorker \/ StartWorker \/ Booted

BridgeSpec == BridgeInit /\ [][BridgeNext]_bridgeVars

-----------------------------------------------------------------------------

(* A surface that has heard everything shows the run's State: whatever was *)
(* dropped (a hydrate that found no worker, a reply from a booting run, a  *)
(* broadcast before the page listened, one lost with the worker), another  *)
(* message made up for it, although nothing is ever sent again.            *)
SurfaceIsCurrent ==
  \A s \in Surface :
    (/\ shown[s].open /\ worker = "up" /\ ~untold /\ sent[s] = <<>>
     /\ \A i \in DOMAIN asked : asked[i].from = s => asked[i].does = "dispatch")
    => shown[s].state = hostState
=============================================================================
