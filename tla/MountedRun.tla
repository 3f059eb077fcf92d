----------------------------- MODULE MountedRun -----------------------------
(***************************************************************************)
(* MountedRun (packages/tea/src/react/mounted-run.ts) and its SubGate: the *)
(* run behind one useMachine mount.  React is the environment: it runs the *)
(* passive effect (connect) and its cleanup (disconnect), and the cleanup  *)
(* of the insertion effect (retire), as useMachine wires them:             *)
(*   committed - the tree is there, its passive effect has not run yet     *)
(*   shown     - the effect stands                                         *)
(*   hidden    - its cleanup ran, the component is still mounted           *)
(*   deleted   - gone for good, the passive cleanup still to come          *)
(*   gone      - nothing more comes                                        *)
(* A disconnect is judged in a microtask; no order is assumed between that *)
(* microtask and what React does next.                                     *)
(***************************************************************************)
EXTENDS Sequences, Integers

CONSTANTS
  Reacts,          \* the Reacts a mount may live in, as records:
                   \*   hides - it hides trees (19.2 on): cleanupMayBeAHide
                   \*   odd - its hide may run the insertion cleanup too
  MountMaxEvents,  \* bound: what React does
  MountMaxSends,   \* bound: Msgs sent
  MountMaxCommits  \* bound: States a run installs

ASSUME MountAssumption ==
  /\ \A r \in Reacts : r.hides \in BOOLEAN /\ r.odd \in BOOLEAN
  /\ {MountMaxEvents, MountMaxSends, MountMaxCommits} \subseteq Nat

VARIABLES
  mount,       \* the object: phase, handle, booted, connected, held
  gateOpen,    \* the SubGate: the Subs of the run are on
  mountRuns,   \* the runs started: whether up, ready, States installed, Msgs got
  mountTasks,  \* microtasks of disconnect waiting
  mountShown,  \* the snapshot: of which run, and its how manieth State
  react,       \* the React of this mount
  screen,      \* what React makes of the component
  mountEvents, mountSent,
  mountHeard   \* history: the Msgs reported as discarded

mountVars == <<mount, gateOpen, mountRuns, mountTasks, mountShown, react,
               screen, mountEvents, mountSent, mountHeard>>
outside == <<react, screen, mountEvents, mountSent>>

NoRun == 0
Initial == [run |-> NoRun, n |-> 0]
Started == [up |-> TRUE, ready |-> FALSE, installed |-> 0, got |-> <<>>]
HasHandle(m) == m.phase \in {"live", "leaving"}

MountInit ==
  /\ mount = [phase |-> "not-started", handle |-> NoRun, booted |-> NoRun,
              connected |-> FALSE, held |-> <<>>]
  /\ gateOpen = FALSE
  /\ mountRuns = <<>>
  /\ mountTasks = 0
  /\ mountShown = Initial
  /\ react \in Reacts /\ screen = "committed"
  /\ mountEvents = 0 /\ mountSent = 0
  /\ mountHeard = {}

-----------------------------------------------------------------------------
(* The methods; m is the object, runs the runs.                            *)

Pair(m, runs) == [m |-> m, runs |-> runs]

\* A new run gets the Msgs held, in order.
StartMount(m, runs) ==
  Pair([m EXCEPT !.phase = "live", !.handle = Len(runs) + 1, !.booted = NoRun,
                 !.held = <<>>],
       Append(runs, [Started EXCEPT !.got = m.held]))

StopMount(m, runs) ==
  IF ~HasHandle(m) THEN Pair(m, runs)
    ELSE Pair([m EXCEPT !.phase = "stopped", !.handle = NoRun],
              [runs EXCEPT ![m.handle].up = FALSE])

Connect(m, runs) ==
  LET on == [m EXCEPT !.connected = TRUE]
  IN CASE m.phase = "live" -> Pair(on, runs)
       [] m.phase = "leaving" -> Pair([on EXCEPT !.phase = "live"], runs)
       [] m.phase \in {"not-started", "stopped"} -> StartMount(on, runs)

Disconnect(m) == [m EXCEPT !.connected = FALSE]

Retire(m, runs) ==
  CASE m.phase = "not-started" ->
         Pair([m EXCEPT !.phase = "stopped", !.held = <<>>], runs)
    [] m.phase = "live" /\ m.connected ->
         Pair([m EXCEPT !.phase = "leaving"], runs)
    [] m.phase = "live" /\ ~m.connected -> StopMount(m, runs)
    [] m.phase \in {"leaving", "stopped"} -> Pair(m, runs)

\* The Msgs held when a mount that never started is retired are reported.
HeardAt(m) ==
  mountHeard \union
    (IF m.phase = "not-started" THEN {m.held[i] : i \in DOMAIN m.held} ELSE {})

Becomes(p) == mount' = p.m /\ mountRuns' = p.runs

-----------------------------------------------------------------------------
(* What React does.                                                        *)

ReactDoes(from, to) ==
  /\ screen \in from
  /\ screen' = to
  /\ mountEvents < MountMaxEvents
  /\ mountEvents' = mountEvents + 1
  /\ UNCHANGED <<mountShown, react, mountSent>>

\* The first effect of a mount, or a show.
EffectRuns ==
  /\ ReactDoes({"committed", "hidden"}, "shown")
  /\ Becomes(Connect(mount, mountRuns))
  /\ gateOpen' = TRUE
  /\ UNCHANGED <<mountTasks, mountHeard>>

\* Strict Mode: the cleanup and the effect again, in one synchronous pass.
StrictRerun ==
  /\ ReactDoes({"shown"}, "shown")
  /\ Becomes(Connect(Disconnect(mount), mountRuns))
  /\ gateOpen' = TRUE
  /\ mountTasks' = mountTasks + 1
  /\ UNCHANGED mountHeard

Hide ==
  /\ react.hides
  /\ ReactDoes({"shown"}, "hidden")
  /\ \/ Becomes(Pair(Disconnect(mount), mountRuns))
     \/ /\ react.odd
        /\ LET p == Retire(mount, mountRuns)
           IN Becomes([p EXCEPT !.m = Disconnect(p.m)])
  /\ mountTasks' = mountTasks + 1
  /\ UNCHANGED <<gateOpen, mountHeard>>

\* The insertion cleanup; a standing effect's own cleanup comes later.
Delete ==
  /\ \/ ReactDoes({"shown"}, "deleted")
     \/ ReactDoes({"committed", "hidden"}, "gone")
  /\ Becomes(Retire(mount, mountRuns))
  /\ mountHeard' = HeardAt(mount)
  /\ UNCHANGED <<gateOpen, mountTasks>>

\* Before 19.2 React may skip the insertion cleanup of a tree it deletes.
DeleteUnretired ==
  /\ ~react.hides
  /\ ReactDoes({"shown"}, "deleted")
  /\ UNCHANGED <<mount, mountRuns, gateOpen, mountTasks, mountHeard>>

LateCleanup ==
  /\ screen = "deleted" /\ screen' = "gone"
  /\ mount' = Disconnect(mount)
  /\ mountTasks' = mountTasks + 1
  /\ UNCHANGED <<gateOpen, mountRuns, mountShown, react, mountEvents, mountSent,
                 mountHeard>>

-----------------------------------------------------------------------------
(* The microtask of disconnect, the run, and the Msgs.                     *)

MutJudged(m) == FALSE
Judged(m) == m.connected

JudgeCleanup ==
  LET stops == mount.phase = "leaving" \/ ~react.hides
  IN /\ mountTasks > 0
     /\ mountTasks' = mountTasks - 1
     /\ IF Judged(mount) THEN UNCHANGED <<mount, mountRuns, gateOpen>>
        ELSE IF stops THEN Becomes(StopMount(mount, mountRuns)) /\ UNCHANGED gateOpen
        ELSE gateOpen' = FALSE /\ UNCHANGED <<mount, mountRuns>>
     /\ UNCHANGED <<mountShown, outside, mountHeard>>

\* A run installs a State; the mount listens until it stops the run.
RunInstalls(r) ==
  /\ mountRuns[r].up /\ mountRuns[r].installed < MountMaxCommits
  /\ mountRuns' = [mountRuns EXCEPT ![r].installed = @ + 1]
  /\ mountShown' = IF mount.handle = r
                     THEN [run |-> r, n |-> mountRuns[r].installed + 1]
                     ELSE mountShown
  /\ UNCHANGED <<mount, gateOpen, mountTasks, outside, mountHeard>>

\* ready resolves: published, if the run is still the mount's.
MutStillOurs(r) == TRUE
StillOurs(r) == HasHandle(mount) /\ mount.handle = r

RunReady(r) ==
  /\ mountRuns[r].installed > 0 /\ ~mountRuns[r].ready
  /\ mountRuns' = [mountRuns EXCEPT ![r].ready = TRUE]
  /\ mount' = IF StillOurs(r) THEN [mount EXCEPT !.booted = r] ELSE mount
  /\ mountShown' = IF StillOurs(r)
                     THEN [run |-> r, n |-> mountRuns[r].installed]
                     ELSE mountShown
  /\ UNCHANGED <<gateOpen, mountTasks, outside, mountHeard>>

\* A run may end by itself; the mount is not told.
RunEnds(r) ==
  /\ mountRuns[r].up
  /\ mountRuns' = [mountRuns EXCEPT ![r].up = FALSE]
  /\ UNCHANGED <<mount, gateOpen, mountTasks, mountShown, outside, mountHeard>>

SendMsg ==
  LET msg == mountSent + 1
      reaches == HasHandle(mount) /\ mountRuns[mount.handle].up
  IN /\ mountSent < MountMaxSends
     /\ mountSent' = msg
     /\ mount' = IF mount.phase = "not-started"
                   THEN [mount EXCEPT !.held = Append(@, msg)] ELSE mount
     /\ mountRuns' = IF reaches
                       THEN [mountRuns EXCEPT ![mount.handle].got = Append(@, msg)]
                       ELSE mountRuns
     /\ mountHeard' = IF reaches \/ mount.phase = "not-started"
                        THEN mountHeard ELSE mountHeard \union {msg}
     /\ UNCHANGED <<gateOpen, mountTasks, mountShown, react, screen,
                     mountEvents>>

MountNext ==
  \/ EffectRuns \/ StrictRerun \/ Hide \/ Delete \/ DeleteUnretired \/ LateCleanup
  \/ JudgeCleanup \/ SendMsg
  \/ \E r \in DOMAIN mountRuns : RunInstalls(r) \/ RunReady(r) \/ RunEnds(r)

MountSpec == MountInit /\ [][MountNext]_mountVars

-----------------------------------------------------------------------------

Up == {r \in DOMAIN mountRuns : mountRuns[r].up}

\* Once the microtasks have run, the run is what the screen asks for.
FollowsScreen ==
  mountTasks = 0 =>
    /\ screen = "shown" => mount.phase = "live" /\ gateOpen
    /\ screen = "hidden" => ~gateOpen \/ mount.phase = "stopped"
    /\ screen = "gone" => Up = {}

\* Held, with a run, or reported: never lost, and in order within a run.
EveryMsgHeard ==
  LET got == UNION {{mountRuns[r].got[i] : i \in DOMAIN mountRuns[r].got} :
                      r \in DOMAIN mountRuns}
      held == {mount.held[i] : i \in DOMAIN mount.held}
  IN /\ 1 .. mountSent = got \union held \union mountHeard
     /\ \A r \in DOMAIN mountRuns : \A i, j \in DOMAIN mountRuns[r].got :
          i < j => mountRuns[r].got[i] < mountRuns[r].got[j]

(* "A cleanup and an effect in one synchronous pass are no event at all",  *)
(* a hide closes the gate "and that is all", a show "must not find a dead  *)
(* run", a delete stops the run; there is one run up at a time, no answer  *)
(* of an older run is ever painted over it, and every Msg sent reaches a   *)
(* run or is reported (mounted-run.ts:1).                                  *)
RunFollowsScreen ==
  /\ FollowsScreen
  /\ EveryMsgHeard
  /\ Up \subseteq {mount.handle}
  /\ HasHandle(mount) => mount.booted \in {NoRun, mount.handle}
  /\ HasHandle(mount) /\ mountShown.run = mount.handle =>
       mountShown.n = mountRuns[mount.handle].installed
=============================================================================
