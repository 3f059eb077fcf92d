----------------------------- MODULE HostsProof -----------------------------
(***************************************************************************)
(* The hosts of a run keep what they opened for it in step with it: the    *)
(* React mount, the ManagedRuntime, the handles of its Subs, its spawned   *)
(* children.                                                               *)
(***************************************************************************)
EXTENDS MountedRun, HostedRun, SubHandles, Children, SequenceTheorems,
        FiniteSetTheorems, TLAPS

-----------------------------------------------------------------------------
(* The mount.  Whatever React makes of a component, in whatever order its  *)
(* effects, its cleanups and the microtasks come, the run behind           *)
(* useMachine follows the screen: proved for every set of Reacts and every *)
(* bound.                                                                  *)
(*                                                                         *)
(* The invariant has four parts.  RunsAreHeld: at most the run that the    *)
(* mount holds is up.  MsgsAreKept: every Msg is with a run, held or       *)
(* reported.  ShownIsInstalled: the snapshot is not behind its run.        *)
(* PhaseFollows: what each state of the screen says of the phase, the gate *)
(* and the microtasks still to come; this is the strengthening, since what *)
(* FollowsScreen says once the microtasks are over must be owed before.    *)

Mounts == [phase : {"not-started", "live", "leaving", "stopped"}, handle : Nat,
           booted : Nat, connected : BOOLEAN, held : Seq(Nat)]
Runs == [up : BOOLEAN, ready : BOOLEAN, installed : Nat, got : Seq(Nat)]

RunsAreHeld(m, runs) ==
  /\ m \in Mounts /\ runs \in Seq(Runs)
  /\ HasHandle(m) => m.handle \in DOMAIN runs /\ m.booted \in {NoRun, m.handle}
  /\ ~HasHandle(m) => m.handle = NoRun
  /\ \A r \in DOMAIN runs : runs[r].up => r = m.handle
  /\ m.phase = "not-started" => Len(runs) = 0
  /\ m.phase # "not-started" => m.held = <<>>

Increasing(msgs) == \A i, j \in DOMAIN msgs : i < j => msgs[i] < msgs[j]

MsgsAreKept(m, runs, heard, sent) ==
  /\ sent \in Nat
  /\ \A x \in 1 .. sent :
       \/ \E r \in DOMAIN runs : \E i \in DOMAIN runs[r].got : runs[r].got[i] = x
       \/ \E i \in DOMAIN m.held : m.held[i] = x
       \/ x \in heard
  /\ \A r \in DOMAIN runs : /\ \A i \in DOMAIN runs[r].got : runs[r].got[i] \in 1 .. sent
                            /\ Increasing(runs[r].got)
  /\ \A i \in DOMAIN m.held : m.held[i] \in 1 .. sent
  /\ Increasing(m.held)
  /\ heard \subseteq 1 .. sent

ShownIsInstalled(m, runs, shown) ==
  /\ shown \in [run : Nat, n : Nat]
  /\ shown.run <= Len(runs)
  /\ HasHandle(m) /\ shown.run = m.handle => shown.n = runs[m.handle].installed

PhaseFollows ==
  /\ gateOpen \in BOOLEAN /\ mountTasks \in Nat
  /\ screen \in {"committed", "shown", "hidden", "deleted", "gone"}
  /\ screen = "committed" => mount.phase = "not-started" /\ ~mount.connected
  /\ screen = "shown" => mount.phase = "live" /\ mount.connected /\ gateOpen
  /\ screen = "hidden" =>
       /\ react.hides /\ ~mount.connected /\ mount.phase # "not-started"
       /\ mount.phase = "leaving" => mountTasks > 0
       /\ mount.phase = "live" => mountTasks > 0 \/ ~gateOpen
  /\ screen = "deleted" =>
       /\ mount.connected
       /\ mount.phase = "leaving" \/ (mount.phase = "live" /\ ~react.hides)
  /\ screen = "gone" =>
       /\ ~mount.connected /\ mount.phase # "not-started"
       /\ HasHandle(mount) => mountTasks > 0
       /\ mount.phase = "live" => ~react.hides

MountInv ==
  /\ RunsAreHeld(mount, mountRuns)
  /\ MsgsAreKept(mount, mountRuns, mountHeard, mountSent)
  /\ ShownIsInstalled(mount, mountRuns, mountShown)
  /\ PhaseFollows

-----------------------------------------------------------------------------
(* The methods.                                                            *)

\* A run that is started holds what the mount held, and is the one up.
LEMMA StartKeeps ==
  ASSUME NEW m, NEW runs, NEW heard, NEW sent, NEW shown,
         RunsAreHeld(m, runs), MsgsAreKept(m, runs, heard, sent),
         ShownIsInstalled(m, runs, shown), ~HasHandle(m)
  PROVE  LET p == StartMount(m, runs)
         IN /\ RunsAreHeld(p.m, p.runs) /\ MsgsAreKept(p.m, p.runs, heard, sent)
            /\ ShownIsInstalled(p.m, p.runs, shown)
            /\ p.m.phase = "live" /\ p.m.connected = m.connected
<1> DEFINE p == StartMount(m, runs)
           new == [Started EXCEPT !.got = m.held]
<1>1. m \in Mounts /\ runs \in Seq(Runs) /\ Len(runs) \in Nat
  BY DEF RunsAreHeld
<1>2. new \in Runs /\ new.got = m.held
  BY <1>1, EmptySeq DEF Runs, Mounts, Started
<1>3. p.runs = Append(runs, new)
  BY DEF StartMount, Pair
<1>4. /\ p.runs \in Seq(Runs) /\ Len(p.runs) = Len(runs) + 1
      /\ p.runs[Len(runs) + 1] = new
      /\ \A r \in 1 .. Len(runs) : p.runs[r] = runs[r]
      /\ DOMAIN p.runs = 1 .. (Len(runs) + 1) /\ DOMAIN runs = 1 .. Len(runs)
  <2>1. DOMAIN runs = 1 .. Len(runs)
    BY <1>1
  <2> HIDE DEF new, p
  <2>2. /\ p.runs \in Seq(Runs) /\ Len(p.runs) = Len(runs) + 1
        /\ p.runs[Len(runs) + 1] = new
        /\ \A r \in 1 .. Len(runs) : p.runs[r] = runs[r]
    BY <1>1, <1>2, <1>3, AppendProperties
  <2> QED BY <2>1, <2>2
<1>5. /\ p.m \in Mounts /\ p.m.phase = "live" /\ p.m.handle = Len(runs) + 1
      /\ p.m.booted = NoRun /\ p.m.held = <<>> /\ p.m.connected = m.connected
  <2> DEFINE at == Len(runs) + 1
             live == [phase |-> "live", handle |-> at, booted |-> NoRun,
                      connected |-> m.connected, held |-> <<>>]
  <2>1. p.m = [m EXCEPT !.phase = "live", !.handle = at, !.booted = NoRun,
                        !.held = <<>>]
    BY DEF StartMount, Pair
  <2>2. <<>> \in Seq(Nat) /\ at \in Nat
    BY <1>1, EmptySeq
  <2> HIDE DEF p, at
  <2>3. p.m = live
    BY <1>1, <2>1 DEF Mounts
  <2>4. live \in Mounts
    BY <1>1, <2>2 DEF Mounts, NoRun
  <2> QED BY <2>3, <2>4 DEF at
<1> HIDE DEF p
<1>6. \A r \in DOMAIN runs : ~runs[r].up
  BY <1>4 DEF RunsAreHeld, NoRun
<1>7. RunsAreHeld(p.m, p.runs)
  <2>1. \A r \in DOMAIN p.runs : p.runs[r].up => r = p.m.handle
    <3> HIDE DEF new
    <3> QED BY <1>1, <1>4, <1>5, <1>6
  <2> QED BY <2>1, <1>1, <1>4, <1>5 DEF RunsAreHeld, HasHandle
<1>8. MsgsAreKept(p.m, p.runs, heard, sent)
  <2>1. new.got = m.held
    BY <1>2
  <2>2. \A x \in 1 .. sent :
          \/ \E r \in DOMAIN p.runs : \E i \in DOMAIN p.runs[r].got : p.runs[r].got[i] = x
          \/ x \in heard
    <3> HIDE DEF new
    <3> SUFFICES ASSUME NEW x \in 1 .. sent, x \notin heard
                 PROVE  \E r \in DOMAIN p.runs :
                          \E i \in DOMAIN p.runs[r].got : p.runs[r].got[i] = x
      OBVIOUS
    <3>1. CASE \E r \in DOMAIN runs : \E i \in DOMAIN runs[r].got : runs[r].got[i] = x
      BY <3>1, <1>1, <1>4
    <3>2. CASE \E i \in DOMAIN m.held : m.held[i] = x
      <4>1. Len(runs) + 1 \in DOMAIN p.runs
        BY <1>1, <1>4
      <4> QED BY <4>1, <3>2, <2>1, <1>4
    <3> QED BY <3>1, <3>2 DEF MsgsAreKept
  <2>3. \A r \in DOMAIN p.runs :
          /\ \A i \in DOMAIN p.runs[r].got : p.runs[r].got[i] \in 1 .. sent
          /\ Increasing(p.runs[r].got)
    <3> HIDE DEF new
    <3> TAKE r \in DOMAIN p.runs
    <3>1. CASE r = Len(runs) + 1
      BY <3>1, <2>1, <1>4 DEF MsgsAreKept
    <3>2. CASE r \in DOMAIN runs
      BY <3>2, <1>4 DEF MsgsAreKept
    <3> QED BY <3>1, <3>2, <1>1, <1>4
  <2>4. DOMAIN p.m.held = {}
    BY <1>5
  <2> QED BY <2>2, <2>3, <2>4 DEF MsgsAreKept, Increasing
<1>9. ShownIsInstalled(p.m, p.runs, shown)
  BY <1>1, <1>4, <1>5 DEF ShownIsInstalled
<1> QED BY <1>5, <1>7, <1>8, <1>9 DEF p

\* What a step writes into a run.
LEMMA RunInstalled ==
  ASSUME NEW run \in Runs, NEW n \in Nat
  PROVE  LET to == [run EXCEPT !.installed = n]
         IN /\ to \in Runs /\ to.got = run.got /\ (to.up => run.up)
            /\ to.installed = n /\ to.installed \in Nat
BY DEF Runs

LEMMA RunIsReady ==
  ASSUME NEW run \in Runs
  PROVE  LET to == [run EXCEPT !.ready = TRUE]
         IN /\ to \in Runs /\ to.got = run.got /\ (to.up => run.up)
            /\ to.installed = run.installed /\ to.installed \in Nat
BY DEF Runs

LEMMA RunIsDown ==
  ASSUME NEW run \in Runs
  PROVE  LET to == [run EXCEPT !.up = FALSE]
         IN /\ to \in Runs /\ to.got = run.got /\ ~to.up
            /\ to.installed = run.installed /\ to.installed \in Nat
BY DEF Runs

LEMMA RunGets ==
  ASSUME NEW run \in Runs, NEW msgs \in Seq(Nat)
  PROVE  LET to == [run EXCEPT !.got = msgs]
         IN /\ to \in Runs /\ to.got = msgs /\ (to.up => run.up)
            /\ to.installed = run.installed /\ to.installed \in Nat
BY DEF Runs

\* A Msg sent comes after every one before it.
LEMMA AppendKeeps ==
  ASSUME NEW g \in Seq(Nat), NEW sent \in Nat, Increasing(g),
         \A i \in DOMAIN g : g[i] \in 1 .. sent
  PROVE  LET a == Append(g, sent + 1)
         IN /\ a \in Seq(Nat) /\ Increasing(a)
            /\ \A i \in DOMAIN a : a[i] \in 1 .. (sent + 1)
            /\ \E i \in DOMAIN a : a[i] = sent + 1
            /\ \A i \in DOMAIN g : i \in DOMAIN a /\ a[i] = g[i]
<1> DEFINE a == Append(g, sent + 1)
           n == Len(g)
<1>1. sent + 1 \in Nat /\ n \in Nat
  OBVIOUS
<1>2. /\ a \in Seq(Nat) /\ Len(a) = n + 1 /\ a[n + 1] = sent + 1
      /\ \A i \in 1 .. n : a[i] = g[i]
  <2> HIDE DEF a
  <2>1. a = Append(g, sent + 1)
    BY DEF a
  <2> QED BY <1>1, <2>1, AppendProperties
<1> HIDE DEF a
<1>3. DOMAIN a = 1 .. (n + 1) /\ DOMAIN g = 1 .. n
  BY <1>2
<1> HIDE DEF n
<1>4. \A i \in 1 .. n : g[i] \in 1 .. sent
  BY <1>3
<1>5. Increasing(a)
  <2> SUFFICES ASSUME NEW i \in 1 .. (n + 1), NEW j \in 1 .. (n + 1), i < j
               PROVE  a[i] < a[j]
    BY <1>3 DEF Increasing
  <2>1. i \in 1 .. n
    BY <1>1
  <2>2. CASE j = n + 1
    BY <1>2, <1>4, <2>1, <2>2
  <2>3. CASE j \in 1 .. n
    BY <1>2, <1>3, <2>1, <2>3 DEF Increasing
  <2> QED BY <1>1, <2>2, <2>3
<1>6. \A i \in DOMAIN a : a[i] \in 1 .. (sent + 1)
  BY <1>1, <1>2, <1>3, <1>4
<1>7. \E i \in DOMAIN a : a[i] = sent + 1
  BY <1>1, <1>2, <1>3
<1>8. \A i \in DOMAIN g : i \in DOMAIN a /\ a[i] = g[i]
  BY <1>1, <1>2, <1>3
<1> QED BY <1>2, <1>5, <1>6, <1>7, <1>8 DEF a

\* A change of one run that leaves its Msgs, and is not a start, is harmless.
LEMMA RunChangeKeeps ==
  ASSUME NEW m, NEW runs, NEW heard, NEW sent, NEW k \in DOMAIN runs, NEW run \in Runs,
         RunsAreHeld(m, runs), MsgsAreKept(m, runs, heard, sent),
         run.got = runs[k].got, run.up => runs[k].up
  PROVE  LET new == [runs EXCEPT ![k] = run]
         IN /\ RunsAreHeld(m, new) /\ MsgsAreKept(m, new, heard, sent)
            /\ Len(new) = Len(runs) /\ DOMAIN new = DOMAIN runs /\ new[k] = run
            /\ \A r \in DOMAIN runs : r # k => new[r] = runs[r]
<1> DEFINE new == [runs EXCEPT ![k] = run]
<1>1. runs \in Seq(Runs) /\ k \in 1 .. Len(runs)
  BY DEF RunsAreHeld
<1>2. new \in Seq(Runs) /\ Len(new) = Len(runs)
  BY <1>1, ExceptSeq
<1>3. /\ DOMAIN new = DOMAIN runs /\ new[k] = run
      /\ \A r \in DOMAIN runs : r # k => new[r] = runs[r]
  OBVIOUS
<1> HIDE DEF new
<1>4. \A r \in DOMAIN runs : new[r].got = runs[r].got /\ (new[r].up => runs[r].up)
  BY <1>3
<1>5. RunsAreHeld(m, new)
  BY <1>2, <1>3, <1>4 DEF RunsAreHeld
<1>6. MsgsAreKept(m, new, heard, sent)
  BY <1>3, <1>4 DEF MsgsAreKept
<1> QED BY <1>2, <1>3, <1>5, <1>6 DEF new

\* A mount that stops its run leaves none up.
LEMMA StopKeeps ==
  ASSUME NEW m, NEW runs, NEW heard, NEW sent, NEW shown,
         RunsAreHeld(m, runs), MsgsAreKept(m, runs, heard, sent),
         ShownIsInstalled(m, runs, shown), m.phase # "not-started"
  PROVE  LET p == StopMount(m, runs)
         IN /\ RunsAreHeld(p.m, p.runs) /\ MsgsAreKept(p.m, p.runs, heard, sent)
            /\ ShownIsInstalled(p.m, p.runs, shown)
            /\ p.m.phase = "stopped" /\ p.m.connected = m.connected
<1> DEFINE p == StopMount(m, runs)
<1>1. m \in Mounts /\ runs \in Seq(Runs)
  BY DEF RunsAreHeld
<1>2. CASE ~HasHandle(m)
  <2>1. p.m = m /\ p.runs = runs /\ m.phase = "stopped"
    BY <1>1, <1>2 DEF StopMount, Pair, HasHandle, Mounts
  <2> QED BY <2>1
<1>3. CASE HasHandle(m)
  <2> DEFINE k == m.handle
             run == [runs[k] EXCEPT !.up = FALSE]
             new == [runs EXCEPT ![k] = run]
  <2>1. k \in DOMAIN runs /\ runs[k] \in Runs
    <3>1. k \in DOMAIN runs
      BY <1>3 DEF RunsAreHeld
    <3> QED BY <3>1, <1>1, ElementOfSeq
  <2>2. run \in Runs /\ run.got = runs[k].got /\ ~run.up
    BY <2>1 DEF Runs
  <2>3. p.runs = new
    BY <1>3 DEF StopMount, Pair
  <2>4. /\ p.m \in Mounts /\ p.m.phase = "stopped" /\ p.m.handle = NoRun
        /\ p.m.connected = m.connected /\ p.m.held = m.held
    BY <1>1, <1>3 DEF StopMount, Pair, Mounts, NoRun
  <2> HIDE DEF p, k, run
  <2>5. /\ RunsAreHeld(m, new) /\ MsgsAreKept(m, new, heard, sent)
        /\ Len(new) = Len(runs) /\ DOMAIN new = DOMAIN runs /\ new[k] = run
        /\ \A r \in DOMAIN runs : r # k => new[r] = runs[r]
    BY <2>1, <2>2, RunChangeKeeps
  <2> HIDE DEF new
  <2>6. \A r \in DOMAIN new : ~new[r].up
    BY <2>2, <2>5 DEF RunsAreHeld, k
  <2>7. RunsAreHeld(p.m, p.runs)
    BY <2>3, <2>4, <2>5, <2>6 DEF RunsAreHeld, HasHandle
  <2>8. MsgsAreKept(p.m, p.runs, heard, sent)
    BY <2>3, <2>4, <2>5 DEF MsgsAreKept
  <2>9. ShownIsInstalled(p.m, p.runs, shown)
    BY <2>3, <2>4, <2>5 DEF ShownIsInstalled, HasHandle
  <2> QED BY <2>4, <2>7, <2>8, <2>9 DEF p
<1> QED BY <1>2, <1>3

\* What a mount looks like to its run does not hang on its other fields.
LEMMA MountChangeKeeps ==
  ASSUME NEW m, NEW n \in Mounts, NEW runs, NEW heard, NEW sent, NEW shown,
         RunsAreHeld(m, runs), MsgsAreKept(m, runs, heard, sent),
         ShownIsInstalled(m, runs, shown),
         n.handle = m.handle, n.held = m.held, HasHandle(n) <=> HasHandle(m),
         n.booted \in {m.booted, m.handle},
         n.phase = "not-started" <=> m.phase = "not-started"
  PROVE  /\ RunsAreHeld(n, runs) /\ MsgsAreKept(n, runs, heard, sent)
         /\ ShownIsInstalled(n, runs, shown)
BY DEF RunsAreHeld, MsgsAreKept, ShownIsInstalled

\* connect() ends live and connected.
LEMMA ConnectKeeps ==
  ASSUME NEW m, NEW runs, NEW heard, NEW sent, NEW shown,
         RunsAreHeld(m, runs), MsgsAreKept(m, runs, heard, sent),
         ShownIsInstalled(m, runs, shown)
  PROVE  LET p == Connect(m, runs)
         IN /\ RunsAreHeld(p.m, p.runs) /\ MsgsAreKept(p.m, p.runs, heard, sent)
            /\ ShownIsInstalled(p.m, p.runs, shown)
            /\ p.m.phase = "live" /\ p.m.connected
<1> DEFINE on == [m EXCEPT !.connected = TRUE]
           back == [on EXCEPT !.phase = "live"]
<1>1. m \in Mounts
  BY DEF RunsAreHeld
<1>2. /\ on \in Mounts /\ on.phase = m.phase /\ on.handle = m.handle
      /\ on.held = m.held /\ on.booted = m.booted /\ on.connected
  BY <1>1 DEF Mounts
<1>3. /\ RunsAreHeld(on, runs) /\ MsgsAreKept(on, runs, heard, sent)
      /\ ShownIsInstalled(on, runs, shown)
  <2> HIDE DEF on
  <2> QED BY <1>2, MountChangeKeeps DEF HasHandle
<1>4. CASE m.phase = "live"
  <2>1. Connect(m, runs).m = on /\ Connect(m, runs).runs = runs
    BY <1>4 DEF Connect, Pair
  <2> HIDE DEF on
  <2> QED BY <2>1, <1>2, <1>3, <1>4
<1>5. CASE m.phase = "leaving"
  <2>1. Connect(m, runs).m = back /\ Connect(m, runs).runs = runs
    BY <1>5 DEF Connect, Pair
  <2>2. /\ back \in Mounts /\ back.phase = "live" /\ back.handle = m.handle
        /\ back.held = m.held /\ back.booted = m.booted /\ back.connected
    BY <1>1 DEF Mounts
  <2>3. /\ RunsAreHeld(back, runs) /\ MsgsAreKept(back, runs, heard, sent)
        /\ ShownIsInstalled(back, runs, shown)
    <3> HIDE DEF back
    <3> QED BY <2>2, <1>5, MountChangeKeeps DEF HasHandle
  <2> HIDE DEF back
  <2> QED BY <2>1, <2>2, <2>3
<1>6. CASE m.phase \in {"not-started", "stopped"}
  <2>1. Connect(m, runs) = StartMount(on, runs)
    BY <1>6 DEF Connect
  <2>2. ~HasHandle(on)
    BY <1>2, <1>6 DEF HasHandle
  <2> HIDE DEF on
  <2> QED BY <2>1, <2>2, <1>2, <1>3, StartKeeps
<1> QED BY <1>1, <1>4, <1>5, <1>6 DEF Mounts

\* disconnect() only notes itself.
LEMMA DisconnectKeeps ==
  ASSUME NEW m, NEW runs, NEW heard, NEW sent, NEW shown,
         RunsAreHeld(m, runs), MsgsAreKept(m, runs, heard, sent),
         ShownIsInstalled(m, runs, shown)
  PROVE  /\ RunsAreHeld(Disconnect(m), runs)
         /\ MsgsAreKept(Disconnect(m), runs, heard, sent)
         /\ ShownIsInstalled(Disconnect(m), runs, shown)
         /\ Disconnect(m).phase = m.phase /\ ~Disconnect(m).connected
<1> DEFINE off == Disconnect(m)
<1>1. m \in Mounts
  BY DEF RunsAreHeld
<1>2. /\ off \in Mounts /\ off.phase = m.phase /\ off.handle = m.handle
      /\ off.held = m.held /\ off.booted = m.booted /\ ~off.connected
  BY <1>1 DEF Mounts, Disconnect
<1> HIDE DEF off
<1> QED BY <1>2, MountChangeKeeps DEF HasHandle, off

\* retire() stops the run, or, under a standing effect, lets it leave.
LEMMA RetireKeeps ==
  ASSUME RunsAreHeld(mount, mountRuns),
         MsgsAreKept(mount, mountRuns, mountHeard, mountSent),
         ShownIsInstalled(mount, mountRuns, mountShown)
  PROVE  LET p == Retire(mount, mountRuns)
         IN /\ RunsAreHeld(p.m, p.runs)
            /\ MsgsAreKept(p.m, p.runs, HeardAt(mount), mountSent)
            /\ ShownIsInstalled(p.m, p.runs, mountShown)
            /\ p.m.connected = mount.connected
            /\ p.m.phase \in {"leaving", "stopped"}
            /\ mount.phase = "live" /\ mount.connected => p.m.phase = "leaving"
            /\ p.m.phase = "leaving" => HasHandle(mount) /\
                                        (mount.connected \/ mount.phase = "leaving")
<1>1. mount \in Mounts /\ mountRuns \in Seq(Runs)
  BY DEF RunsAreHeld
<1>2. mount.phase # "not-started" => HeardAt(mount) = mountHeard
  BY DEF HeardAt
<1>3. CASE mount.phase = "not-started"
  <2> DEFINE end == [mount EXCEPT !.phase = "stopped", !.held = <<>>]
  <2>1. Retire(mount, mountRuns).m = end /\ Retire(mount, mountRuns).runs = mountRuns
    BY <1>3 DEF Retire, Pair
  <2>2. /\ end \in Mounts /\ end.phase = "stopped" /\ end.handle = mount.handle
        /\ end.held = <<>> /\ end.booted = mount.booted /\ end.connected = mount.connected
    BY <1>1, EmptySeq DEF Mounts
  <2> HIDE DEF end
  <2>3. RunsAreHeld(end, mountRuns)
    BY <2>2, <1>3 DEF RunsAreHeld, HasHandle
  <2>4. MsgsAreKept(end, mountRuns, HeardAt(mount), mountSent)
    <3>1. HeardAt(mount) = mountHeard \union {mount.held[i] : i \in DOMAIN mount.held}
      BY <1>3 DEF HeardAt
    <3>2. DOMAIN end.held = {}
      BY <2>2
    <3> QED BY <3>1, <3>2 DEF MsgsAreKept, Increasing
  <2>5. ShownIsInstalled(end, mountRuns, mountShown)
    BY <2>2 DEF ShownIsInstalled, HasHandle
  <2> QED BY <2>1, <2>2, <2>3, <2>4, <2>5, <1>3
<1>4. CASE mount.phase = "live" /\ mount.connected
  <2> DEFINE end == [mount EXCEPT !.phase = "leaving"]
  <2>1. Retire(mount, mountRuns).m = end /\ Retire(mount, mountRuns).runs = mountRuns
    BY <1>4 DEF Retire, Pair
  <2>2. /\ end \in Mounts /\ end.phase = "leaving" /\ end.handle = mount.handle
        /\ end.held = mount.held /\ end.booted = mount.booted
        /\ end.connected = mount.connected
    BY <1>1 DEF Mounts
  <2> HIDE DEF end
  <2>3. /\ RunsAreHeld(end, mountRuns)
        /\ MsgsAreKept(end, mountRuns, mountHeard, mountSent)
        /\ ShownIsInstalled(end, mountRuns, mountShown)
    BY <2>2, <1>4, MountChangeKeeps DEF HasHandle
  <2> QED BY <2>1, <2>2, <2>3, <1>2, <1>4 DEF HasHandle
<1>5. CASE mount.phase = "live" /\ ~mount.connected
  <2>1. Retire(mount, mountRuns) = StopMount(mount, mountRuns)
    BY <1>5 DEF Retire
  <2> QED BY <2>1, <1>2, <1>5, StopKeeps
<1>6. CASE mount.phase \in {"leaving", "stopped"}
  <2>1. Retire(mount, mountRuns) = Pair(mount, mountRuns)
    BY <1>6 DEF Retire
  <2> QED BY <2>1, <1>2, <1>6 DEF Pair, HasHandle
<1> QED BY <1>1, <1>3, <1>4, <1>5, <1>6 DEF Mounts

-----------------------------------------------------------------------------
(* The steps.                                                              *)

LEMMA MountInitial == MountInit => MountInv
<1> SUFFICES ASSUME MountInit PROVE MountInv
  OBVIOUS
<1>1. mount \in Mounts /\ mountRuns \in Seq(Runs) /\ Len(mountRuns) = 0
  BY EmptySeq DEF MountInit, Mounts, NoRun
<1>2. DOMAIN mountRuns = {} /\ DOMAIN mount.held = {} /\ 1 .. mountSent = {}
  BY DEF MountInit
<1>3. RunsAreHeld(mount, mountRuns)
  BY <1>1, <1>2 DEF MountInit, RunsAreHeld, HasHandle, NoRun
<1>4. MsgsAreKept(mount, mountRuns, mountHeard, mountSent)
  BY <1>2 DEF MountInit, MsgsAreKept, Increasing
<1>5. ShownIsInstalled(mount, mountRuns, mountShown)
  BY <1>1 DEF MountInit, ShownIsInstalled, Initial, NoRun, HasHandle
<1>6. PhaseFollows
  BY DEF MountInit, PhaseFollows
<1> QED BY <1>3, <1>4, <1>5, <1>6 DEF MountInv

\* The effects and the cleanups.
LEMMA ReactKeeps ==
  ASSUME MountInv,
         EffectRuns \/ StrictRerun \/ Hide \/ Delete \/ DeleteUnretired \/ LateCleanup
  PROVE  MountInv'
<1>0. /\ RunsAreHeld(mount, mountRuns)
      /\ MsgsAreKept(mount, mountRuns, mountHeard, mountSent)
      /\ ShownIsInstalled(mount, mountRuns, mountShown)
      /\ PhaseFollows
  BY DEF MountInv
<1>1. CASE EffectRuns
  <2> DEFINE p == Connect(mount, mountRuns)
  <2>1. /\ mount' = p.m /\ mountRuns' = p.runs /\ gateOpen' = TRUE /\ screen' = "shown"
        /\ UNCHANGED <<mountTasks, mountHeard, mountShown, mountSent, react>>
    BY <1>1 DEF EffectRuns, Becomes, ReactDoes
  <2>2. /\ RunsAreHeld(p.m, p.runs) /\ MsgsAreKept(p.m, p.runs, mountHeard, mountSent)
        /\ ShownIsInstalled(p.m, p.runs, mountShown)
        /\ p.m.phase = "live" /\ p.m.connected
    BY <1>0, ConnectKeeps
  <2> HIDE DEF p
  <2>3. PhaseFollows'
    BY <1>0, <2>1, <2>2 DEF PhaseFollows
  <2> QED BY <2>1, <2>2, <2>3 DEF MountInv
<1>2. CASE StrictRerun
  <2> DEFINE off == Disconnect(mount)
             p == Connect(off, mountRuns)
  <2>1. /\ mount' = p.m /\ mountRuns' = p.runs /\ gateOpen' = TRUE /\ screen' = "shown"
        /\ mountTasks' = mountTasks + 1
        /\ UNCHANGED <<mountHeard, mountShown, mountSent, react>>
    BY <1>2 DEF StrictRerun, Becomes, ReactDoes
  <2>2. /\ RunsAreHeld(off, mountRuns)
        /\ MsgsAreKept(off, mountRuns, mountHeard, mountSent)
        /\ ShownIsInstalled(off, mountRuns, mountShown)
    BY <1>0, DisconnectKeeps
  <2> HIDE DEF off
  <2>3. /\ RunsAreHeld(p.m, p.runs) /\ MsgsAreKept(p.m, p.runs, mountHeard, mountSent)
        /\ ShownIsInstalled(p.m, p.runs, mountShown)
        /\ p.m.phase = "live" /\ p.m.connected
    BY <2>2, ConnectKeeps
  <2> HIDE DEF p
  <2>4. PhaseFollows'
    BY <1>0, <2>1, <2>3 DEF PhaseFollows
  <2> QED BY <2>1, <2>3, <2>4 DEF MountInv
<1>3. CASE Hide
  <2>0. /\ screen = "shown" /\ screen' = "hidden" /\ react.hides
        /\ mountTasks' = mountTasks + 1
        /\ UNCHANGED <<gateOpen, mountHeard, mountShown, mountSent, react>>
    BY <1>3 DEF Hide, ReactDoes
  <2>1. CASE mount' = Disconnect(mount) /\ mountRuns' = mountRuns
    <3>1. /\ RunsAreHeld(mount', mountRuns)
          /\ MsgsAreKept(mount', mountRuns, mountHeard, mountSent)
          /\ ShownIsInstalled(mount', mountRuns, mountShown)
          /\ mount'.phase = mount.phase /\ ~mount'.connected
      BY <1>0, <2>1, DisconnectKeeps
    <3>2. PhaseFollows'
      BY <1>0, <2>0, <3>1 DEF PhaseFollows
    <3> QED BY <2>0, <2>1, <3>1, <3>2 DEF MountInv
  <2>2. CASE /\ mount' = Disconnect(Retire(mount, mountRuns).m)
             /\ mountRuns' = Retire(mount, mountRuns).runs
    <3> DEFINE p == Retire(mount, mountRuns)
    <3>1. /\ RunsAreHeld(p.m, p.runs)
          /\ MsgsAreKept(p.m, p.runs, HeardAt(mount), mountSent)
          /\ ShownIsInstalled(p.m, p.runs, mountShown)
          /\ p.m.phase \in {"leaving", "stopped"}
      BY <1>0, RetireKeeps
    <3>2. HeardAt(mount) = mountHeard
      BY <1>0, <2>0 DEF PhaseFollows, HeardAt
    <3> HIDE DEF p
    <3>3. /\ RunsAreHeld(Disconnect(p.m), p.runs)
          /\ MsgsAreKept(Disconnect(p.m), p.runs, mountHeard, mountSent)
          /\ ShownIsInstalled(Disconnect(p.m), p.runs, mountShown)
          /\ Disconnect(p.m).phase = p.m.phase /\ ~Disconnect(p.m).connected
      BY <3>1, <3>2, DisconnectKeeps
    <3>4. mount' = Disconnect(p.m) /\ mountRuns' = p.runs
      BY <2>2 DEF p
    <3>5. PhaseFollows'
      BY <1>0, <2>0, <3>1, <3>3, <3>4 DEF PhaseFollows
    <3> QED BY <2>0, <3>3, <3>4, <3>5 DEF MountInv
  <2> QED BY <1>3, <2>1, <2>2 DEF Hide, Becomes, Pair
<1>4. CASE Delete
  <2> DEFINE p == Retire(mount, mountRuns)
  <2>1. /\ mount' = p.m /\ mountRuns' = p.runs /\ mountHeard' = HeardAt(mount)
        /\ UNCHANGED <<gateOpen, mountTasks, mountShown, mountSent, react>>
        /\ \/ screen = "shown" /\ screen' = "deleted"
           \/ screen \in {"committed", "hidden"} /\ screen' = "gone"
    BY <1>4 DEF Delete, Becomes, ReactDoes
  <2>2. /\ RunsAreHeld(p.m, p.runs)
        /\ MsgsAreKept(p.m, p.runs, HeardAt(mount), mountSent)
        /\ ShownIsInstalled(p.m, p.runs, mountShown)
        /\ p.m.connected = mount.connected
        /\ p.m.phase \in {"leaving", "stopped"}
        /\ mount.phase = "live" /\ mount.connected => p.m.phase = "leaving"
        /\ p.m.phase = "leaving" => HasHandle(mount) /\
                                    (mount.connected \/ mount.phase = "leaving")
    BY <1>0, RetireKeeps
  <2> HIDE DEF p
  <2>3. PhaseFollows'
    BY <1>0, <2>1, <2>2 DEF PhaseFollows, HasHandle
  <2> QED BY <2>1, <2>2, <2>3 DEF MountInv
<1>5. CASE DeleteUnretired
  <2>1. /\ UNCHANGED <<mount, mountRuns, gateOpen, mountTasks, mountHeard, mountShown,
                       mountSent, react>>
        /\ screen = "shown" /\ screen' = "deleted" /\ ~react.hides
    BY <1>5 DEF DeleteUnretired, ReactDoes
  <2> QED BY <1>0, <2>1 DEF MountInv, PhaseFollows
<1>6. CASE LateCleanup
  <2>1. /\ mount' = Disconnect(mount) /\ screen = "deleted" /\ screen' = "gone"
        /\ mountTasks' = mountTasks + 1
        /\ UNCHANGED <<gateOpen, mountRuns, mountHeard, mountShown, mountSent, react>>
    BY <1>6 DEF LateCleanup
  <2>2. /\ RunsAreHeld(mount', mountRuns)
        /\ MsgsAreKept(mount', mountRuns, mountHeard, mountSent)
        /\ ShownIsInstalled(mount', mountRuns, mountShown)
        /\ mount'.phase = mount.phase /\ ~mount'.connected
    BY <1>0, <2>1, DisconnectKeeps
  <2>3. PhaseFollows'
    BY <1>0, <2>1, <2>2 DEF PhaseFollows, HasHandle
  <2> QED BY <2>1, <2>2, <2>3 DEF MountInv
<1> QED BY <1>1, <1>2, <1>3, <1>4, <1>5, <1>6

\* The microtask of a disconnect: judged only if nothing reconnected.
LEMMA JudgeKeeps == ASSUME MountInv, JudgeCleanup PROVE MountInv'
<1>0. /\ RunsAreHeld(mount, mountRuns)
      /\ MsgsAreKept(mount, mountRuns, mountHeard, mountSent)
      /\ ShownIsInstalled(mount, mountRuns, mountShown)
      /\ PhaseFollows
  BY DEF MountInv
<1>1. /\ mountTasks > 0 /\ mountTasks' = mountTasks - 1
      /\ UNCHANGED <<mountShown, react, screen, mountSent, mountHeard>>
  BY DEF JudgeCleanup, outside
<1>2. CASE mount.connected
  <2>1. UNCHANGED <<mount, mountRuns, gateOpen>>
    BY <1>2 DEF JudgeCleanup, Judged
  <2>2. PhaseFollows'
    BY <1>0, <1>1, <1>2, <2>1 DEF PhaseFollows
  <2> QED BY <1>0, <1>1, <2>1, <2>2 DEF MountInv
<1>3. CASE ~mount.connected /\ (mount.phase = "leaving" \/ ~react.hides)
  <2> DEFINE p == StopMount(mount, mountRuns)
  <2>1. mount' = p.m /\ mountRuns' = p.runs /\ UNCHANGED gateOpen
    BY <1>3 DEF JudgeCleanup, Judged, Becomes
  <2>2. CASE mount.phase = "not-started"
    <3>1. mount' = mount /\ mountRuns' = mountRuns
      BY <2>1, <2>2 DEF StopMount, HasHandle, Pair
    <3>2. screen = "committed" \/ screen \notin {"shown", "hidden", "deleted", "gone"}
      BY <1>0, <2>2 DEF PhaseFollows
    <3>3. gateOpen' = gateOpen /\ mountTasks' \in Nat
      BY <1>0, <1>1, <2>1 DEF PhaseFollows
    <3>4. PhaseFollows'
      BY <1>0, <1>1, <2>2, <3>1, <3>2, <3>3 DEF PhaseFollows
    <3> QED BY <1>0, <1>1, <3>1, <3>4 DEF MountInv
  <2>3. CASE mount.phase # "not-started"
    <3>1. /\ RunsAreHeld(p.m, p.runs)
          /\ MsgsAreKept(p.m, p.runs, mountHeard, mountSent)
          /\ ShownIsInstalled(p.m, p.runs, mountShown)
          /\ p.m.phase = "stopped" /\ p.m.connected = mount.connected
      BY <1>0, <2>3, StopKeeps
    <3> HIDE DEF p
    <3>2. PhaseFollows'
      BY <1>0, <1>1, <1>3, <2>1, <3>1, <2>3 DEF PhaseFollows, HasHandle
    <3> QED BY <1>1, <2>1, <3>1, <3>2 DEF MountInv
  <2> QED BY <2>2, <2>3
<1>4. CASE ~mount.connected /\ mount.phase # "leaving" /\ react.hides
  <2>1. gateOpen' = FALSE /\ UNCHANGED <<mount, mountRuns>>
    BY <1>4 DEF JudgeCleanup, Judged
  <2>2. ~gateOpen' /\ gateOpen' \in BOOLEAN /\ mountTasks' \in Nat
    <3>1. mountTasks' \in Nat
      BY <1>0, <1>1 DEF PhaseFollows
    <3>2. ~gateOpen' /\ gateOpen' \in BOOLEAN
      BY <2>1
    <3> QED BY <3>1, <3>2
  <2>3. screen \in {"committed", "hidden", "gone"}
    BY <1>0, <1>4 DEF PhaseFollows
  <2>4. screen = "gone" => ~HasHandle(mount)
    BY <1>0, <1>4 DEF PhaseFollows, HasHandle
  <2>5. PhaseFollows'
    <3>1. screen' = screen /\ react' = react /\ mount' = mount
      BY <1>1, <2>1
    <3> QED BY <1>0, <1>4, <2>2, <2>3, <2>4, <3>1 DEF PhaseFollows, HasHandle
  <2> QED BY <1>0, <1>1, <2>1, <2>5 DEF MountInv
<1> QED BY <1>2, <1>3, <1>4

\* The run's own steps.
LEMMA RunStepKeeps ==
  ASSUME MountInv, NEW r \in DOMAIN mountRuns, RunInstalls(r) \/ RunReady(r) \/ RunEnds(r)
  PROVE  MountInv'
<1>0. /\ RunsAreHeld(mount, mountRuns)
      /\ MsgsAreKept(mount, mountRuns, mountHeard, mountSent)
      /\ ShownIsInstalled(mount, mountRuns, mountShown)
      /\ PhaseFollows
  BY DEF MountInv
<1>1. /\ mountRuns \in Seq(Runs) /\ mountRuns[r] \in Runs
      /\ r \in Nat /\ r <= Len(mountRuns) /\ Len(mountRuns) \in Nat
  BY <1>0, ElementOfSeq DEF RunsAreHeld
<1>2. UNCHANGED <<gateOpen, mountTasks, react, screen, mountSent, mountHeard>>
  BY DEF RunInstalls, RunReady, RunEnds, outside
<1>3. CASE RunInstalls(r)
  <2> DEFINE run == [mountRuns[r] EXCEPT !.installed = @ + 1]
             new == [mountRuns EXCEPT ![r] = run]
  <2>1. run \in Runs /\ run.got = mountRuns[r].got /\ (run.up => mountRuns[r].up)
        /\ run.installed = mountRuns[r].installed + 1
    <3>1. mountRuns[r].installed + 1 \in Nat
      BY <1>1 DEF Runs
    <3> QED BY <1>1, <3>1, RunInstalled
  <2>2. mount' = mount /\ mountRuns' = new
    BY <1>3 DEF RunInstalls
  <2>3. mountShown' = IF mount.handle = r THEN [run |-> r, n |-> run.installed]
                                          ELSE mountShown
    BY <1>3, <2>1 DEF RunInstalls
  <2> HIDE DEF run
  <2>4. /\ RunsAreHeld(mount, mountRuns')
        /\ MsgsAreKept(mount, mountRuns', mountHeard, mountSent)
        /\ Len(mountRuns') = Len(mountRuns) /\ mountRuns'[r] = run
        /\ \A k \in DOMAIN mountRuns : k # r => mountRuns'[k] = mountRuns[k]
    <3>1. /\ RunsAreHeld(mount, new)
          /\ MsgsAreKept(mount, new, mountHeard, mountSent)
          /\ Len(new) = Len(mountRuns) /\ new[r] = run
          /\ \A k \in DOMAIN mountRuns : k # r => new[k] = mountRuns[k]
      BY <1>0, <2>1, RunChangeKeeps
    <3> QED BY <2>2, <3>1
  <2>5. ShownIsInstalled(mount, mountRuns', mountShown')
    <3>1. run.installed \in Nat
      BY <2>1 DEF Runs
    <3>2. CASE mount.handle = r
      BY <1>1, <2>3, <2>4, <3>1, <3>2 DEF ShownIsInstalled
    <3>3. CASE mount.handle # r
      BY <1>0, <2>3, <2>4, <3>3 DEF ShownIsInstalled, RunsAreHeld
    <3> QED BY <3>2, <3>3
  <2> QED BY <1>0, <1>2, <2>2, <2>4, <2>5 DEF MountInv, PhaseFollows
<1>4. CASE RunReady(r)
  <2> DEFINE run == [mountRuns[r] EXCEPT !.ready = TRUE]
             new == [mountRuns EXCEPT ![r] = run]
  <2>1. run \in Runs /\ run.got = mountRuns[r].got /\ (run.up => mountRuns[r].up)
        /\ run.installed = mountRuns[r].installed
    BY <1>1, RunIsReady
  <2>2. mountRuns' = new
    BY <1>4 DEF RunReady
  <2> HIDE DEF run
  <2>3. /\ RunsAreHeld(mount, mountRuns')
        /\ MsgsAreKept(mount, mountRuns', mountHeard, mountSent)
        /\ Len(mountRuns') = Len(mountRuns) /\ mountRuns'[r] = run
        /\ \A k \in DOMAIN mountRuns : k # r => mountRuns'[k] = mountRuns[k]
    <3>1. /\ RunsAreHeld(mount, new)
          /\ MsgsAreKept(mount, new, mountHeard, mountSent)
          /\ Len(new) = Len(mountRuns) /\ new[r] = run
          /\ \A k \in DOMAIN mountRuns : k # r => new[k] = mountRuns[k]
      BY <1>0, <2>1, RunChangeKeeps
    <3> QED BY <2>2, <3>1
  <2>4. ShownIsInstalled(mount, mountRuns', mountShown)
    BY <1>0, <2>1, <2>3 DEF ShownIsInstalled, RunsAreHeld
  <2>5. CASE StillOurs(r)
    <3>1. /\ mount' = [mount EXCEPT !.booted = r]
          /\ mountShown' = [run |-> r, n |-> run.installed]
      BY <1>4, <2>1, <2>5 DEF RunReady
    <3>2. /\ mount' \in Mounts /\ mount'.handle = mount.handle /\ mount'.held = mount.held
          /\ mount'.phase = mount.phase /\ mount'.connected = mount.connected
          /\ mount'.booted = mount.handle
      BY <1>0, <1>1, <2>5, <3>1 DEF RunsAreHeld, Mounts, StillOurs
    <3>3. /\ RunsAreHeld(mount', mountRuns')
          /\ MsgsAreKept(mount', mountRuns', mountHeard, mountSent)
      BY <2>3, <2>4, <3>2, MountChangeKeeps DEF HasHandle
    <3>4. ShownIsInstalled(mount', mountRuns', mountShown')
      <4>1. run.installed \in Nat
        BY <2>1 DEF Runs
      <4> QED BY <1>1, <2>3, <3>1, <3>2, <4>1 DEF ShownIsInstalled
    <3>5. PhaseFollows'
      BY <1>0, <1>2, <3>2 DEF PhaseFollows, HasHandle
    <3> QED BY <1>2, <3>3, <3>4, <3>5 DEF MountInv
  <2>6. CASE ~StillOurs(r)
    <3>1. mount' = mount /\ mountShown' = mountShown
      BY <1>4, <2>6 DEF RunReady
    <3> QED BY <1>0, <1>2, <2>3, <2>4, <3>1 DEF MountInv, PhaseFollows
  <2> QED BY <2>5, <2>6
<1>5. CASE RunEnds(r)
  <2> DEFINE run == [mountRuns[r] EXCEPT !.up = FALSE]
             new == [mountRuns EXCEPT ![r] = run]
  <2>1. run \in Runs /\ run.got = mountRuns[r].got /\ ~run.up
        /\ run.installed = mountRuns[r].installed
    BY <1>1, RunIsDown
  <2>2. mountRuns' = new /\ UNCHANGED <<mount, mountShown>>
    BY <1>5 DEF RunEnds
  <2> HIDE DEF run
  <2>3. /\ RunsAreHeld(mount, mountRuns')
        /\ MsgsAreKept(mount, mountRuns', mountHeard, mountSent)
        /\ Len(mountRuns') = Len(mountRuns) /\ mountRuns'[r] = run
        /\ \A k \in DOMAIN mountRuns : k # r => mountRuns'[k] = mountRuns[k]
    <3>1. /\ RunsAreHeld(mount, new)
          /\ MsgsAreKept(mount, new, mountHeard, mountSent)
          /\ Len(new) = Len(mountRuns) /\ new[r] = run
          /\ \A k \in DOMAIN mountRuns : k # r => new[k] = mountRuns[k]
      BY <1>0, <2>1, RunChangeKeeps
    <3> QED BY <2>2, <3>1
  <2>4. ShownIsInstalled(mount, mountRuns', mountShown)
    BY <1>0, <2>1, <2>3 DEF ShownIsInstalled, RunsAreHeld
  <2> QED BY <1>0, <1>2, <2>2, <2>3, <2>4 DEF MountInv, PhaseFollows
<1> QED BY <1>3, <1>4, <1>5

\* A Msg is held, goes to the run, or is reported.
LEMMA SendKeeps == ASSUME MountInv, SendMsg PROVE MountInv'
<1> DEFINE msg == mountSent + 1
           reaches == HasHandle(mount) /\ mountRuns[mount.handle].up
<1>0. /\ RunsAreHeld(mount, mountRuns)
      /\ MsgsAreKept(mount, mountRuns, mountHeard, mountSent)
      /\ ShownIsInstalled(mount, mountRuns, mountShown)
      /\ PhaseFollows
  BY DEF MountInv
<1>1. /\ mountSent' = msg /\ msg \in Nat /\ mountSent \in Nat
      /\ UNCHANGED <<gateOpen, mountTasks, mountShown, react, screen>>
  BY <1>0 DEF SendMsg, MsgsAreKept
<1>2. 1 .. msg = (1 .. mountSent) \union {msg} /\ \A x \in 1 .. mountSent : x < msg
  BY <1>1
<1>3. mount \in Mounts /\ mountRuns \in Seq(Runs)
  BY <1>0 DEF RunsAreHeld
<1>4. CASE reaches
  <2> DEFINE k == mount.handle
             run == [mountRuns[k] EXCEPT !.got = Append(@, msg)]
  <2>1. mount.phase # "not-started" /\ k \in DOMAIN mountRuns
    BY <1>0, <1>4 DEF HasHandle, RunsAreHeld
  <2>2. mountRuns[k] \in Runs
    BY <1>3, <2>1, ElementOfSeq
  <2>3. /\ mount' = mount /\ mountHeard' = mountHeard
        /\ mountRuns' = [mountRuns EXCEPT ![k] = run]
    BY <1>4, <2>1 DEF SendMsg
  <2>4. mountRuns[k].got \in Seq(Nat)
    BY <2>2 DEF Runs
  <2> DEFINE g == mountRuns[k].got
             all == Append(g, msg)
  <2>5. /\ all \in Seq(Nat) /\ Increasing(all)
        /\ \A i \in DOMAIN all : all[i] \in 1 .. msg
        /\ \E i \in DOMAIN all : all[i] = msg
        /\ \A i \in DOMAIN g : i \in DOMAIN all /\ all[i] = g[i]
    BY <1>0, <1>1, <2>1, <2>4, AppendKeeps DEF MsgsAreKept
  <2>6. /\ run \in Runs /\ run.got = all /\ (run.up => mountRuns[k].up)
        /\ run.installed = mountRuns[k].installed
    <3> HIDE DEF all
    <3>1. run = [mountRuns[k] EXCEPT !.got = all]
      BY DEF all
    <3> HIDE DEF run, k
    <3> QED BY <2>2, <2>5, <3>1, RunGets
  <2> DEFINE new == [mountRuns EXCEPT ![k] = run]
  <2>7. /\ new \in Seq(Runs) /\ Len(new) = Len(mountRuns)
        /\ DOMAIN new = DOMAIN mountRuns /\ new[k] = run
        /\ \A r \in DOMAIN mountRuns : r # k => new[r] = mountRuns[r]
    <3> HIDE DEF run
    <3>1. k \in 1 .. Len(mountRuns)
      BY <1>3, <2>1
    <3> QED BY <1>3, <2>1, <2>6, <3>1, ExceptSeq
  <2> HIDE DEF run, all, g, new
  <2>8. RunsAreHeld(mount, new)
    BY <1>0, <2>1, <2>6, <2>7 DEF RunsAreHeld
  <2>9. MsgsAreKept(mount, new, mountHeard, msg)
    <3> HIDE DEF msg, k
    <3>1. ASSUME NEW x \in 1 .. msg
          PROVE  \/ \E r \in DOMAIN new : \E i \in DOMAIN new[r].got : new[r].got[i] = x
                 \/ \E i \in DOMAIN mount.held : mount.held[i] = x
                 \/ x \in mountHeard
      <4>1. CASE x = msg
        BY <4>1, <2>1, <2>5, <2>6, <2>7
      <4>2. CASE x \in 1 .. mountSent
        <5>1. CASE \E r \in DOMAIN mountRuns :
                     \E i \in DOMAIN mountRuns[r].got : mountRuns[r].got[i] = x
          <6>1. PICK r \in DOMAIN mountRuns :
                     \E i \in DOMAIN mountRuns[r].got : mountRuns[r].got[i] = x
            BY <5>1
          <6>2. \E i \in DOMAIN new[r].got : new[r].got[i] = x
            BY <6>1, <2>5, <2>6, <2>7 DEF g
          <6> QED BY <6>2, <2>7
        <5> QED BY <1>0, <4>2, <5>1 DEF MsgsAreKept
      <4> QED BY <1>2, <4>1, <4>2 DEF msg
    <3>2. \A r \in DOMAIN new :
            /\ \A i \in DOMAIN new[r].got : new[r].got[i] \in 1 .. msg
            /\ Increasing(new[r].got)
      <4> TAKE r \in DOMAIN new
      <4>1. CASE r = k
        BY <4>1, <2>5, <2>6, <2>7
      <4>2. CASE r # k
        <5>1. r \in DOMAIN mountRuns /\ new[r] = mountRuns[r]
          BY <4>2, <2>7
        <5>2. 1 .. mountSent \subseteq 1 .. msg
          BY <1>2 DEF msg
        <5> QED BY <1>0, <5>1, <5>2 DEF MsgsAreKept
      <4> QED BY <4>1, <4>2
    <3>3. 1 .. mountSent \subseteq 1 .. msg /\ msg \in Nat
      BY <1>1, <1>2 DEF msg
    <3> QED BY <1>0, <3>1, <3>2, <3>3 DEF MsgsAreKept
  <2>10. ShownIsInstalled(mount, new, mountShown)
    BY <1>0, <2>1, <2>6, <2>7 DEF ShownIsInstalled
  <2>11. mountRuns' = new
    BY <2>3 DEF new
  <2> QED BY <1>0, <1>1, <2>3, <2>8, <2>9, <2>10, <2>11 DEF MountInv, PhaseFollows
<1>5. CASE ~reaches /\ mount.phase = "not-started"
  <2> DEFINE g == mount.held
             all == Append(g, msg)
             to == [mount EXCEPT !.held = all]
  <2>1. /\ UNCHANGED <<mountRuns, mountHeard>> /\ mount' = to
    BY <1>5 DEF SendMsg
  <2>2. /\ all \in Seq(Nat) /\ Increasing(all)
        /\ \A i \in DOMAIN all : all[i] \in 1 .. msg
        /\ \E i \in DOMAIN all : all[i] = msg
        /\ \A i \in DOMAIN g : i \in DOMAIN all /\ all[i] = g[i]
    <3>1. g \in Seq(Nat)
      BY <1>3 DEF Mounts
    <3> QED BY <1>0, <1>1, <3>1, AppendKeeps DEF MsgsAreKept
  <2> HIDE DEF all
  <2>3. /\ to \in Mounts /\ to.phase = mount.phase /\ to.handle = mount.handle
        /\ to.booted = mount.booted /\ (to.connected <=> mount.connected) /\ to.held = all
    BY <1>3, <2>2 DEF Mounts
  <2> HIDE DEF to, g
  <2>4. RunsAreHeld(to, mountRuns)
    BY <1>0, <1>5, <2>3 DEF RunsAreHeld, HasHandle
  <2>5. MsgsAreKept(to, mountRuns, mountHeard, msg)
    <3> HIDE DEF msg
    <3>1. ASSUME NEW x \in 1 .. msg
          PROVE  \/ \E r \in DOMAIN mountRuns :
                      \E i \in DOMAIN mountRuns[r].got : mountRuns[r].got[i] = x
                 \/ \E i \in DOMAIN to.held : to.held[i] = x
                 \/ x \in mountHeard
      <4>1. CASE x = msg
        BY <4>1, <2>2, <2>3
      <4>2. CASE x \in 1 .. mountSent
        BY <1>0, <4>2, <2>2, <2>3 DEF MsgsAreKept, g
      <4> QED BY <1>2, <4>1, <4>2 DEF msg
    <3>2. 1 .. mountSent \subseteq 1 .. msg /\ msg \in Nat
      BY <1>1, <1>2 DEF msg
    <3> QED BY <1>0, <2>2, <2>3, <3>1, <3>2 DEF MsgsAreKept
  <2>6. ShownIsInstalled(to, mountRuns, mountShown)
    BY <1>0, <2>3 DEF ShownIsInstalled, HasHandle
  <2>7. PhaseFollows'
    BY <1>0, <1>1, <2>1, <2>3 DEF PhaseFollows, HasHandle
  <2> QED BY <1>1, <2>1, <2>4, <2>5, <2>6, <2>7 DEF MountInv
<1>6. CASE ~reaches /\ mount.phase # "not-started"
  <2>1. /\ UNCHANGED <<mount, mountRuns>> /\ mountHeard' = mountHeard \union {msg}
    BY <1>6 DEF SendMsg
  <2>2. MsgsAreKept(mount, mountRuns, mountHeard', msg)
    BY <1>0, <1>1, <1>2, <2>1 DEF MsgsAreKept
  <2> QED BY <1>0, <1>1, <2>1, <2>2 DEF MountInv, PhaseFollows
<1> QED BY <1>4, <1>5, <1>6

LEMMA MountStep == ASSUME MountInv, [MountNext]_mountVars PROVE MountInv'
<1>1. CASE UNCHANGED mountVars
  BY <1>1 DEF MountInv, PhaseFollows, mountVars
<1>2. CASE MountNext
  <2>1. CASE EffectRuns \/ StrictRerun \/ Hide \/ Delete \/ DeleteUnretired \/ LateCleanup
    BY <2>1, ReactKeeps
  <2>2. CASE JudgeCleanup
    BY <2>2, JudgeKeeps
  <2>3. CASE SendMsg
    BY <2>3, SendKeeps
  <2>4. CASE \E r \in DOMAIN mountRuns : RunInstalls(r) \/ RunReady(r) \/ RunEnds(r)
    BY <2>4, RunStepKeeps
  <2> QED BY <1>2, <2>1, <2>2, <2>3, <2>4 DEF MountNext
<1> QED BY <1>1, <1>2

LEMMA InvGivesFollows == MountInv => RunFollowsScreen
<1> SUFFICES ASSUME MountInv PROVE RunFollowsScreen
  OBVIOUS
<1>0. /\ RunsAreHeld(mount, mountRuns)
      /\ MsgsAreKept(mount, mountRuns, mountHeard, mountSent)
      /\ ShownIsInstalled(mount, mountRuns, mountShown)
      /\ PhaseFollows
  BY DEF MountInv
<1>1. Up \subseteq {mount.handle}
  BY <1>0 DEF Up, RunsAreHeld
<1>2. ~HasHandle(mount) => Up = {}
  <2>1. mountRuns \in Seq(Runs)
    BY <1>0 DEF RunsAreHeld
  <2>2. 0 \notin DOMAIN mountRuns
    BY <2>1
  <2> QED BY <1>0, <1>1, <2>2 DEF RunsAreHeld, NoRun, Up
<1>3. FollowsScreen
  <2> SUFFICES ASSUME mountTasks = 0
               PROVE  /\ screen = "shown" => mount.phase = "live" /\ gateOpen
                      /\ screen = "hidden" => ~gateOpen \/ mount.phase = "stopped"
                      /\ screen = "gone" => Up = {}
    BY DEF FollowsScreen
  <2>1. mount.phase \in {"not-started", "live", "leaving", "stopped"}
    BY <1>0 DEF RunsAreHeld, Mounts
  <2>2. ~(mountTasks > 0)
    OBVIOUS
  <2>3. screen = "gone" => Up = {}
    BY <1>0, <1>2, <2>2 DEF PhaseFollows
  <2>4. screen = "hidden" => ~gateOpen \/ mount.phase = "stopped"
    BY <1>0, <2>1, <2>2 DEF PhaseFollows
  <2>5. screen = "shown" => mount.phase = "live" /\ gateOpen
    BY <1>0 DEF PhaseFollows
  <2> QED BY <2>3, <2>4, <2>5
<1>4. EveryMsgHeard
  <2> DEFINE got == UNION {{mountRuns[r].got[i] : i \in DOMAIN mountRuns[r].got} :
                             r \in DOMAIN mountRuns}
             held == {mount.held[i] : i \in DOMAIN mount.held}
  <2>1. \A x : x \in got <=> \E r \in DOMAIN mountRuns :
                                \E i \in DOMAIN mountRuns[r].got : mountRuns[r].got[i] = x
    OBVIOUS
  <2>2. \A x : x \in held <=> \E i \in DOMAIN mount.held : mount.held[i] = x
    OBVIOUS
  <2> HIDE DEF got, held
  <2>3. 1 .. mountSent = got \union held \union mountHeard
    <3>1. 1 .. mountSent \subseteq got \union held \union mountHeard
      BY <1>0, <2>1, <2>2 DEF MsgsAreKept
    <3>2. \A x \in got : x \in 1 .. mountSent
      <4> TAKE x \in got
      <4>1. PICK r \in DOMAIN mountRuns :
                   \E i \in DOMAIN mountRuns[r].got : mountRuns[r].got[i] = x
        BY <2>1
      <4> QED BY <1>0, <4>1 DEF MsgsAreKept
    <3>3. \A x \in held : x \in 1 .. mountSent
      BY <1>0, <2>2 DEF MsgsAreKept
    <3>4. mountHeard \subseteq 1 .. mountSent
      BY <1>0 DEF MsgsAreKept
    <3> QED BY <3>1, <3>2, <3>3, <3>4
  <2>4. \A r \in DOMAIN mountRuns : Increasing(mountRuns[r].got)
    BY <1>0 DEF MsgsAreKept
  <2> QED BY <2>3, <2>4 DEF EveryMsgHeard, Increasing, got, held
<1> QED BY <1>0, <1>1, <1>3, <1>4 DEF RunFollowsScreen, RunsAreHeld, ShownIsInstalled

(* For every React a mount may live in, and however far it goes: once the  *)
(* microtasks are over the run is what the screen asks for, one run is up  *)
(* at a time, no older run paints over it, and every Msg sent is held,     *)
(* with a run in its order, or reported (mounted-run.ts:131).              *)
THEOREM MountFollowsScreen == MountSpec => []RunFollowsScreen
<1>1. MountInit => MountInv
  BY MountInitial
<1>2. MountInv /\ [MountNext]_mountVars => MountInv'
  BY MountStep
<1>3. MountInv => RunFollowsScreen
  BY InvGivesFollows
<1> QED BY <1>1, <1>2, <1>3, PTL DEF MountSpec

-----------------------------------------------------------------------------
(* The run in a ManagedRuntime.  Every Msg posted is in one place          *)
(* (MsgsHeldOnce), and what the handle, its fiber and its scope are in     *)
(* rules out the rest (HostStates); registrations stand, wait or were      *)
(* undone (RegsFit).                                                       *)

\* The Msg m is in the sequence s.
Holds(s, m) == \E i \in DOMAIN s : s[i] = m

\* Msgs in the order in which they were posted, none twice.
InOrder(s) == /\ s \in Seq(1 .. hostMsgs)
              /\ \A i, j \in DOMAIN s : i < j => s[i] < s[j]

\* Every Msg is in one place, and nothing is both held and decided.
MsgsHeldOnce ==
  /\ hostMsgs \in Nat
  /\ InOrder(hostTold) /\ InOrder(hostHeld) /\ InOrder(hostDiscards)
  /\ hostRefused \subseteq 1 .. hostMsgs
  /\ \A m \in 1 .. hostMsgs :
       Holds(hostTold, m) \/ Holds(hostHeld, m) \/ Holds(hostDiscards, m)
         \/ m \in hostRefused
  /\ \A m \in 1 .. hostMsgs :
       /\ Holds(hostTold, m) => ~Holds(hostDiscards, m) /\ m \notin hostRefused
       /\ Holds(hostDiscards, m) => m \notin hostRefused
  /\ hostPhase = "building" => hostTold = <<>> /\ hostDiscards = <<>> /\ hostRefused = {}
  /\ hostPhase # "building" => hostHeld = <<>>

\* The handle, its fiber, its scope and its run.
HostStates ==
  /\ hostPhase \in {"building", "live", "closed"}
  /\ hostFiber \in {"waits", "starts", "started", "ended"}
  /\ hostScope \in {"open", "closed"} /\ hostRun \in {"none", "up", "stopped"}
  /\ hostAttached \in {"open", "ok", "err"} /\ hostReports \in {0, 1}
  /\ hostEarly \in BOOLEAN
  /\ hostPhase = "building" => hostReports = 0 /\ hostFiber # "ended"
                                 /\ hostScope = "open"
  /\ hostPhase = "building" => hostAttached = "open"
  /\ hostPhase = "closed" => hostAttached = "err"
  /\ hostPhase = "live" => hostAttached # "open"
  /\ hostPhase = "live" => hostFiber = "ended"
  /\ hostFiber \in {"waits", "starts"} => hostRun = "none"
  /\ hostScope = "closed" => hostRun # "up"
  /\ hostEarly => hostRun = "none" /\ hostFiber \in {"waits", "ended"}
                    /\ hostScope = "closed"

\* What was asked for stands, waits, or was undone.
RegsFit ==
  /\ hostWaiting \subseteq hostAsked /\ hostUndone \subseteq hostAsked
  /\ hostMade \subseteq hostAsked \ hostUndone
  /\ hostPhase = "building" => hostWaiting = hostAsked
  /\ hostPhase # "building" => hostWaiting = {}
  /\ hostPhase = "live" /\ hostAttached = "ok" => hostAsked \ hostUndone = hostMade

\* The invariant of the hosted run.
HostedInv == MsgsHeldOnce /\ HostStates /\ RegsFit

-----------------------------------------------------------------------------

\* Every step keeps the states in step.
LEMMA StatesStep ==
  ASSUME HostStates, HostedNext
  PROVE  HostStates'
<1> USE DEF HostStates, hostMsgVars, hostRegVars
<1>1. CASE LayerBuilt
  BY <1>1 DEF LayerBuilt, MayStart
<1>2. CASE HostedFails
  BY <1>2 DEF HostedFails, CloseHosted, Settles
<1>3. CASE RunStarts
  BY <1>3 DEF RunStarts
<1>4. CASE Attach
  BY <1>4 DEF Attach, Settles
<1>5. CASE PostMsg
  BY <1>5 DEF PostMsg
<1>6. CASE Register
  BY <1>6 DEF Register
<1>7. CASE UndoReg
  BY <1>7 DEF UndoReg
<1>8. CASE StopHosted
  BY <1>8 DEF StopHosted, CloseHosted, Settles
<1>9. CASE HostedRunEnds
  BY <1>9 DEF HostedRunEnds
<1> QED
  BY <1>1, <1>2, <1>3, <1>4, <1>5, <1>6, <1>7, <1>8, <1>9 DEF HostedNext

\* Every step keeps the registrations in their place.
LEMMA RegsStep ==
  ASSUME HostStates, RegsFit, HostedNext
  PROVE  RegsFit'
<1> USE DEF HostStates, RegsFit, hostMsgVars, hostRegVars
<1>1. CASE LayerBuilt
  BY <1>1 DEF LayerBuilt
<1>2. CASE HostedFails
  BY <1>2 DEF HostedFails, CloseHosted, Settles
<1>3. CASE RunStarts
  BY <1>3 DEF RunStarts
<1>4. CASE Attach
  <2>1. hostMade' = hostMade \union (hostWaiting \ hostUndone) /\ hostWaiting' = {}
    BY <1>4 DEF Attach, Wanted
  <2>2. UNCHANGED <<hostAsked, hostUndone>> /\ hostPhase' = "live"
    BY <1>4 DEF Attach
  <2>3. CASE hostPhase = "building"
    BY <2>1, <2>2, <2>3
  <2>4. CASE hostPhase # "building"
    <3>1. hostAttached' = "err"
      BY <2>4, <1>4 DEF Attach, Settles
    <3> QED
      BY <2>1, <2>2, <2>4, <3>1
  <2> QED
    BY <2>3, <2>4
<1>5. CASE PostMsg
  BY <1>5 DEF PostMsg
<1>6. CASE Register
  <2>1. PICK r \in HostRegs \ hostAsked :
          /\ hostAsked' = hostAsked \union {r}
          /\ hostWaiting' = IF hostPhase = "building" THEN hostWaiting \union {r}
                              ELSE hostWaiting
          /\ hostMade' = IF hostPhase = "live" THEN hostMade \union {r} ELSE hostMade
          /\ UNCHANGED <<hostUndone, hostPhase, hostAttached>>
    BY <1>6 DEF Register
  <2>2. r \notin hostUndone
    BY <2>1
  <2> QED
    BY <2>1, <2>2
<1>7. CASE UndoReg
  <2>1. PICK r \in hostAsked \ hostUndone :
          /\ hostUndone' = hostUndone \union {r}
          /\ hostMade' = hostMade \ {r}
          /\ UNCHANGED <<hostAsked, hostWaiting, hostPhase, hostAttached>>
    BY <1>7 DEF UndoReg
  <2> QED
    BY <2>1
<1>8. CASE StopHosted
  BY <1>8 DEF StopHosted, CloseHosted, Settles
<1>9. CASE HostedRunEnds
  BY <1>9 DEF HostedRunEnds
<1> QED
  BY <1>1, <1>2, <1>3, <1>4, <1>5, <1>6, <1>7, <1>8, <1>9 DEF HostedNext

\* A Msg posted now comes after every other.
LEMMA InOrderPost ==
  ASSUME NEW n \in Nat, NEW s \in Seq(1 .. n),
         \A i, j \in DOMAIN s : i < j => s[i] < s[j]
  PROVE  LET t == Append(s, n + 1)
         IN /\ t \in Seq(1 .. n + 1)
            /\ \A i, j \in DOMAIN t : i < j => t[i] < t[j]
            /\ \A m : Holds(t, m) <=> Holds(s, m) \/ m = n + 1
<1> DEFINE t == Append(s, n + 1)
<1>1. /\ t \in Seq(1 .. n + 1) /\ DOMAIN t = 1 .. Len(s) + 1
      /\ DOMAIN s = 1 .. Len(s) /\ Len(s) \in Nat
      /\ \A i \in 1 .. Len(s) : t[i] = s[i] /\ s[i] \in 1 .. n
      /\ t[Len(s) + 1] = n + 1
  <2>1. s \in Seq(1 .. n + 1)
    OBVIOUS
  <2> QED
    BY <2>1, AppendProperties
<1> HIDE DEF t
<1>2. ASSUME NEW i \in DOMAIN t, NEW j \in DOMAIN t, i < j PROVE t[i] < t[j]
  <2>1. i \in 1 .. Len(s)
    BY <1>1, <1>2
  <2>2. CASE j \in 1 .. Len(s)
    BY <1>1, <1>2, <2>1, <2>2
  <2>3. CASE j = Len(s) + 1
    BY <1>1, <2>1, <2>3
  <2> QED
    BY <1>1, <2>2, <2>3
<1>3. \A m : Holds(t, m) <=> Holds(s, m) \/ m = n + 1
  <2>1. PICK l \in Nat : l = Len(s)
    BY <1>1
  <2>2. /\ DOMAIN t = 1 .. l + 1 /\ DOMAIN s = 1 .. l /\ t[l + 1] = n + 1
        /\ \A i \in 1 .. l : t[i] = s[i]
    BY <1>1, <2>1
  <2>3. \A i : i \in 1 .. l + 1 <=> i \in 1 .. l \/ i = l + 1
    BY <2>1
  <2> QED
    BY <2>2, <2>3 DEF Holds
<1> QED
  BY <1>1, <1>2, <1>3 DEF t

\* Every step keeps every Msg in one place.
LEMMA MsgsStep ==
  ASSUME HostStates, MsgsHeldOnce, HostedNext
  PROVE  MsgsHeldOnce'
<1> USE DEF HostStates
<1>1. CASE CloseHosted /\ hostPhase = "building"
  <2>1. hostDiscards' = hostHeld
    BY <1>1, ConcatEmptySeq DEF CloseHosted, MsgsHeldOnce, InOrder
  <2> QED
    BY <1>1, <2>1 DEF CloseHosted, MsgsHeldOnce, InOrder, Holds, Left
<1>2. CASE UNCHANGED hostMsgVars /\ (hostPhase' = "building" <=> hostPhase = "building")
  BY <1>2 DEF MsgsHeldOnce, InOrder, hostMsgVars
<1>3. CASE Attach
  <2>1. /\ hostHeld' = <<>> /\ hostPhase' = "live"
        /\ UNCHANGED <<hostDiscards, hostMsgs>>
    BY <1>3 DEF Attach
  <2>2. CASE hostPhase = "building" /\ hostRun = "up"
    <3>1. hostTold' = hostHeld /\ UNCHANGED hostRefused
      BY <1>3, <2>2, ConcatEmptySeq DEF Attach, MsgsHeldOnce, InOrder
    <3> QED
      BY <2>1, <2>2, <3>1 DEF MsgsHeldOnce, InOrder, Holds
  <2>3. CASE hostPhase = "building" /\ hostRun # "up"
    <3>1. UNCHANGED hostTold
      BY <1>3, <2>3 DEF Attach
    <3>2. \A m : m \in hostRefused' <=> Holds(hostHeld, m)
      <4>1. hostRefused' = ToSet(hostHeld)
        BY <1>3, <2>3 DEF Attach, MsgsHeldOnce
      <4> QED
        BY <4>1 DEF ToSet, Holds
    <3>3. hostRefused' \subseteq 1 .. hostMsgs
      BY <3>2 DEF MsgsHeldOnce, InOrder, Holds
    <3> QED
      BY <2>1, <2>3, <3>1, <3>2, <3>3 DEF MsgsHeldOnce, InOrder, Holds
  <2>4. CASE hostPhase # "building"
    <3>1. hostTold' = hostTold /\ hostRefused' = hostRefused
      <4>1. hostHeld = <<>> /\ hostTold \in Seq(1 .. hostMsgs)
        BY <2>4 DEF MsgsHeldOnce, InOrder
      <4>2. hostTold \o <<>> = hostTold /\ ToSet(<<>>) = {}
        BY <4>1, ConcatEmptySeq DEF ToSet
      <4> QED
        BY <1>3, <4>1, <4>2 DEF Attach
    <3> QED
      BY <2>1, <2>4, <3>1 DEF MsgsHeldOnce, InOrder, Holds
  <2> QED
    BY <2>2, <2>3, <2>4
<1>4. CASE PostMsg
  <2>1. /\ hostMsgs' = hostMsgs + 1 /\ hostMsgs \in Nat
        /\ UNCHANGED <<hostPhase, hostDiscards>>
    BY <1>4 DEF PostMsg, MsgsHeldOnce
  <2>2. \A s : InOrder(s) => /\ s \in Seq(1 .. hostMsgs + 1)
                             /\ ~Holds(s, hostMsgs + 1)
    BY <2>1 DEF InOrder, Holds
  <2>3. CASE hostPhase = "building" /\ hostHeld' = Append(hostHeld, hostMsgs + 1)
             /\ UNCHANGED <<hostTold, hostRefused>>
    <3>1. InOrder(hostHeld)' /\ \A m : Holds(hostHeld', m) <=> Holds(hostHeld, m) \/ m = hostMsgs'
      BY <2>1, <2>3, InOrderPost DEF MsgsHeldOnce, InOrder
    <3>2. hostTold = <<>> /\ hostDiscards = <<>> /\ hostRefused = {}
      BY <2>3 DEF MsgsHeldOnce
    <3>3. InOrder(hostTold)' /\ InOrder(hostDiscards)'
      BY <2>1, <2>3, <3>2 DEF InOrder
    <3>4. \A m \in 1 .. hostMsgs' : Holds(hostHeld', m)
      <4>1. \A m : ~Holds(hostTold, m) /\ ~Holds(hostDiscards, m)
        BY <3>2 DEF Holds
      <4>2. \A m \in 1 .. hostMsgs : Holds(hostHeld, m)
        BY <3>2, <4>1 DEF MsgsHeldOnce
      <4>3. \A m \in 1 .. hostMsgs' : m \in 1 .. hostMsgs \/ m = hostMsgs'
        BY <2>1
      <4> QED
        BY <3>1, <4>2, <4>3
    <3> QED
      BY <2>1, <2>3, <3>1, <3>2, <3>3, <3>4 DEF MsgsHeldOnce, Holds
  <2>4. CASE hostPhase = "live" /\ hostTold' = Append(hostTold, hostMsgs + 1)
             /\ UNCHANGED <<hostHeld, hostRefused>>
    <3>1. InOrder(hostTold)' /\ \A m : Holds(hostTold', m) <=> Holds(hostTold, m) \/ m = hostMsgs'
      BY <2>1, <2>4, InOrderPost DEF MsgsHeldOnce, InOrder
    <3> QED
      BY <2>1, <2>2, <2>4, <3>1 DEF MsgsHeldOnce, InOrder
  <2>5. CASE hostPhase # "building" /\ hostRefused' = hostRefused \union {hostMsgs + 1}
             /\ UNCHANGED <<hostHeld, hostTold>>
    BY <2>1, <2>2, <2>5 DEF MsgsHeldOnce, InOrder
  <2> QED
    BY <1>4, <2>1, <2>3, <2>4, <2>5 DEF PostMsg
<1> QED
  BY <1>1, <1>2, <1>3, <1>4 DEF HostedNext, LayerBuilt, HostedFails, RunStarts,
     Register, UndoReg, StopHosted, HostedRunEnds, hostMsgVars

\* The invariant holds throughout.
THEOREM HostedInvariant == HostedSpec => []HostedInv
<1>1. HostedInit => HostedInv
  <2>1. HostedInit => MsgsHeldOnce
    BY DEF HostedInit, MsgsHeldOnce, InOrder, Holds
  <2>2. HostedInit => HostStates /\ RegsFit
    BY DEF HostedInit, HostStates, RegsFit
  <2> QED
    BY <2>1, <2>2 DEF HostedInv
<1>2. HostedInv /\ [HostedNext]_hostedVars => HostedInv'
  <2>1. HostedInv /\ HostedNext => HostedInv'
    BY StatesStep, RegsStep, MsgsStep DEF HostedInv
  <2>2. ASSUME HostedInv, UNCHANGED hostedVars PROVE HostedInv'
    <3> USE <2>2 DEF HostedInv, hostedVars, hostMsgVars, hostRegVars
    <3>1. MsgsHeldOnce'
      BY DEF MsgsHeldOnce, InOrder, Holds
    <3>2. HostStates'
      BY DEF HostStates
    <3>3. RegsFit'
      BY DEF RegsFit
    <3> QED
      BY <3>1, <3>2, <3>3
  <2> QED
    BY <2>1, <2>2
<1> QED
  BY <1>1, <1>2, PTL DEF HostedSpec

-----------------------------------------------------------------------------

\* How often a Msg is in a sequence that holds none twice.
LEMMA TimesHeld ==
  ASSUME NEW s \in Seq(Nat), \A i, j \in DOMAIN s : i < j => s[i] < s[j], NEW m
  PROVE  Cardinality({i \in DOMAIN s : s[i] = m}) = IF Holds(s, m) THEN 1 ELSE 0
<1> DEFINE at == {i \in DOMAIN s : s[i] = m}
<1>1. CASE ~Holds(s, m)
  <2>1. at = {}
    BY <1>1 DEF Holds
  <2> QED
    BY <1>1, <2>1, FS_EmptySet
<1>2. CASE Holds(s, m)
  <2>1. PICK i \in DOMAIN s : s[i] = m
    BY <1>2 DEF Holds
  <2>2. \A j \in DOMAIN s : s[j] = m => j = i
    BY <2>1
  <2>3. at = {i}
    BY <2>1, <2>2
  <2> QED
    BY <1>2, <2>3, FS_Singleton
<1> QED
  BY <1>1, <1>2

\* A run in a ManagedRuntime gets what was posted to its handle, each Msg once
\* and in order, or it is reported, whenever its runtime is disposed: for any
\* number of Msgs and registrations.
THEOREM HostedStaysExact == HostedSpec => []HostedIsExact
<1>1. HostedInv => HostedIsExact
  <2> SUFFICES ASSUME HostedInv PROVE HostedIsExact
    OBVIOUS
  <2>1. ASSUME NEW m \in 1 .. hostMsgs
        PROVE  Cardinality({i \in DOMAIN hostTold : hostTold[i] = m})
                 + Cardinality({i \in DOMAIN hostHeld : hostHeld[i] = m})
                 + Cardinality({i \in DOMAIN hostDiscards : hostDiscards[i] = m})
                 + Cardinality({m} \intersect hostRefused) = 1
    <3>1. /\ hostTold \in Seq(Nat) /\ hostHeld \in Seq(Nat) /\ hostDiscards \in Seq(Nat)
          /\ \A i, j \in DOMAIN hostTold : i < j => hostTold[i] < hostTold[j]
          /\ \A i, j \in DOMAIN hostHeld : i < j => hostHeld[i] < hostHeld[j]
          /\ \A i, j \in DOMAIN hostDiscards : i < j => hostDiscards[i] < hostDiscards[j]
      BY DEF HostedInv, MsgsHeldOnce, InOrder
    <3>2. Cardinality({m} \intersect hostRefused) = IF m \in hostRefused THEN 1 ELSE 0
      <4>1. {m} \intersect hostRefused = IF m \in hostRefused THEN {m} ELSE {}
        OBVIOUS
      <4> QED
        BY <4>1, FS_Singleton, FS_EmptySet
    <3>3. ~ \E i \in DOMAIN <<>> : TRUE
      OBVIOUS
    <3>4. /\ Holds(hostHeld, m) => ~Holds(hostTold, m) /\ ~Holds(hostDiscards, m)
                                     /\ m \notin hostRefused
      <4>1. CASE hostPhase = "building"
        BY <4>1 DEF HostedInv, MsgsHeldOnce, Holds
      <4>2. CASE hostPhase # "building"
        BY <4>2 DEF HostedInv, MsgsHeldOnce, Holds
      <4> QED
        BY <4>1, <4>2
    <3>5. /\ Cardinality({i \in DOMAIN hostTold : hostTold[i] = m})
               = IF Holds(hostTold, m) THEN 1 ELSE 0
          /\ Cardinality({i \in DOMAIN hostHeld : hostHeld[i] = m})
               = IF Holds(hostHeld, m) THEN 1 ELSE 0
          /\ Cardinality({i \in DOMAIN hostDiscards : hostDiscards[i] = m})
               = IF Holds(hostDiscards, m) THEN 1 ELSE 0
      BY <3>1, TimesHeld
    <3> QED
      BY <3>2, <3>4, <3>5 DEF HostedInv, MsgsHeldOnce
  <2>2. \A j \in DOMAIN hostTold : \A i \in 1 .. j - 1 : hostTold[i] < hostTold[j]
    <3>1. /\ hostTold \in Seq(Nat)
          /\ \A i, j \in DOMAIN hostTold : i < j => hostTold[i] < hostTold[j]
      BY DEF HostedInv, MsgsHeldOnce, InOrder
    <3>2. \A j \in DOMAIN hostTold : \A i \in 1 .. j - 1 : i \in DOMAIN hostTold /\ i < j
      BY <3>1
    <3> QED
      BY <3>1, <3>2
  <2> QED
    BY <2>1, <2>2 DEF HostedInv, MsgsHeldOnce, HostStates, RegsFit, HostedIsExact
<1> QED
  BY <1>1, HostedInvariant, PTL

-----------------------------------------------------------------------------
(* The handles held by Subs.  HandlesFit is of any number of runs; that    *)
(* the table finds the handle takes that no two runs share the battery.    *)

\* What a handle goes through.
Statuses == {"open", "closing", "closed"}
\* A handle, of one run, under one key.
Handles == [run : HandleRuns, key : HandleKeys, status : Statuses]

\* What is open is what the Subs hold, and what closes is waited for.
HandlesFit ==
  /\ handles \in Seq(Handles)
  /\ handleSub \in [HandleRuns -> Nat]
  /\ handlePhase \in [HandleRuns -> {"up", "stopping", "stopped"}]
  /\ handleWaits \subseteq DOMAIN handles
  /\ \A r \in HandleRuns : handleSub[r] # 0 =>
       /\ handleSub[r] \in DOMAIN handles
       /\ handles[handleSub[r]].run = r
       /\ handlePhase[r] = "up"
  /\ \A h \in DOMAIN handles :
       /\ handles[h].status = "open" <=> handleSub[handles[h].run] = h
       /\ handles[h].status = "closing" => h \in handleWaits
       /\ handlePhase[handles[h].run] = "stopped" => handles[h].status = "closed"

\* What the table knows, if no two runs share the battery.
TableFits ==
  /\ handleTable \in [HandleKeys -> Nat]
  /\ \A r \in HandleRuns :
       handleSub[r] # 0 => handleTable[handles[handleSub[r]].key] = handleSub[r]
  /\ \A key \in HandleKeys : handleTable[key] # 0 =>
       /\ handleTable[key] \in DOMAIN handles
       /\ handles[handleTable[key]].key = key
       /\ handles[handleTable[key]].status = "open"

\* The status of one handle is set; the rest of the handles stay.
LEMMA StatusSet ==
  ASSUME NEW all \in Seq(Handles), NEW h \in DOMAIN all,
         NEW status \in Statuses,
         NEW new, new = [all EXCEPT ![h].status = status]
  PROVE  /\ new \in Seq(Handles) /\ DOMAIN new = DOMAIN all
         /\ Len(new) = Len(all)
         /\ \A g \in DOMAIN all :
              /\ new[g].run = all[g].run /\ new[g].key = all[g].key
              /\ new[g].status = IF g = h THEN status ELSE all[g].status
<1> DEFINE e == [all[h] EXCEPT !.status = status]
<1>0. new = [all EXCEPT ![h] = e]
  OBVIOUS
<1>1. DOMAIN all = 1 .. Len(all) /\ Len(all) \in Nat
  OBVIOUS
<1>2. all[h] \in Handles
  BY <1>1
<1>3. e \in Handles /\ e.run = all[h].run /\ e.key = all[h].key /\ e.status = status
  BY <1>2 DEF Handles, Statuses
<1> HIDE DEF e
<1>4. /\ new \in Seq(Handles) /\ Len(new) = Len(all)
      /\ \A g \in 1 .. Len(all) : new[g] = IF g = h THEN e ELSE all[g]
  BY <1>0, <1>1, <1>3, ExceptSeq
<1>5. DOMAIN new = DOMAIN all
  BY <1>1, <1>4
<1>6. \A g \in DOMAIN all :
        /\ new[g].run = all[g].run /\ new[g].key = all[g].key
        /\ new[g].status = IF g = h THEN status ELSE all[g].status
  BY <1>1, <1>3, <1>4
<1> QED
  BY <1>4, <1>5, <1>6

\* A cleanup closes its handle and no other.
LEMMA CleanedHandles ==
  ASSUME HandlesFit, NEW r \in HandleRuns
  PROVE  LET all == Cleaned(handles, handleSub[r])
         IN /\ all \in Seq(Handles) /\ Len(all) = Len(handles)
            /\ DOMAIN all = DOMAIN handles
            /\ \A h \in DOMAIN handles :
                 /\ all[h].run = handles[h].run /\ all[h].key = handles[h].key
                 /\ all[h].status = IF h = handleSub[r] THEN "closing"
                                      ELSE handles[h].status
<1>1. DOMAIN handles = 1 .. Len(handles) /\ Len(handles) \in Nat
  BY DEF HandlesFit
<1>2. CASE handleSub[r] = 0
  BY <1>1, <1>2 DEF Cleaned, HandlesFit
<1>3. CASE handleSub[r] # 0
  <2>1. handles \in Seq(Handles) /\ handleSub[r] \in DOMAIN handles
    BY <1>3 DEF HandlesFit
  <2>2. Cleaned(handles, handleSub[r])
          = [handles EXCEPT ![handleSub[r]].status = "closing"]
    BY <1>3 DEF Cleaned
  <2>3. "closing" \in Statuses
    BY DEF Statuses
  <2> QED
    BY <2>1, <2>2, <2>3, StatusSet
<1> QED
  BY <1>2, <1>3

\* The types, in the form the steps below use.
LEMMA HandleTypes ==
  ASSUME HandlesFit
  PROVE  \A h \in DOMAIN handles :
           /\ handles[h].run \in HandleRuns /\ handles[h].key \in HandleKeys
           /\ handles[h].status \in Statuses
<1>1. \A h \in DOMAIN handles : handles[h] \in Handles
  BY DEF HandlesFit
<1> QED
  BY <1>1 DEF Handles, Statuses

\* What a handle that is tracked has become.
LEMMA TrackedHandles ==
  ASSUME HandlesFit, NEW r \in HandleRuns
  PROVE  /\ TracksAlso(handleSub[r]) \subseteq DOMAIN handles
         /\ handleWaits \subseteq TracksAlso(handleSub[r])
         /\ handleSub[r] # 0 => handleSub[r] \in TracksAlso(handleSub[r])
BY DEF HandlesFit, TracksAlso, Tracks

\* A Sub that starts adds one open handle.
LEMMA NewHandles ==
  ASSUME NEW all \in Seq(Handles), NEW r \in HandleRuns, NEW key \in HandleKeys,
         NEW status \in Statuses
  PROVE  LET new == Append(all, NewHandle(r, key, status))
             n == Len(all) + 1
         IN /\ new \in Seq(Handles)
            /\ new[n].run = r /\ new[n].key = key /\ new[n].status = status
            /\ \A h \in DOMAIN all : new[h] = all[h] /\ h # n
            /\ DOMAIN new = DOMAIN all \union {n}
            /\ n \in Nat \ {0}
<1>1. NewHandle(r, key, status) \in Handles
  BY DEF NewHandle, Handles
<1> QED
  BY <1>1, AppendProperties DEF NewHandle

\* The cleanup of a run's Sub, and the handle that takes its place, if one does.
LEMMA OneRunMoves ==
  ASSUME HandlesFit, NEW r \in HandleRuns, handlePhase[r] = "up",
         NEW s, NEW p \in {"up", "stopping"}, s # 0 => p = "up",
         handles' \in Seq(Handles), DOMAIN handles \subseteq DOMAIN handles',
         \A h \in DOMAIN handles :
           /\ handles'[h].run = handles[h].run
           /\ handles'[h].status = IF h = handleSub[r] THEN "closing"
                                     ELSE handles[h].status,
         \A h \in DOMAIN handles' \ DOMAIN handles :
           /\ handles'[h].run = r
           /\ handles'[h].status = IF h = s THEN "open" ELSE "closed",
         s = 0 \/ s \in DOMAIN handles' \ DOMAIN handles,
         handleSub' = [handleSub EXCEPT ![r] = s],
         handlePhase' = [handlePhase EXCEPT ![r] = p],
         handleWaits' = TracksAlso(handleSub[r])
  PROVE  HandlesFit'
<1>1. /\ handles \in Seq(Handles) /\ handleSub \in [HandleRuns -> Nat]
      /\ handlePhase \in [HandleRuns -> {"up", "stopping", "stopped"}]
  BY DEF HandlesFit
<1>2. \A h \in DOMAIN handles' : h \in Nat \ {0}
  OBVIOUS
<1>3. /\ handleSub' \in [HandleRuns -> Nat]
      /\ handlePhase' \in [HandleRuns -> {"up", "stopping", "stopped"}]
  BY <1>1, <1>2
<1>4. /\ handleWaits' \subseteq DOMAIN handles
      /\ handleWaits \subseteq handleWaits'
      /\ handleSub[r] # 0 => handleSub[r] \in handleWaits'
  BY TrackedHandles
<1>5. ASSUME NEW q \in HandleRuns, handleSub'[q] # 0
      PROVE  /\ handleSub'[q] \in DOMAIN handles'
             /\ handles'[handleSub'[q]].run = q
             /\ handlePhase'[q] = "up"
  <2>1. CASE q = r
    BY <1>1, <1>5, <2>1
  <2>2. CASE q # r
    BY <1>1, <1>5, <2>2 DEF HandlesFit
  <2> QED
    BY <2>1, <2>2
<1>6. ASSUME NEW h \in DOMAIN handles'
      PROVE  /\ handles'[h].status = "open" <=> handleSub'[handles'[h].run] = h
             /\ handles'[h].status = "closing" => h \in handleWaits'
             /\ handlePhase'[handles'[h].run] = "stopped"
                  => handles'[h].status = "closed"
  <2>1. CASE h \in DOMAIN handles
    <3>1. /\ handles[h].run \in HandleRuns /\ h \in Nat \ {0}
          /\ handles'[h].run = handles[h].run
          /\ handles'[h].status = IF h = handleSub[r] THEN "closing"
                                    ELSE handles[h].status
      BY <2>1, <1>2, HandleTypes
    <3>2. /\ handles[h].status = "open" <=> handleSub[handles[h].run] = h
          /\ handles[h].status = "closing" => h \in handleWaits
          /\ handlePhase[handles[h].run] = "stopped" => handles[h].status = "closed"
      BY <2>1 DEF HandlesFit
    <3>3. CASE handles[h].run = r
      <4>1. handleSub'[handles'[h].run] # h
        BY <1>1, <2>1, <3>1, <3>3
      <4>2. handles'[h].status # "open"
        BY <3>1, <3>2, <3>3
      <4>3. handlePhase'[handles'[h].run] # "stopped"
        BY <1>1, <3>1, <3>3
      <4>4. handles'[h].status = "closing" => h \in handleWaits'
        BY <1>4, <3>1, <3>2
      <4> QED
        BY <4>1, <4>2, <4>3, <4>4
    <3>4. CASE handles[h].run # r
      <4>1. h # handleSub[r]
        BY <3>1, <3>4 DEF HandlesFit
      <4> QED
        BY <1>1, <1>4, <3>1, <3>2, <3>4, <4>1
    <3> QED
      BY <3>3, <3>4
  <2>2. CASE h \notin DOMAIN handles
    BY <1>1, <2>2
  <2> QED
    BY <2>1, <2>2
<1> QED
  BY <1>3, <1>4, <1>5, <1>6 DEF HandlesFit

\* Every step keeps the handles those of the Subs.
LEMMA HandlesStep ==
  ASSUME HandlesFit, HandlesNext
  PROVE  HandlesFit'
<1>s. "open" \in Statuses /\ "closed" \in Statuses
  BY DEF Statuses
<1>h. handles \in Seq(Handles)
  BY DEF HandlesFit
<1>e. \A r \in HandleRuns : handlePhase[r] = "up"
        => handlePhase = [handlePhase EXCEPT ![r] = "up"]
  BY DEF HandlesFit
<1>d. \A h \in DOMAIN handles : h # 0
  BY <1>h
<1>r. \A h \in DOMAIN handles : handles[h].run \in HandleRuns
  BY HandleTypes
<1>1. CASE ReleaseEnds
  <2> DEFINE closed == "closed"
  <2>0. closed \in Statuses
    BY <1>s
  <2>1. PICK h \in DOMAIN handles :
          /\ handles[h].status = "closing"
          /\ handles' = [handles EXCEPT ![h].status = closed]
    BY <1>1 DEF ReleaseEnds
  <2>2. /\ handles' \in Seq(Handles) /\ DOMAIN handles' = DOMAIN handles
        /\ \A g \in DOMAIN handles :
             /\ handles'[g].run = handles[g].run
             /\ handles'[g].status = IF g = h THEN closed ELSE handles[g].status
    <3> HIDE DEF closed
    <3> QED
      BY <1>h, <2>0, <2>1, StatusSet
  <2>3. UNCHANGED <<handleSub, handlePhase, handleWaits>>
    BY <1>1 DEF ReleaseEnds
  <2>4. handleSub[handles[h].run] # h
    BY <2>1 DEF HandlesFit
  <2>5. \A r \in HandleRuns : handleSub[r] # 0 =>
          /\ handleSub[r] \in DOMAIN handles'
          /\ handles'[handleSub[r]].run = r
          /\ handlePhase[r] = "up"
    BY <2>2 DEF HandlesFit
  <2>6. \A g \in DOMAIN handles' :
       /\ handles'[g].status = "open" <=> handleSub[handles'[g].run] = g
       /\ handles'[g].status = "closing" => g \in handleWaits
       /\ handlePhase[handles'[g].run] = "stopped" => handles'[g].status = "closed"
    BY <2>2, <2>4 DEF HandlesFit
  <2> QED
    BY <2>2, <2>3, <2>5, <2>6 DEF HandlesFit
<1>2. ASSUME NEW r \in HandleRuns, AsksFor(r) PROVE HandlesFit'
  <2> DEFINE old == handleSub[r]
             cleaned == Cleaned(handles, old)
             new == Len(handles) + 1
  <2>c. /\ cleaned \in Seq(Handles) /\ Len(cleaned) = Len(handles)
        /\ DOMAIN cleaned = DOMAIN handles
        /\ \A h \in DOMAIN handles :
             /\ cleaned[h].run = handles[h].run
             /\ cleaned[h].status = IF h = old THEN "closing" ELSE handles[h].status
    BY CleanedHandles
  <2>t. handleWaits' = TracksAlso(old)
    BY <1>2 DEF AsksFor
  <2>p. handlePhase[r] = "up"
    BY <1>2 DEF AsksFor
  <2>1. CASE /\ old # 0 /\ handles' = cleaned
             /\ handleSub' = [handleSub EXCEPT ![r] = 0]
             /\ UNCHANGED handlePhase
    <3> HIDE DEF cleaned
    <3> QED
      BY <2>1, <2>c, <2>t, <2>p, <1>e, OneRunMoves
  <2>2. ASSUME NEW key \in HandleKeys,
               handles' = Append(cleaned, NewHandle(r, key, "open")),
               handleSub' = [handleSub EXCEPT ![r] = new],
               UNCHANGED handlePhase
        PROVE  HandlesFit'
    <3>1. /\ handles' \in Seq(Handles)
          /\ new \notin DOMAIN handles /\ DOMAIN handles' = DOMAIN handles \union {new}
          /\ handles'[new].run = r /\ handles'[new].status = "open"
          /\ \A h \in DOMAIN handles : handles'[h] = cleaned[h]
          /\ new # 0
      BY <1>s, <2>2, <2>c, NewHandles
    <3> HIDE DEF cleaned, new
    <3> QED
      <4>1. /\ DOMAIN handles \subseteq DOMAIN handles'
            /\ \A h \in DOMAIN handles :
                 /\ handles'[h].run = handles[h].run
                 /\ handles'[h].status = IF h = old THEN "closing" ELSE handles[h].status
        BY <2>c, <3>1
      <4>2. /\ \A h \in DOMAIN handles' \ DOMAIN handles :
                 /\ handles'[h].run = r
                 /\ handles'[h].status = IF h = new THEN "open" ELSE "closed"
            /\ new \in DOMAIN handles' \ DOMAIN handles
        BY <3>1
      <4> QED
        BY <2>2, <2>t, <2>p, <1>e, <3>1, <4>1, <4>2, OneRunMoves
  <2>3. ASSUME NEW key \in HandleKeys,
               handles' = Append(cleaned, NewHandle(r, key, "closed")),
               handleSub' = [handleSub EXCEPT ![r] = 0],
               handlePhase' = [handlePhase EXCEPT ![r] = "stopping"]
        PROVE  HandlesFit'
    <3>1. /\ handles' \in Seq(Handles)
          /\ new \notin DOMAIN handles /\ DOMAIN handles' = DOMAIN handles \union {new}
          /\ handles'[new].run = r /\ handles'[new].status = "closed"
          /\ \A h \in DOMAIN handles : handles'[h] = cleaned[h]
          /\ new # 0
      BY <1>s, <2>3, <2>c, NewHandles
    <3> HIDE DEF cleaned, new
    <3> QED
      <4>1. /\ DOMAIN handles \subseteq DOMAIN handles'
            /\ \A h \in DOMAIN handles :
                 /\ handles'[h].run = handles[h].run
                 /\ handles'[h].status = IF h = old THEN "closing" ELSE handles[h].status
        BY <2>c, <3>1
      <4>2. /\ \A h \in DOMAIN handles' \ DOMAIN handles :
                 /\ handles'[h].run = r
                 /\ handles'[h].status = IF h = 0 THEN "open" ELSE "closed"
            /\ new \in DOMAIN handles' \ DOMAIN handles
        BY <3>1
      <4> QED
        BY <2>3, <2>t, <2>p, <1>e, <3>1, <4>1, <4>2, OneRunMoves
  <2> QED
    BY <1>2, <2>1, <2>2, <2>3 DEF AsksFor, OnThrow
<1>3. ASSUME NEW r \in HandleRuns, StopsHandles(r) PROVE HandlesFit'
  <2>1. /\ handles' \in Seq(Handles) /\ DOMAIN handles' = DOMAIN handles
        /\ \A h \in DOMAIN handles :
             /\ handles'[h].run = handles[h].run
             /\ handles'[h].status = IF h = handleSub[r] THEN "closing"
                                       ELSE handles[h].status
    BY <1>3, CleanedHandles DEF StopsHandles
  <2> QED
    BY <1>3, <2>1, OneRunMoves DEF StopsHandles
<1>4. ASSUME NEW r \in HandleRuns, HandlesStopped(r) PROVE HandlesFit'
  <2>1. \A h \in DOMAIN handles : handles[h].run = r => handles[h].status = "closed"
    <3>1. \A h \in DOMAIN handles :
            handles[h].status \in Statuses
      BY HandleTypes
    <3> QED
      BY <1>4, <3>1 DEF HandlesStopped, HandlesFit, Statuses
  <2> QED
    BY <1>4, <1>r, <2>1 DEF HandlesStopped, HandlesFit
<1> QED
  BY <1>1, <1>2, <1>3, <1>4 DEF HandlesNext

\* What is open is what a Sub holds, for any number of runs that share the
\* battery.
THEOREM HandlesInvariant == HandlesSpec => []HandlesFit
<1>1. HandlesInit => HandlesFit
  BY DEF HandlesInit, HandlesFit
<1>2. HandlesFit /\ [HandlesNext]_handleVars => HandlesFit'
  BY HandlesStep DEF HandlesFit, handleVars
<1> QED
  BY <1>1, <1>2, PTL DEF HandlesSpec
\* A battery that no two runs share.
OneRunHolds == \A r, q \in HandleRuns : r = q

\* The table then knows the handle of the one Sub there is, and no other.
LEMMA ForgottenIsEmpty ==
  ASSUME HandlesFit, TableFits, OneRunHolds, NEW r \in HandleRuns
  PROVE  Unlisted(handleTable, handleSub[r]) = [key \in HandleKeys |-> 0]
<1> DEFINE old == handleSub[r]
<1>1. ASSUME NEW key \in HandleKeys, handleTable[key] # 0
      PROVE  old = handleTable[key] /\ handles[old].key = key
  BY <1>1, HandleTypes DEF HandlesFit, TableFits, OneRunHolds
<1>2. handleTable \in [HandleKeys -> Nat]
  BY DEF TableFits
<1>3. CASE old = 0
  BY <1>1, <1>2, <1>3 DEF Unlisted
<1>4. CASE old # 0
  <2>1. \A key \in HandleKeys : key # handles[old].key => handleTable[key] = 0
    BY <1>1
  <2> QED
    BY <1>2, <1>4, <2>1 DEF Unlisted
<1> QED
  BY <1>3, <1>4

\* Where one run holds handles, every step keeps the table true.
LEMMA TableStep ==
  ASSUME HandlesFit, TableFits, OneRunHolds, HandlesNext
  PROVE  TableFits'
<1>0. HandlesFit'
  BY HandlesStep
<1>1. CASE ReleaseEnds
  <2>1. PICK h \in DOMAIN handles :
          /\ handles[h].status = "closing"
          /\ handles' = [handles EXCEPT ![h].status = "closed"]
    BY <1>1 DEF ReleaseEnds
  <2>2. DOMAIN handles' = DOMAIN handles
    BY <2>1
  <2>3. \A g \in DOMAIN handles : handles'[g].key = handles[g].key
    BY <2>1
  <2>4. \A g \in DOMAIN handles : g # h => handles'[g].status = handles[g].status
    BY <2>1
  <2>5. UNCHANGED <<handleSub, handleTable>>
    BY <1>1 DEF ReleaseEnds
  <2>6. \A r \in HandleRuns : handleSub[r] # 0 =>
          handleTable[handles'[handleSub[r]].key] = handleSub[r]
    BY <2>3 DEF HandlesFit, TableFits
  <2>7. \A key \in HandleKeys : handleTable[key] # 0 =>
          /\ handleTable[key] \in DOMAIN handles
          /\ handles'[handleTable[key]].key = key
          /\ handles'[handleTable[key]].status = "open"
    BY <2>1, <2>3, <2>4 DEF TableFits
  <2> QED
    BY <2>2, <2>5, <2>6, <2>7 DEF TableFits
<1>2. ASSUME NEW r \in HandleRuns, NEW h \in Nat,
             handleSub' = [handleSub EXCEPT ![r] = h],
             \/ h = 0 /\ handleTable' = [key \in HandleKeys |-> 0]
             \/ /\ h # 0 /\ handles'[h].key \in HandleKeys
                /\ handleTable' = [[key \in HandleKeys |-> 0]
                                     EXCEPT ![handles'[h].key] = h]
      PROVE  TableFits'
  <2>1. \A q \in HandleRuns : q = r
    BY DEF OneRunHolds
  <2>2. handleSub'[r] = h /\ handleTable' \in [HandleKeys -> Nat]
    BY <1>2 DEF HandlesFit
  <2>3. h # 0 => handles'[h].status = "open" /\ h \in DOMAIN handles'
    BY <1>0, <2>2 DEF HandlesFit
  <2> QED
    BY <1>2, <2>1, <2>2, <2>3 DEF TableFits
<1>3. ASSUME NEW r \in HandleRuns, AsksFor(r) PROVE TableFits'
  <2> DEFINE cleaned == Cleaned(handles, handleSub[r])
             new == Len(handles) + 1
             none == [key \in HandleKeys |-> 0]
  <2>1. Unlisted(handleTable, handleSub[r]) = none
    BY ForgottenIsEmpty
  <2>2. ASSUME NEW key \in HandleKeys,
               handles' = Append(cleaned, NewHandle(r, key, "open")),
               handleTable' = [none EXCEPT ![key] = new],
               handleSub' = [handleSub EXCEPT ![r] = new]
        PROVE  TableFits'
    <3>1. handles'[new].key = key /\ new \in Nat /\ new # 0
      <4>1. cleaned \in Seq(Handles) /\ Len(cleaned) = Len(handles)
        BY CleanedHandles
      <4>2. "open" \in Statuses
        BY DEF Statuses
      <4> QED
        BY <2>2, <4>1, <4>2, NewHandles
    <3> HIDE DEF new, cleaned
    <3> QED
      BY <1>2, <2>2, <3>1
  <2>3. CASE /\ handleTable' = none
             /\ handleSub' = [handleSub EXCEPT ![r] = 0]
    BY <1>2, <2>3
  <2> QED
    BY <1>3, <2>1, <2>2, <2>3 DEF AsksFor, OnThrow
<1>4. ASSUME NEW r \in HandleRuns, StopsHandles(r) PROVE TableFits'
  BY <1>2, <1>4, ForgottenIsEmpty DEF StopsHandles
<1>5. ASSUME NEW r \in HandleRuns, HandlesStopped(r) PROVE TableFits'
  BY <1>5 DEF HandlesStopped, TableFits
<1> QED
  BY <1>1, <1>3, <1>4, <1>5 DEF HandlesNext

\* A handle is open just while its Sub runs, a stopped run left none open, and
\* the table finds it: for any keys, where no two runs share a battery.
THEOREM SubHandlesAreHeld ==
  ASSUME OneRunHolds
  PROVE  HandlesSpec => []HandlesAreHeld
<1>1. HandlesInit => TableFits
  BY DEF HandlesInit, TableFits
<1>2. HandlesFit /\ TableFits /\ [HandlesNext]_handleVars => TableFits'
  BY TableStep DEF TableFits, handleVars
<1>3. HandlesFit /\ TableFits => HandlesAreHeld
  <2>1. HandlesFit => \A h \in DOMAIN handles :
          /\ handles[h].run \in HandleRuns
          /\ h # 0
    BY HandleTypes DEF HandlesFit
  <2> QED
    BY <2>1 DEF HandlesFit, TableFits, HandlesAreHeld
<1> QED
  BY <1>1, <1>2, <1>3, HandlesInvariant, PTL DEF HandlesSpec

-----------------------------------------------------------------------------
(* The spawned children.  What a child's spawn has come to bounds what its *)
(* scope, its run and its notice may be (ChildFits).                       *)

\* What every child's spawn, scope, run and notice say of one another.
ChildFits(c) ==
  /\ spawning[c] = "no" =>
       scope[c] = "none" /\ childRun[c] = "none" /\ notice[c] = "none"
  /\ spawning[c] # "no" => scope[c] # "none"
  /\ spawning[c] \in {"no", "start", "enrol", "failed"} => c \notin table
  /\ spawning[c] \in {"start", "failed"} => childRun[c] = "none"
  /\ spawning[c] = "failed" => scope[c] # "open"
  /\ spawning[c] \in {"recheck", "done"} /\ scope[c] = "open" => c \in table
  /\ spawning[c] = "done" /\ c \in table => scope[c] \in {"open", "closing"}
  /\ scope[c] = "closed" <=> notice[c] # "none"
  /\ scope[c] = "closed" => childRun[c] # "up"

\* The invariant of the children.
ChildrenInv ==
  /\ spawning \in [Child -> {"no", "start", "enrol", "recheck", "done", "failed"}]
  /\ scope \in [Child -> {"none", "open", "closing", "closed"}]
  /\ childRun \in [Child -> {"none", "up", "down"}]
  /\ notice \in [Child -> {"none", "owed", "told"}]
  /\ table \subseteq Child
  /\ parentStops = Nobody \/ parentStops \in Child
  /\ \A c \in Child : ChildFits(c)

\* A step of one child keeps what is said of it, and leaves the others alone.
LEMMA ChildSteps ==
  ASSUME ChildrenInv, ChildrenNext
  PROVE  ChildrenInv'
<1> USE DEF ChildrenInv, ChildFits, At
<1>1. ASSUME NEW c \in Child, Spawn(c) PROVE ChildrenInv'
  BY <1>1 DEF Spawn
<1>2. ASSUME NEW c \in Child, StartSucceeds(c) PROVE ChildrenInv'
  BY <1>2 DEF StartSucceeds
<1>3. ASSUME NEW c \in Child, StartFails(c) PROVE ChildrenInv'
  BY <1>3 DEF StartFails
<1>4. ASSUME NEW c \in Child, Enrol(c) PROVE ChildrenInv'
  BY <1>4 DEF Enrol
<1>5. ASSUME NEW c \in Child, Recheck(c) PROVE ChildrenInv'
  BY <1>5 DEF Recheck, Rechecked
<1>6. ASSUME NEW c \in Child, Interrupt(c) PROVE ChildrenInv'
  BY <1>6 DEF Interrupt, InterruptedAt
<1>7. ASSUME NEW c \in Child, CloseChild(c) PROVE ChildrenInv'
  BY <1>7 DEF CloseChild
<1>8. ASSUME NEW c \in Child, StopRun(c) PROVE ChildrenInv'
  BY <1>8 DEF StopRun
<1>9. ASSUME NEW c \in Child, RemoveAndNotify(c) PROVE ChildrenInv'
  BY <1>9 DEF RemoveAndNotify, ClosesAs
<1>10. ASSUME NEW c \in Child, Notify(c) PROVE ChildrenInv'
  BY <1>10 DEF Notify
<1>11. ASSUME NEW c \in Child, ParentStops(c) PROVE ChildrenInv'
  BY <1>11 DEF ParentStops
<1>12. CASE CloseParent
  BY <1>12 DEF CloseParent
<1>13. CASE ParentGoesOn
  BY <1>13 DEF ParentGoesOn
<1> QED
  BY <1>1, <1>2, <1>3, <1>4, <1>5, <1>6, <1>7, <1>8, <1>9, <1>10, <1>11, <1>12,
     <1>13 DEF ChildrenNext

\* The invariant holds throughout.
THEOREM ChildrenInvariant == ChildrenSpec => []ChildrenInv
<1>1. ChildrenInit => ChildrenInv
  BY DEF ChildrenInit, ChildrenInv, ChildFits
<1>2. ChildrenInv /\ [ChildrenNext]_childVars => ChildrenInv'
  BY ChildSteps DEF ChildrenInv, ChildFits, childVars
<1> QED
  BY <1>1, <1>2, PTL DEF ChildrenSpec

\* The table of children names those whose scope is open, whenever a spawn is
\* cut short, a child or its parent stops: for any children.
THEOREM TableStaysTrue == ChildrenSpec => []TableIsTrue
<1>1. ChildrenInv => TableIsTrue
  BY DEF ChildrenInv, ChildFits, TableIsTrue, UnderWay
<1> QED
  BY <1>1, ChildrenInvariant, PTL
=============================================================================
