---------------------------- MODULE StoresProof -----------------------------
(***************************************************************************)
(* What is kept outside the process that made it: the event-sourced store, *)
(* the pull carrier of the durable steps, the journals of the clients, the *)
(* State a surface of the bridge shows, and the round trips that are owed. *)
(***************************************************************************)
EXTENDS EventSourcedStore, StepPull, JournalSync, Bridge, OwedEffects,
        CallsProof

-----------------------------------------------------------------------------
(* Proofs, for any snapshotEvery and any number of Msgs and evictions,     *)
(* that snapshots fold their events, that the log is the State's, that the *)
(* replay stays bounded and that the actor implements EventLog; where the  *)
(* host lets a turn's append settle and its two puts land together.        *)

\* What the theorems ask of the host and of the platform.  (Without the first
\* the run event_log_unawaited shows a snapshot that folds too much.)
Careful == AwaitsAppends /\ PutsLandTogether

-----------------------------------------------------------------------------
(* The inductive invariant.                                                *)

Logged == Len(events)

Writers == [at : {"event", "meta", "written", "snapshot", "now"},
            seq : Msgs, msg : {0} \cup Msgs]

Types ==
  /\ events \in Seq(Msgs) /\ state \in Seq(Msgs)
  /\ meta \in Nat /\ lastSeq \in Nat /\ snapshotSeq \in Nat /\ acked \in Nat
  /\ up \in BOOLEAN /\ appended \in BOOLEAN
  /\ unheard \in {0} \cup Msgs /\ made \in 0 .. MaxMsgs
  /\ evictions \in 0 .. MaxEvictions
  /\ writers \subseteq Writers

\* No more is folded, logged or counted than was made.
Counted ==
  Logged <= made /\ Len(state) <= made /\ lastSeq <= made /\ snapshotSeq <= made

\* A snapshot is of a beginning of the log.
SnapshotOfTheLog ==
  /\ snapshot = [seq |-> snapshot.seq, state |-> snapshot.state]
  /\ snapshot.seq \in 0 .. Logged
  /\ snapshot.state = None => snapshot.seq = 0
  /\ SnapshotFoldsItsEvents

\* The log is a beginning of the State, also of the one an evicted activation
\* had; what is known to be written is in it.
LogOfTheState ==
  /\ acked <= Logged /\ Logged <= Len(state)
  /\ events = SubSeq(state, 1, Logged)

\* Where an activation is: between turns, or at one step of the one append.
AtRest ==
  /\ writers = {} /\ lastSeq = Logged /\ meta = Logged
  /\ state = IF unheard = 0 THEN events ELSE Append(events, unheard)

AtWriter(w) ==
  /\ writers = {w} /\ unheard = 0 /\ lastSeq = w.seq
  /\ IF w.at = "event"
     THEN w.seq = Logged + 1 /\ w.msg # 0 /\ state = Append(events, w.msg)
     ELSE w.seq = Logged /\ state = events
  /\ meta = IF w.at \in {"event", "meta"} THEN w.seq - 1 ELSE w.seq
  /\ w.at \in {"snapshot", "now"} => snapshot.seq = w.seq

Turns ==
  /\ up => latestState = state /\ (AtRest \/ \E w \in writers : AtWriter(w))
  /\ ~up => unheard = 0 /\ writers = {} /\ meta = Logged

\* The activation's idea of the snapshot is never ahead of it, and not far
\* behind the log once an append has resolved.
SnapshotKnown ==
  up => /\ snapshotSeq <= snapshot.seq
        /\ appended /\ unheard = 0 /\ writers = {}
             => Logged - snapshotSeq < SnapshotEvery

StoreInv ==
  /\ Types /\ Counted /\ SnapshotOfTheLog /\ LogOfTheState /\ Turns
  /\ SnapshotKnown

-----------------------------------------------------------------------------
(* Facts about sequences.                                                  *)

LEMMA PrefixOfAppend ==
  ASSUME NEW S, NEW s \in Seq(S), NEW x \in S, NEW n \in 0 .. Len(s)
  PROVE  SubSeq(Append(s, x), 1, n) = SubSeq(s, 1, n)
<1> DEFINE t == Append(s, x)
<1>1. t \in Seq(S) /\ Len(t) = Len(s) + 1 /\ \A i \in 1 .. Len(s) : t[i] = s[i]
  BY AppendProperties
<1>2. \A i \in 1 .. n : s[i] \in S /\ t[i] \in S
  BY <1>1, ElementOfSeq
<1>3. /\ SubSeq(s, 1, n) \in Seq(S) /\ SubSeq(t, 1, n) \in Seq(S)
      /\ Len(SubSeq(s, 1, n)) = n /\ Len(SubSeq(t, 1, n)) = n
      /\ \A i \in 1 .. n : SubSeq(s, 1, n)[i] = s[i] /\ SubSeq(t, 1, n)[i] = t[i]
  <2> HIDE DEF t
  <2>1. /\ SubSeq(s, 1, n) \in Seq(S)
        /\ Len(SubSeq(s, 1, n)) = IF 1 <= n THEN n - 1 + 1 ELSE 0
        /\ \A i \in 1 .. n - 1 + 1 : SubSeq(s, 1, n)[i] = s[1 + i - 1]
    BY <1>2, SubSeqProperties, n \in Int, 1 \in Int
  <2>2. /\ SubSeq(t, 1, n) \in Seq(S)
        /\ Len(SubSeq(t, 1, n)) = IF 1 <= n THEN n - 1 + 1 ELSE 0
        /\ \A i \in 1 .. n - 1 + 1 : SubSeq(t, 1, n)[i] = t[1 + i - 1]
    BY <1>2, SubSeqProperties, n \in Int, 1 \in Int
  <2> QED BY <2>1, <2>2
<1> HIDE DEF t
<1>4. \A i \in 1 .. Len(SubSeq(t, 1, n)) : SubSeq(t, 1, n)[i] = SubSeq(s, 1, n)[i]
  BY <1>1, <1>3
<1>5. SubSeq(t, 1, n) = SubSeq(s, 1, n)
  BY <1>3, <1>4, SeqEqual
<1> QED BY <1>5 DEF t

\* A snapshot and the events after it make the log.
LEMMA Replay ==
  ASSUME NEW S, NEW s \in Seq(S), NEW n \in 0 .. Len(s)
  PROVE  SubSeq(s, 1, n) \o SubSeq(s, n + 1, Len(s)) = s
<1>1. SubSeq(s, 1, n) \o SubSeq(s, n + 1, Len(s)) = SubSeq(s, 1, Len(s))
  <2>1. Len(s) \in Nat /\ 1 \in 1 .. Len(s) + 1 /\ n \in 1 - 1 .. Len(s)
        /\ Len(s) \in n .. Len(s)
    BY LenProperties
  <2> QED BY <2>1, ConcatAdjacentSubSeq
<1> QED BY <1>1, SubSeqFull

\* A beginning of a log is a sequence of Msgs, so it is not null.
LEMMA PrefixIsMsgs ==
  ASSUME NEW s \in Seq(Msgs), NEW n \in 0 .. Len(s)
  PROVE  SubSeq(s, 1, n) \in Seq(Msgs) /\ SubSeq(s, 1, n) # None
<1>1. SubSeq(s, 1, n) \in Seq(Msgs)
  <2>1. \A i \in 1 .. n : s[i] \in Msgs
    BY ElementOfSeq
  <2> QED BY <2>1, SubSeqProperties, n \in Int, 1 \in Int
<1>2. None \notin Seq(Msgs)
  <2> SUFFICES ASSUME None \in Seq(Msgs) PROVE FALSE
    OBVIOUS
  <2>1. None[1] = 0 /\ Len(None) = 1
    BY DEF None
  <2>2. 1 \in 1 .. Len(None)
    BY <2>1
  <2>3. None[1] \in Msgs
    BY <2>2, ElementOfSeq, Zenon
  <2> QED BY <2>1, <2>3 DEF Msgs
<1> QED BY <1>1, <1>2

-----------------------------------------------------------------------------
(* The invariant is inductive: one lemma for each action.                  *)

LEMMA Bounds == MaxMsgs \in Nat /\ MaxEvictions \in Nat /\ SnapshotEvery \in Nat \ {0}
  BY StoreAssumption DEF StoreAssumption

LEMMA Initially == Init => StoreInv
<1> SUFFICES ASSUME Init PROVE StoreInv
  OBVIOUS
<1>1. <<>> \in Seq(Msgs) /\ Len(<<>>) = 0
  BY EmptySeq
<1>2. SubSeq(<<>>, 1, 0) = <<>>
  BY SubSeqEmpty
<1>3. Types
  <2>1. up \in BOOLEAN /\ appended \in BOOLEAN
    BY DEF Init
  <2> QED
    BY <1>1, <2>1, Bounds DEF Init, Types
<1>4. Counted /\ LogOfTheState
  BY <1>1, <1>2 DEF Init, Counted, Logged, LogOfTheState
<1>5. SnapshotOfTheLog
  BY <1>1 DEF Init, NoSnapshot, Logged, SnapshotOfTheLog, SnapshotFoldsItsEvents
<1>6. Turns /\ SnapshotKnown
  BY <1>1 DEF Init, Turns, SnapshotKnown, Logged
<1> QED
  BY <1>3, <1>4, <1>5, <1>6 DEF StoreInv

\* What an activation loads is the log, from whichever snapshot.
LEMMA LoadsTheLog == StoreInv /\ Load => state' = events
<1> SUFFICES ASSUME StoreInv, Load PROVE state' = events
  OBVIOUS
<1>1. PICK cell \in {snapshot, NoSnapshot} :
        LET base == IF cell.state = None THEN <<>> ELSE cell.state IN
        state' = base \o SubSeq(events, ReplayFrom(cell), Len(events))
  BY DEF Load
<1>2. events \in Seq(Msgs) /\ Len(events) \in Nat
  BY LenProperties DEF StoreInv, Types
<1>3. CASE cell.state = None
  <2>1. cell.seq = 0
    BY <1>3 DEF NoSnapshot, StoreInv, SnapshotOfTheLog
  <2>2. state' = <<>> \o SubSeq(events, 1, Len(events))
    BY <1>1, <1>3, <2>1 DEF ReplayFrom
  <2> QED
    BY <1>2, <2>2, SubSeqFull, ConcatEmptySeq
<1>4. CASE cell.state # None
  <2>1. cell = snapshot /\ snapshot.state = SubSeq(events, 1, snapshot.seq)
    BY <1>4 DEF NoSnapshot, StoreInv, SnapshotOfTheLog, SnapshotFoldsItsEvents
  <2>2. state' = SubSeq(events, 1, snapshot.seq)
                   \o SubSeq(events, snapshot.seq + 1, Len(events))
    BY <1>1, <1>4, <2>1 DEF ReplayFrom
  <2>3. snapshot.seq \in 0 .. Len(events)
    BY DEF StoreInv, SnapshotOfTheLog, Logged
  <2> QED
    BY <1>2, <2>2, <2>3, Replay
<1> QED BY <1>3, <1>4

LEMMA LoadKeeps == StoreInv /\ Load => StoreInv'
<1> SUFFICES ASSUME StoreInv, Load PROVE StoreInv'
  OBVIOUS
<1>1. state' = events /\ events' = events
  BY LoadsTheLog DEF Load, storage
<1>2. /\ events \in Seq(Msgs) /\ Len(events) \in Nat
      /\ SubSeq(events, 1, Len(events)) = events
  BY LenProperties, SubSeqFull DEF StoreInv, Types
<1>3. /\ lastSeq' = meta /\ latestState' = state' /\ up' = TRUE /\ appended' = FALSE
      /\ snapshotSeq' \in {0, snapshot.seq}
      /\ UNCHANGED <<meta, snapshot, unheard, writers, made, evictions, acked>>
  BY DEF Load, Mirror, storage, NoSnapshot
<1>4. unheard = 0 /\ writers = {} /\ meta = Logged
  BY DEF Load, StoreInv, Turns
<1>5. Types' /\ Counted'
  <2>1. up' \in BOOLEAN /\ appended' \in BOOLEAN
    BY <1>3
  <2> QED
    BY <1>1, <1>2, <1>3, <1>4, <2>1
       DEF StoreInv, Types, Counted, Logged, SnapshotOfTheLog
<1>6. SnapshotOfTheLog'
  BY <1>1, <1>3 DEF StoreInv, SnapshotOfTheLog, SnapshotFoldsItsEvents, Logged
<1>7. LogOfTheState'
  BY <1>1, <1>2, <1>3 DEF StoreInv, LogOfTheState, Logged
<1>8. Turns' /\ SnapshotKnown'
  BY <1>1, <1>2, <1>3, <1>4
     DEF StoreInv, Turns, AtRest, Logged, SnapshotKnown, SnapshotOfTheLog
<1> QED BY <1>5, <1>6, <1>7, <1>8 DEF StoreInv

\* An eviction between an append's puts would leave the meta cell behind.
LEMMA EvictKeeps == ASSUME Careful PROVE StoreInv /\ Evict => StoreInv'
<1> SUFFICES ASSUME StoreInv, Evict PROVE StoreInv'
  OBVIOUS
<1>1. /\ events' = events /\ meta' = meta /\ snapshot' = snapshot
      /\ state' = state /\ latestState' = latestState /\ lastSeq' = lastSeq
      /\ snapshotSeq' = snapshotSeq /\ made' = made /\ acked' = acked
      /\ appended' = appended /\ up /\ up' = FALSE /\ unheard' = 0 /\ writers' = {}
      /\ evictions' = evictions + 1 /\ evictions < MaxEvictions
  BY DEF Evict, storage, memory
<1>2. meta = Logged
  BY <1>1 DEF Evict, Careful, StoreInv, Turns, AtRest, AtWriter, Types, Logged
<1>3. Types' /\ Counted' /\ LogOfTheState'
  <2>1. up' \in BOOLEAN /\ appended' \in BOOLEAN
    BY <1>1 DEF StoreInv, Types
  <2> QED
    BY <1>1, <2>1, Bounds
       DEF StoreInv, Types, Counted, LogOfTheState, Logged
<1>4. SnapshotOfTheLog'
  BY <1>1 DEF StoreInv, SnapshotOfTheLog, SnapshotFoldsItsEvents, Logged
<1> QED
  BY <1>1, <1>2, <1>3, <1>4 DEF StoreInv, Turns, SnapshotKnown, Logged

LEMMA SaveKeeps == ASSUME Careful PROVE StoreInv /\ Save => StoreInv'
<1> SUFFICES ASSUME StoreInv, Save PROVE StoreInv'
  OBVIOUS
<1>1. /\ UNCHANGED <<events, meta, snapshot, lastSeq, snapshotSeq, up, writers,
                    evictions, acked, appended>>
      /\ up /\ unheard = 0 /\ writers = {} /\ made < MaxMsgs
      /\ made' = made + 1 /\ unheard' = made'
      /\ state' = Append(state, made') /\ latestState' = state'
  BY DEF Save, storage, Settled, Careful
<1>2. events \in Seq(Msgs) /\ Len(events) \in Nat /\ state = events /\ made' \in Msgs
  BY <1>1, LenProperties, Bounds
     DEF StoreInv, Types, Turns, AtRest, AtWriter, Msgs
<1>3. /\ state' \in Seq(Msgs) /\ Len(state') = Logged + 1
      /\ SubSeq(state', 1, Logged) = events
  <2>1. Logged \in 0 .. Len(events)
    BY <1>2 DEF Logged
  <2> QED
    BY <1>1, <1>2, <2>1, AppendProperties, PrefixOfAppend, SubSeqFull DEF Logged
<1>4. Types' /\ Counted'
  BY <1>1, <1>2, <1>3, Bounds DEF StoreInv, Types, Counted, Logged, Msgs
<1>5. SnapshotOfTheLog'
  BY <1>1 DEF StoreInv, SnapshotOfTheLog, SnapshotFoldsItsEvents, Logged
<1>6. LogOfTheState'
  BY <1>1, <1>2, <1>3 DEF StoreInv, LogOfTheState, Logged
<1>7. Turns'
  BY <1>1, <1>2 DEF StoreInv, Turns, AtRest, AtWriter, Logged, Msgs
<1>8. SnapshotKnown'
  BY <1>1, <1>2 DEF StoreInv, SnapshotKnown, Msgs
<1> QED BY <1>4, <1>5, <1>6, <1>7, <1>8 DEF StoreInv

\* There is one writer at most, so where it is says everything.
LEMMA TheWriter ==
  ASSUME StoreInv, up, NEW w \in writers PROVE AtWriter(w) /\ w \in Writers
BY DEF StoreInv, Turns, AtRest, AtWriter, Types

LEMMA OneMoves ==
  ASSUME NEW w \in Writers, writers = {w},
         NEW at \in {"event", "meta", "written", "snapshot", "now"}, Moves(w, at)
  PROVE  \E v \in Writers : /\ writers' = {v}
                           /\ v.at = at /\ v.seq = w.seq /\ v.msg = w.msg
<1> DEFINE v == [w EXCEPT !.at = at]
<1>1. v \in Writers /\ v.at = at /\ v.seq = w.seq /\ v.msg = w.msg
  BY DEF Writers
<1>2. writers' = {v}
  BY DEF Moves
<1> QED BY <1>1, <1>2

LEMMA HearKeeps == StoreInv /\ Hear => StoreInv'
<1> SUFFICES ASSUME StoreInv, Hear PROVE StoreInv'
  OBVIOUS
<1>1. /\ UNCHANGED <<events, meta, snapshot, state, latestState, snapshotSeq, up,
                    made, evictions, acked, appended>>
      /\ up /\ unheard # 0 /\ unheard' = 0
      /\ lastSeq' = lastSeq + 1 /\ writers' = writers \cup
           {[at |-> "event", seq |-> lastSeq + 1, msg |-> unheard]}
  BY DEF Hear, storage
<1>2. /\ writers = {} /\ lastSeq = Logged /\ meta = Logged
      /\ state = Append(events, unheard) /\ latestState = state
  BY <1>1 DEF StoreInv, Turns, AtRest, AtWriter
<1>3. unheard \in Msgs /\ events \in Seq(Msgs) /\ Len(events) \in Nat
  BY <1>1, LenProperties DEF StoreInv, Types
<1>4. Logged + 1 = Len(state) /\ Logged + 1 \in 1 .. made
  BY <1>2, <1>3, AppendProperties DEF StoreInv, Types, Counted, Logged
<1>5. PICK w \in Writers : /\ writers' = {w} /\ w.at = "event"
                           /\ w.seq = Logged + 1 /\ w.msg = unheard
  <2>1. lastSeq + 1 \in Msgs
    BY <1>2, <1>4, Bounds DEF StoreInv, Types, Msgs
  <2> DEFINE w == [at |-> "event", seq |-> lastSeq + 1, msg |-> unheard]
  <2>2. w \in Writers /\ w.at = "event" /\ w.seq = Logged + 1 /\ w.msg = unheard
    BY <1>2, <1>3, <2>1 DEF Writers
  <2> HIDE DEF w
  <2>3. writers' = {w}
    BY <1>1, <1>2 DEF w
  <2> QED
    BY <2>2, <2>3
<1>6. Types'
  <2>1. writers' \subseteq Writers
    BY <1>5
  <2>2. up' \in BOOLEAN /\ appended' \in BOOLEAN
    BY <1>1 DEF StoreInv, Types
  <2> QED
    BY <1>1, <2>1, <2>2 DEF StoreInv, Types
<1>7. Counted' /\ SnapshotOfTheLog' /\ LogOfTheState'
  BY <1>1, <1>2, <1>4
     DEF StoreInv, Types, Counted, SnapshotOfTheLog, SnapshotFoldsItsEvents,
         LogOfTheState, Logged
<1>8. AtWriter(w)'
  BY <1>1, <1>2, <1>3, <1>5 DEF AtWriter, Logged, Msgs
<1>9. Turns' /\ SnapshotKnown'
  BY <1>1, <1>2, <1>5, <1>8 DEF StoreInv, Turns, SnapshotKnown
<1> QED BY <1>6, <1>7, <1>8, <1>9 DEF StoreInv

\* The put of an event is at the end of the log, and its Msg is the State's last.
LEMMA PutEventKeeps ==
  ASSUME StoreInv, up, NEW w \in writers, PutEvent(w) PROVE StoreInv'
<1>1. AtWriter(w) /\ w \in Writers /\ w.at = "event"
  BY TheWriter DEF PutEvent
<1>2. /\ w.seq = Logged + 1 /\ w.msg \in Msgs /\ w.seq \in Msgs
      /\ state = Append(events, w.msg)
      /\ meta = w.seq - 1 /\ unheard = 0 /\ lastSeq = w.seq /\ writers = {w}
      /\ latestState = state
  BY <1>1 DEF AtWriter, Writers, StoreInv, Turns
<1>3. UNCHANGED <<meta, snapshot, state, latestState, lastSeq, snapshotSeq, up, unheard,
                  made, evictions, acked, appended>>
  BY DEF PutEvent, memory
<1>4. events \in Seq(Msgs) /\ Len(events) \in Nat /\ snapshot.seq \in 0 .. Logged
  BY LenProperties DEF StoreInv, Types, SnapshotOfTheLog
<1>5. events' = state
  <2> DEFINE f == [k \in 1 .. Len(events) \cup {w.seq} |->
                    IF k = w.seq THEN w.msg ELSE events[k]]
  <2>1. 1 .. Len(events) \cup {w.seq} = 1 .. Len(events) + 1
    BY <1>2, <1>4 DEF Logged
  <2>2. f = Append(events, w.msg)
    <3>1. /\ Append(events, w.msg) \in Seq(Msgs)
          /\ Len(Append(events, w.msg)) = Len(events) + 1
          /\ \A i \in 1 .. Len(events) : Append(events, w.msg)[i] = events[i]
          /\ Append(events, w.msg)[Len(events) + 1] = w.msg
      BY <1>2, <1>4, AppendProperties
    <3>2. Append(events, w.msg) \in [1 .. Len(events) + 1 -> Msgs]
      BY <3>1, LenProperties
    <3>3. \A i \in 1 .. Len(events) + 1 : Append(events, w.msg)[i] = f[i]
      BY <1>2, <1>4, <2>1, <3>1 DEF Logged
    <3> HIDE DEF f
    <3>4. f = [i \in 1 .. Len(events) + 1 |-> f[i]]
      BY <2>1 DEF f
    <3> QED
      BY <3>2, <3>3, <3>4
  <2> QED BY <1>2, <2>2 DEF PutEvent
<1>6. /\ state \in Seq(Msgs) /\ Len(state) = Len(events) + 1
      /\ \A n \in 0 .. Len(events) : SubSeq(state, 1, n) = SubSeq(events, 1, n)
  BY <1>2, <1>4, AppendProperties, PrefixOfAppend
<1>7. PICK v \in Writers : /\ writers' = {v} /\ v.at = "meta"
                           /\ v.seq = w.seq /\ v.msg = w.msg
  BY <1>1, <1>2, OneMoves DEF PutEvent
<1>8. Types' /\ Counted'
  <2>1. up' \in BOOLEAN /\ appended' \in BOOLEAN /\ writers' \subseteq Writers
    BY <1>3, <1>7 DEF StoreInv, Types
  <2> QED
    BY <1>3, <1>5, <1>6, <2>1 DEF StoreInv, Types, Counted, Logged
<1>9. SnapshotOfTheLog'
  BY <1>3, <1>4, <1>5, <1>6
     DEF StoreInv, SnapshotOfTheLog, SnapshotFoldsItsEvents, Logged
<1>10. LogOfTheState'
  <2>1. SubSeq(state, 1, Len(state)) = state
    BY <1>6, SubSeqFull
  <2>2. acked' = acked /\ acked <= Len(events) /\ acked \in Nat
    BY <1>3 DEF StoreInv, LogOfTheState, Logged, Types
  <2> QED
    BY <1>3, <1>4, <1>5, <1>6, <2>1, <2>2 DEF LogOfTheState, Logged
<1>11. AtWriter(v)'
  BY <1>2, <1>3, <1>4, <1>5, <1>6, <1>7 DEF AtWriter, Logged
<1>12. Turns' /\ SnapshotKnown'
  BY <1>2, <1>3, <1>7, <1>11 DEF StoreInv, Turns, SnapshotKnown
<1> QED BY <1>8, <1>9, <1>10, <1>12 DEF StoreInv

LEMMA PutMetaKeeps ==
  ASSUME StoreInv, up, NEW w \in writers, PutMeta(w) PROVE StoreInv'
<1>1. AtWriter(w) /\ w \in Writers /\ w.at = "meta"
  BY TheWriter DEF PutMeta
<1>2. /\ w.seq = Logged /\ w.seq \in Nat /\ state = events /\ unheard = 0
      /\ lastSeq = w.seq /\ writers = {w} /\ latestState = state
  BY <1>1 DEF AtWriter, Writers, StoreInv, Turns, Msgs
<1>3. /\ UNCHANGED <<events, snapshot, state, latestState, lastSeq, snapshotSeq, up,
                    unheard, made, evictions, acked, appended>>
      /\ meta' = w.seq
  BY DEF PutMeta, MetaCell, memory
<1>4. PICK v \in Writers : /\ writers' = {v} /\ v.at = "written"
                           /\ v.seq = w.seq /\ v.msg = w.msg
  BY <1>1, <1>2, OneMoves DEF PutMeta
<1>5. Types'
  <2>1. up' \in BOOLEAN /\ appended' \in BOOLEAN /\ writers' \subseteq Writers
    BY <1>3, <1>4 DEF StoreInv, Types
  <2> QED
    BY <1>2, <1>3, <2>1 DEF StoreInv, Types
<1>6. Counted' /\ SnapshotOfTheLog' /\ LogOfTheState'
  BY <1>3 DEF StoreInv, Counted, SnapshotOfTheLog, SnapshotFoldsItsEvents,
              LogOfTheState, Logged
<1>7. AtWriter(v)'
  BY <1>2, <1>3, <1>4 DEF AtWriter, Logged
<1>8. Turns' /\ SnapshotKnown'
  BY <1>2, <1>3, <1>4, <1>7 DEF StoreInv, Turns, SnapshotKnown
<1> QED BY <1>5, <1>6, <1>7, <1>8 DEF StoreInv

\* A snapshot of the State held, where that is the fold of the whole log.
LEMMA WholeSnapshot ==
  ASSUME StoreInv, state = events, latestState = state, UNCHANGED events,
         snapshot' = [seq |-> Logged, state |-> latestState]
  PROVE  SnapshotOfTheLog'
<1>1. events \in Seq(Msgs) /\ Len(events) \in Nat
  BY LenProperties DEF StoreInv, Types
<1>2. SubSeq(events, 1, Len(events)) = events
  BY <1>1, SubSeqFull
<1>3. events # None
  BY <1>1, <1>2, PrefixIsMsgs, Len(events) \in 0 .. Len(events)
<1> QED
  BY <1>1, <1>2, <1>3 DEF SnapshotOfTheLog, SnapshotFoldsItsEvents, Logged

LEMMA PutSnapshotKeeps ==
  ASSUME StoreInv, up, NEW w \in writers, PutSnapshot(w) PROVE StoreInv'
<1>1. AtWriter(w) /\ w \in Writers /\ w.at = "written"
  BY TheWriter DEF PutSnapshot
<1>2. /\ w.seq = Logged /\ w.seq \in Nat /\ state = events /\ unheard = 0 /\ meta = w.seq
      /\ lastSeq = w.seq /\ writers = {w} /\ latestState = state
  BY <1>1 DEF AtWriter, Writers, StoreInv, Turns, Msgs
<1>3. /\ UNCHANGED <<events, meta, state, latestState, lastSeq, snapshotSeq, up,
                    unheard, made, evictions, acked, appended>>
      /\ snapshot' = [seq |-> w.seq, state |-> latestState]
  BY DEF PutSnapshot, Cell, memory
<1>4. PICK v \in Writers : /\ writers' = {v} /\ v.at = "snapshot"
                           /\ v.seq = w.seq /\ v.msg = w.msg
  BY <1>1, <1>2, OneMoves DEF PutSnapshot
<1>5. Types'
  <2>1. up' \in BOOLEAN /\ appended' \in BOOLEAN /\ writers' \subseteq Writers
    BY <1>3, <1>4 DEF StoreInv, Types
  <2> QED
    BY <1>2, <1>3, <2>1 DEF StoreInv, Types
<1>6. Counted' /\ LogOfTheState'
  BY <1>3 DEF StoreInv, Counted, LogOfTheState, Logged
<1>7. SnapshotOfTheLog'
  BY <1>2, <1>3, WholeSnapshot
<1>8. AtWriter(v)'
  BY <1>2, <1>3, <1>4 DEF AtWriter, Logged
<1>9. Turns'
  BY <1>2, <1>3, <1>4, <1>8 DEF StoreInv, Turns
<1>10. SnapshotKnown'
  <2>1. snapshotSeq \in Nat /\ snapshot.seq \in 0 .. Logged /\ snapshotSeq <= snapshot.seq
    BY DEF StoreInv, SnapshotKnown, SnapshotOfTheLog, Types
  <2> QED
    BY <1>2, <1>3, <1>4, <2>1 DEF SnapshotKnown
<1> QED BY <1>5, <1>6, <1>7, <1>9, <1>10 DEF StoreInv

\* An append that needs no snapshot resolves less than snapshotEvery behind one.
LEMMA NoSnapshotDueKeeps ==
  ASSUME StoreInv, up, NEW w \in writers, NoSnapshotDue(w) PROVE StoreInv'
<1>1. AtWriter(w) /\ w \in Writers /\ w.at = "written"
  BY TheWriter DEF NoSnapshotDue
<1>2. /\ w.seq = Logged /\ w.seq \in Nat /\ state = events /\ unheard = 0 /\ meta = w.seq
      /\ lastSeq = w.seq /\ writers = {w} /\ latestState = state
  BY <1>1 DEF AtWriter, Writers, StoreInv, Turns, Msgs
<1>3. /\ UNCHANGED <<events, meta, snapshot, state, latestState, lastSeq, snapshotSeq,
                    up, unheard, made, evictions>>
      /\ writers' = {} /\ appended' = TRUE
      /\ acked' = IF w.seq > acked THEN w.seq ELSE acked
  BY <1>2 DEF NoSnapshotDue, Resolves, storage, memory
<1>4. events \in Seq(Msgs) /\ Len(events) \in Nat /\ acked \in Nat /\ acked <= Logged
  BY LenProperties DEF StoreInv, Types, LogOfTheState
<1>5. Types'
  <2>1. up' \in BOOLEAN /\ appended' \in BOOLEAN /\ writers' \subseteq Writers
    BY <1>3 DEF StoreInv, Types
  <2> QED
    BY <1>2, <1>3, <2>1 DEF StoreInv, Types
<1>6. Counted' /\ SnapshotOfTheLog' /\ LogOfTheState'
  BY <1>2, <1>3, <1>4 DEF StoreInv, Counted, SnapshotOfTheLog, SnapshotFoldsItsEvents,
              LogOfTheState, Logged
<1>7. Turns'
  BY <1>2, <1>3 DEF StoreInv, Turns, AtRest, Logged
<1>8. SnapshotKnown'
  <2>1. latestState # None
    <3>1. events = SubSeq(events, 1, Len(events)) /\ Len(events) \in 0 .. Len(events)
      BY <1>4, SubSeqFull
    <3> QED
      BY <1>2, <1>4, <3>1, PrefixIsMsgs
  <2>2. ~Due(w.seq)
    BY <2>1 DEF NoSnapshotDue
  <2> QED
    BY <1>2, <1>3, <2>2, Bounds DEF StoreInv, SnapshotKnown, Due, Types, Logged
<1> QED BY <1>5, <1>6, <1>7, <1>8 DEF StoreInv

LEMMA EndSnapshotKeeps ==
  ASSUME StoreInv, up, NEW w \in writers, EndSnapshot(w) PROVE StoreInv'
<1>1. AtWriter(w) /\ w \in Writers /\ w.at \in {"snapshot", "now"}
  BY TheWriter DEF EndSnapshot
<1>2. /\ w.seq = Logged /\ w.seq \in Nat /\ state = events /\ unheard = 0 /\ meta = w.seq
      /\ lastSeq = w.seq /\ writers = {w} /\ latestState = state
      /\ snapshot.seq = w.seq
  BY <1>1 DEF AtWriter, Writers, StoreInv, Turns, Msgs
<1>3. /\ UNCHANGED <<events, meta, snapshot, state, latestState, lastSeq,
                    up, unheard, made, evictions>>
      /\ snapshotSeq' = w.seq /\ writers' = {}
      /\ acked' \in {acked, w.seq} /\ appended' \in {TRUE, appended}
  <2>1. CASE w.at = "snapshot"
    BY <1>2, <2>1 DEF EndSnapshot, Resolves, storage
  <2>2. CASE w.at # "snapshot"
    BY <1>2, <2>2 DEF EndSnapshot, storage
  <2> QED
    BY <2>1, <2>2
<1>4. events \in Seq(Msgs) /\ Len(events) \in Nat /\ acked \in Nat /\ acked <= Logged
  BY LenProperties DEF StoreInv, Types, LogOfTheState
<1>5. Types'
  <2>1. up' \in BOOLEAN /\ appended' \in BOOLEAN /\ writers' \subseteq Writers
    BY <1>3 DEF StoreInv, Types
  <2> QED
    BY <1>2, <1>3, <2>1 DEF StoreInv, Types
<1>6. Counted' /\ SnapshotOfTheLog' /\ LogOfTheState'
  BY <1>2, <1>3, <1>4 DEF StoreInv, Counted, SnapshotOfTheLog, SnapshotFoldsItsEvents,
              LogOfTheState, Logged
<1>7. Turns'
  BY <1>2, <1>3 DEF StoreInv, Turns, AtRest, Logged
<1>8. SnapshotKnown'
  BY <1>2, <1>3, <1>4, Bounds DEF SnapshotKnown, Logged
<1> QED BY <1>5, <1>6, <1>7, <1>8 DEF StoreInv

LEMMA SnapshotNowKeeps == StoreInv /\ SnapshotNow => StoreInv'
<1> SUFFICES ASSUME StoreInv, SnapshotNow PROVE StoreInv'
  OBVIOUS
<1>1. /\ UNCHANGED <<events, meta, state, latestState, lastSeq, snapshotSeq, up,
                    unheard, made, evictions, acked, appended>>
      /\ up /\ unheard = 0 /\ writers = {} /\ lastSeq > snapshotSeq
      /\ snapshot' = [seq |-> lastSeq, state |-> latestState]
      /\ writers' = {[at |-> "now", seq |-> lastSeq, msg |-> 0]}
  BY DEF SnapshotNow, memory
<1>2. /\ lastSeq = Logged /\ meta = Logged /\ state = events /\ latestState = state
  BY <1>1 DEF StoreInv, Turns, AtRest, AtWriter
<1>3. PICK v \in Writers : /\ writers' = {v} /\ v.at = "now" /\ v.seq = Logged
  <2>1. lastSeq \in Msgs
    BY <1>1, <1>2, Bounds DEF StoreInv, Types, Counted, Logged, Msgs
  <2> DEFINE v == [at |-> "now", seq |-> lastSeq, msg |-> 0]
  <2>2. v \in Writers /\ v.at = "now" /\ v.seq = Logged
    BY <1>2, <2>1 DEF Writers
  <2> HIDE DEF v
  <2>3. writers' = {v}
    BY <1>1 DEF v
  <2> QED
    BY <2>2, <2>3
<1>4. Types'
  <2>1. up' \in BOOLEAN /\ appended' \in BOOLEAN /\ writers' \subseteq Writers
    BY <1>1, <1>3 DEF StoreInv, Types
  <2> QED
    BY <1>1, <2>1 DEF StoreInv, Types
<1>5. Counted' /\ LogOfTheState'
  BY <1>1 DEF StoreInv, Counted, LogOfTheState, Logged
<1>6. SnapshotOfTheLog'
  BY <1>1, <1>2, WholeSnapshot
<1>7. AtWriter(v)'
  BY <1>1, <1>2, <1>3 DEF AtWriter, Logged
<1>8. Turns'
  BY <1>1, <1>2, <1>3, <1>7 DEF StoreInv, Turns
<1>9. SnapshotKnown'
  BY <1>1, <1>2, <1>3 DEF StoreInv, SnapshotKnown, Types
<1> QED BY <1>4, <1>5, <1>6, <1>8, <1>9 DEF StoreInv

-----------------------------------------------------------------------------
(* The theorems.                                                           *)

LEMMA Stepwise == ASSUME Careful PROVE StoreInv /\ [Next]_vars => StoreInv'
<1> SUFFICES ASSUME StoreInv, [Next]_vars PROVE StoreInv'
  OBVIOUS
<1>1. ASSUME Appending PROVE StoreInv'
  BY <1>1, PutEventKeeps, PutMetaKeeps, PutSnapshotKeeps, NoSnapshotDueKeeps,
     EndSnapshotKeeps DEF Appending
<1>2. ASSUME UNCHANGED vars PROVE StoreInv'
  BY <1>2
     DEF vars, storage, memory, StoreInv, Types, Counted, Logged, SnapshotOfTheLog,
         SnapshotFoldsItsEvents, LogOfTheState, Turns, AtRest, AtWriter, SnapshotKnown
<1> QED
  BY <1>1, <1>2, LoadKeeps, EvictKeeps, SaveKeeps, HearKeeps, SnapshotNowKeeps DEF Next

LEMMA StoreInvariance == ASSUME Careful PROVE Spec => []StoreInv
<1>1. Init => StoreInv
  BY Initially
<1>2. StoreInv /\ [Next]_vars => StoreInv'
  BY Stepwise
<1> QED
  BY <1>1, <1>2, PTL DEF Spec

\* The State in a snapshot is the fold of exactly the events its seq says, at
\* every step of an append and after any eviction.
THEOREM SnapshotsAreExact == ASSUME Careful PROVE Spec => []SnapshotFoldsItsEvents
<1>1. StoreInv => SnapshotFoldsItsEvents
  BY DEF StoreInv, SnapshotOfTheLog
<1> QED
  BY <1>1, StoreInvariance, PTL

\* Between turns the log is the State's: no Msg is missing, repeated or
\* overwritten, over any number of activations.
THEOREM LogMatchesState == ASSUME Careful PROVE Spec => []LogIsTheState
<1>1. StoreInv => LogIsTheState
  BY DEF StoreInv, Turns, AtRest, LogIsTheState
<1> QED
  BY <1>1, StoreInvariance, PTL

\* From an activation's first append on, the events after the snapshot are
\* fewer than snapshotEvery whenever a turn has settled.
THEOREM TailIsShort == ASSUME Careful PROVE Spec => []ReplayIsBounded
<1>1. StoreInv => ReplayIsBounded
  <2> SUFFICES ASSUME StoreInv, up, appended, unheard = 0, writers = {}
               PROVE  Len(events) - snapshot.seq < SnapshotEvery
    BY DEF ReplayIsBounded
  <2>1. /\ Logged - snapshotSeq < SnapshotEvery /\ snapshotSeq <= snapshot.seq
        /\ snapshotSeq \in Nat /\ snapshot.seq \in 0 .. Logged
    BY DEF StoreInv, SnapshotKnown, SnapshotOfTheLog, Types
  <2>2. Logged = Len(events) /\ Logged \in Nat
    BY LenProperties DEF StoreInv, Types, Logged
  <2> QED
    BY <2>1, <2>2, Bounds
<1> QED
  BY <1>1, StoreInvariance, PTL

\* Every variable keeps its type, and the log has no gap.
THEOREM TypeCorrect == ASSUME Careful PROVE Spec => []TypeOK
<1>1. StoreInv => TypeOK
  <2> SUFFICES ASSUME StoreInv PROVE TypeOK
    OBVIOUS
  <2>1. /\ Len(events) \in 0 .. MaxMsgs /\ Len(state) \in 0 .. MaxMsgs
        /\ events \in [1 .. Len(events) -> Msgs] /\ state \in [1 .. Len(state) -> Msgs]
    BY LenProperties, Bounds DEF StoreInv, Types, Counted, Logged
  <2>2. meta \in {Logged, Logged - 1}
    <3>1. CASE ~up \/ AtRest
      BY <3>1 DEF StoreInv, Turns, AtRest
    <3>2. CASE \E w \in writers : AtWriter(w)
      <4>1. PICK w \in writers : AtWriter(w)
        BY <3>2
      <4>2. Logged \in Int
        BY <2>1, Bounds DEF Logged
      <4>3. CASE w.at = "event"
        <5>1. w.seq = Logged + 1 /\ meta = w.seq - 1
          BY <4>1, <4>3 DEF AtWriter
        <5> QED
          BY <4>2, <5>1
      <4>4. CASE w.at # "event"
        <5>1. w.seq = Logged /\ meta \in {w.seq - 1, w.seq}
          BY <4>1, <4>4 DEF AtWriter
        <5> QED
          BY <5>1
      <4> QED
        BY <4>3, <4>4
    <3> QED BY <3>1, <3>2 DEF StoreInv, Turns
  <2>3. /\ meta \in 0 .. MaxMsgs /\ lastSeq \in 0 .. MaxMsgs
        /\ snapshot.seq \in 0 .. MaxMsgs /\ snapshotSeq \in 0 .. MaxMsgs
        /\ acked \in 0 .. MaxMsgs
    BY <2>1, <2>2, Bounds
       DEF StoreInv, Types, Counted, SnapshotOfTheLog, LogOfTheState, Logged
  <2>4. /\ \E n \in 0 .. MaxMsgs : events \in [1 .. n -> Msgs]
        /\ \E n \in 0 .. MaxMsgs : state \in [1 .. n -> Msgs]
    BY <2>1
  <2>5. /\ up \in BOOLEAN /\ appended \in BOOLEAN
        /\ unheard \in {0} \cup Msgs /\ made \in 0 .. MaxMsgs
        /\ evictions \in 0 .. MaxEvictions
        /\ writers \subseteq [at : {"event", "meta", "written", "snapshot", "now"},
                              seq : Msgs, msg : {0} \cup Msgs]
    BY DEF StoreInv, Types, Writers
  <2> QED
    BY <2>3, <2>4, <2>5, Zenon DEF TypeOK
<1> QED
  BY <1>1, StoreInvariance, PTL

\* Loading is a recovery of the event log, saving an application, resolving a
\* confirmation: an activation resumes from what the last one applied, less only
\* Msgs whose append had not resolved.
THEOREM StoreImplementsEventLog == ASSUME Careful PROVE Spec => ImplementsEventLog
<1>1. Init => Log!Init
  BY DEF Init, Log!Init
<1>2. StoreInv /\ [Next]_vars => [Log!Next]_(Log!vars)
  <2> SUFFICES ASSUME StoreInv, [Next]_vars PROVE [Log!Next]_(Log!vars)
    OBVIOUS
  <2>1. /\ events \in Seq(Msgs) /\ Len(events) \in Nat /\ Len(state) \in Nat
        /\ acked \in Nat /\ acked <= Len(events) /\ Len(events) <= Len(state)
        /\ events = SubSeq(state, 1, Len(events))
    BY LenProperties DEF StoreInv, Types, LogOfTheState, Logged
  <2>2. CASE Load
    <3>1. state' = events /\ acked' = acked
      BY <2>2, LoadsTheLog DEF Load
    <3>2. Len(events) \in acked .. Len(state)
      BY <2>1
    <3> QED
      BY <2>1, <3>1, <3>2 DEF Log!Next, Log!Recover
  <2>3. CASE Save
    <3>1. made' \in Msgs
      BY <2>3, Bounds DEF Save, StoreInv, Types, Msgs
    <3> QED
      BY <2>3, <3>1 DEF Save, Log!Next, Log!Apply
  <2>4. CASE Appending
    <3>1. PICK w \in writers : \/ PutEvent(w) \/ PutMeta(w) \/ PutSnapshot(w)
                               \/ NoSnapshotDue(w) \/ EndSnapshot(w)
      BY <2>4 DEF Appending
    <3>2. AtWriter(w) /\ w \in Writers
      BY <2>4, TheWriter DEF Appending
    <3>3. CASE PutEvent(w) \/ PutMeta(w) \/ PutSnapshot(w)
      BY <3>3 DEF PutEvent, PutMeta, PutSnapshot, memory, Log!vars
    <3>4. CASE NoSnapshotDue(w) \/ EndSnapshot(w)
      <4>1. w.seq = Len(events) /\ w.seq \in Nat
        BY <3>2, <3>4 DEF AtWriter, NoSnapshotDue, EndSnapshot, Writers, Msgs, Logged
      <4>2. state' = state /\ acked' \in {acked, IF w.seq > acked THEN w.seq ELSE acked}
        BY <3>4 DEF NoSnapshotDue, EndSnapshot, Resolves, memory
      <4>3. acked' \in acked .. Len(state)
        BY <2>1, <4>1, <4>2
      <4> QED
        BY <4>2, <4>3 DEF Log!Next, Log!Confirm
    <3> QED BY <3>1, <3>3, <3>4
  <2>5. CASE Evict \/ Hear \/ SnapshotNow \/ UNCHANGED vars
    BY <2>5 DEF Evict, Hear, SnapshotNow, vars, memory, Log!vars
  <2> QED BY <2>2, <2>3, <2>4, <2>5 DEF Next
<1> QED
  BY <1>1, <1>2, StoreInvariance, PTL DEF Spec, ImplementsEventLog, Log!Spec

-----------------------------------------------------------------------------
(* The pull carrier gets every result through, for any runs, any number of *)
(* POSTs, evictions and drives; where no two runs share a callId.  (With   *)
(* two that do, the intake takes a result of one for a duplicate of the    *)
(* other's.)                                                               *)
(*                                                                         *)
(* Two things make it so.  A result a POST carries is of a step that was   *)
(* run, and that the checkpoint is at or behind (Known): so a resume()     *)
(* that lands takes it in.  And a key of the intake is not free only while *)
(* its result is behind the checkpoint, in resume(), or was rejected       *)
(* (Taken), because an eviction empties the ledger and resume() at once.   *)

\* What the theorems ask of the runs: names, and a callId in one run at most.
CallsAreNamed ==
  /\ \A r \in StepRuns : StepCalls[r] \in Seq(AllCalls)
  /\ AllCalls \intersect {NoStep, "done", "working"} = {}
  /\ \A r, s \in StepRuns : r # s => CallsOf(r) \intersect CallsOf(s) = {}

-----------------------------------------------------------------------------
(* The inductive invariant.                                                *)

Stages == {"arriving", "resume", "complete", "enqueue", "answer", "answered"}
Pcs == {"ask", "wait", "run", "save", "done"}

PullTypeOK ==
  /\ stepKnob \in [defers : BOOLEAN, lasts : BOOLEAN]
  /\ stepPast \in [StepRuns -> Nat]
  /\ \A r \in StepRuns : stepPast[r] <= Len(StepCalls[r])
  /\ stepDue \subseteq StepRuns \X AllCalls
  /\ stepIntake \in [StepRuns \union AllCalls -> {"absent", "pending", "done"}]
  /\ stepPosts \subseteq
       [run : StepRuns, n : Nat, posted : AllCalls \union {NoStep}, at : Stages,
        body : AllCalls \union {NoStep, "done", "working"}]
  /\ stepHands \in [StepRuns -> [pc : Pcs, call : AllCalls \union {NoStep}, n : Nat]]
  /\ stepSaved \in [StepRuns -> SUBSET AllCalls]
  /\ stepCount \in [posts : Nat, again : [StepRuns -> Nat]]
  /\ stepEvictions \in Nat
  /\ DOMAIN stepRan = StepRuns /\ DOMAIN stepCut = StepRuns
  /\ \A r \in StepRuns :
       stepRan[r] \in [CallsOf(r) -> Nat] /\ stepCut[r] \in [CallsOf(r) -> Nat]

\* The checkpoint is at step c of run r, or behind it; and the step was run.
Reached(r, c) == Covered(r, c) \/ NextStepOf(r) = c
PullKnown(r, c) == c \in CallsOf(r) /\ stepRan[r][c] > 0 /\ Reached(r, c)

ResultsAreKnown ==
  /\ \A q \in stepPosts : q.posted # NoStep => PullKnown(q.run, q.posted)
  /\ \A d \in stepDue : PullKnown(d[1], d[2])
  /\ \A r \in StepRuns :
       /\ stepHands[r].pc \in {"ask", "wait", "save"} /\ stepHands[r].call # NoStep =>
            PullKnown(r, stepHands[r].call)
       /\ stepHands[r].pc = "save" => stepHands[r].call # NoStep
       /\ \A c \in stepSaved[r] : c \in CallsOf(r) /\ stepRan[r][c] > 0
       /\ \A c \in CallsOf(r) : Covered(r, c) => stepRan[r][c] > 0

\* What the host answered still holds, and the hands that wait hear their own.
PullAnswersAreTrue ==
  /\ \A q \in stepPosts :
       q.at = "answered" /\ q.body # "working" =>
         IF q.body = "done" THEN NextStepOf(q.run) = "done"
           ELSE q.body \in CallsOf(q.run) /\ Reached(q.run, q.body)
  /\ \A q \in stepPosts : q.n <= stepCount.posts
  /\ \A r \in StepRuns :
       /\ stepHands[r].n <= stepCount.posts
       /\ stepHands[r].pc = "run" =>
            /\ stepHands[r].call \in CallsOf(r) \ stepSaved[r]
            /\ Reached(r, stepHands[r].call)
       /\ stepHands[r].pc = "done" => NextStepOf(r) = "done"
       /\ stepHands[r].pc = "wait" =>
            \A q \in stepPosts : q.n = stepHands[r].n => q.run = r

\* A step was run once for each time it was cut short, and once more if it is
\* remembered or about to be.
ResultsKept(r, c) ==
  c \in stepSaved[r] \/ (stepHands[r].pc = "save" /\ stepHands[r].call = c)
RunsAreCounted ==
  \A r \in StepRuns : \A c \in CallsOf(r) :
    stepRan[r][c] <= (IF stepKnob.lasts THEN stepCut[r][c] ELSE stepCount.again[r])
                     + (IF ResultsKept(r, c) THEN 1 ELSE 0)

PullTaken(r, c) ==
  \/ Covered(r, c)
  \/ \E p \in stepPosts : p.run = r /\ p.posted = c /\ p.at = "resume"
  \/ <<r, c>> \in stepRejected

ResultsAreTaken ==
  /\ \A r \in StepRuns : \A c \in CallsOf(r) : stepIntake[c] # "absent" => PullTaken(r, c)
  /\ \A q \in stepPosts :
       q.at \in {"complete", "answer"} /\ q.posted # NoStep => PullTaken(q.run, q.posted)
  /\ \A q \in stepPosts :
       q.at \in {"resume", "complete", "enqueue"} => q.posted # NoStep

PullInv ==
  PullTypeOK /\ ResultsAreKnown /\ PullAnswersAreTrue /\ RunsAreCounted /\ ResultsAreTaken

-----------------------------------------------------------------------------
(* The checkpoint.                                                         *)

\* What was behind the checkpoint, reached or done stays so.
PastKept ==
  \A s \in StepRuns :
    /\ \A e \in CallsOf(s) : /\ Covered(s, e) => Covered(s, e)'
                             /\ Reached(s, e) => Reached(s, e)'
    /\ NextStepOf(s) = "done" => NextStepOf(s)' = "done"

LEMMA CallsInRange ==
  ASSUME CallsAreNamed
  PROVE  \A r \in StepRuns :
           /\ Len(StepCalls[r]) \in Nat /\ CallsOf(r) \subseteq AllCalls
           /\ DOMAIN StepCalls[r] = 1 .. Len(StepCalls[r])
           /\ \A i \in 1 .. Len(StepCalls[r]) : StepCalls[r][i] \in CallsOf(r)
<1> TAKE r \in StepRuns
<1>1. StepCalls[r] \in Seq(AllCalls)
  BY DEF CallsAreNamed
<1>2. /\ Len(StepCalls[r]) \in Nat
      /\ DOMAIN StepCalls[r] = 1 .. Len(StepCalls[r])
  BY <1>1
<1> QED BY <1>2 DEF CallsOf, AllCalls

(* The next step of a run is one of its calls, or "done".                  *)
LEMMA NextStepType ==
  ASSUME CallsAreNamed, PullTypeOK, NEW r \in StepRuns
  PROVE  /\ NextStepOf(r) \in CallsOf(r) \union {"done"}
         /\ NextStepOf(r) = "done" <=> stepPast[r] = Len(StepCalls[r])
<1>1. /\ stepPast[r] \in Nat /\ stepPast[r] <= Len(StepCalls[r])
      /\ "done" \notin CallsOf(r)
  BY CallsInRange DEF PullTypeOK, CallsAreNamed
<1> QED BY <1>1, CallsInRange DEF NextStepOf

LEMMA AdvanceKeeps ==
  ASSUME CallsAreNamed, PullTypeOK, NEW r \in StepRuns, NEW c \in CallsOf(r),
         AdvanceRun(r, c)
  PROVE  /\ stepPast' \in [StepRuns -> Nat]
         /\ \A s \in StepRuns : stepPast'[s] <= Len(StepCalls[s])
         /\ PastKept
         /\ Reached(r, c) => Covered(r, c)'
         /\ \A s \in StepRuns : \A e \in CallsOf(s) :
              Covered(s, e)' => Covered(s, e) \/ (s = r /\ e = c)
<1>1. /\ stepPast \in [StepRuns -> Nat] /\ \A s \in StepRuns : Len(StepCalls[s]) \in Nat
      /\ \A s \in StepRuns : stepPast[s] <= Len(StepCalls[s])
      /\ c # "done"
  BY CallsInRange DEF PullTypeOK, CallsAreNamed
<1>2. CASE NextStepOf(r) = c
  <2>1. stepPast' = [stepPast EXCEPT ![r] = @ + 1] /\ stepPast[r] < Len(StepCalls[r])
        /\ StepCalls[r][stepPast[r] + 1] = c
    BY <1>1, <1>2 DEF AdvanceRun, NextStepOf
  <2>2. /\ stepPast' \in [StepRuns -> Nat]
        /\ \A s \in StepRuns : stepPast'[s] <= Len(StepCalls[s])
        /\ \A s \in StepRuns : stepPast'[s] = IF s = r THEN stepPast[r] + 1
                                               ELSE stepPast[s]
    BY <1>1, <2>1
  <2>3. Covered(r, c)'
    BY <1>1, <2>1, <2>2 DEF Covered
  <2>4. ASSUME NEW s \in StepRuns, NEW e \in CallsOf(s)
        PROVE  /\ Covered(s, e) => Covered(s, e)'
               /\ Covered(s, e)' => Covered(s, e) \/ (s = r /\ e = c)
    BY <1>1, <2>1, <2>2 DEF Covered
  <2>5. ASSUME NEW s \in StepRuns, NEW e \in CallsOf(s), NextStepOf(s) = e
        PROVE  Reached(s, e)'
    BY <1>1, <1>2, <2>2, <2>3, <2>5 DEF Reached, NextStepOf
  <2>6. ASSUME NEW s \in StepRuns, NextStepOf(s) = "done"
        PROVE  NextStepOf(s)' = "done"
    BY <1>1, <1>2, <2>2, <2>6 DEF NextStepOf
  <2> QED BY <2>2, <2>3, <2>4, <2>5, <2>6 DEF PastKept, Reached
<1>3. CASE NextStepOf(r) # c
  <2>1. stepPast' = stepPast
    BY <1>1, <1>3 DEF AdvanceRun
  <2> QED BY <1>1, <1>3, <2>1 DEF PastKept, Reached, Covered, NextStepOf
<1> QED BY <1>2, <1>3

LEMMA PastStays ==
  ASSUME UNCHANGED stepPast
  PROVE  PastKept /\ \A r, c : Covered(r, c)' <=> Covered(r, c)
BY DEF PastKept, Reached, Covered, NextStepOf

-----------------------------------------------------------------------------
(* The host.                                                               *)

hands == <<stepKnob, stepHands, stepSaved, stepCount, stepRan, stepCut>>

\* A POST after the step is one before it, answered with what is next or with
\* "working" if it is answered by the step.
PostsGoOn ==
  \A q \in stepPosts' : \E p \in stepPosts :
    /\ p.run = q.run /\ p.n = q.n /\ p.posted = q.posted
    /\ q.at = "answered" => \/ p.at = "answered" /\ p.body = q.body
                            \/ q.body \in {"working", NextStepOf(q.run)}

LEMMA HostKeeps ==
  ASSUME CallsAreNamed, PullInv, UNCHANGED hands, PastKept, PostsGoOn,
         \A d \in stepDue' :
           d \in stepDue \/ \E p \in stepPosts : p.posted # NoStep
                                                 /\ d = <<p.run, p.posted>>,
         \A s \in StepRuns : \A e \in CallsOf(s) :
           Covered(s, e)' => Covered(s, e) \/ stepRan[s][e] > 0
  PROVE  ResultsAreKnown' /\ PullAnswersAreTrue' /\ RunsAreCounted'
<1>1. UNCHANGED <<stepKnob, stepHands, stepSaved, stepCount, stepRan, stepCut>>
  BY DEF hands
<1>2. \A s \in StepRuns : \A e : PullKnown(s, e) => PullKnown(s, e)'
  BY <1>1 DEF PullKnown, PastKept
<1>3. ResultsAreKnown'
  <2>1. \A q \in stepPosts' : q.posted # NoStep => PullKnown(q.run, q.posted)'
    <3> TAKE q \in stepPosts'
    <3>1. PICK p \in stepPosts : p.run = q.run /\ p.posted = q.posted
      BY DEF PostsGoOn
    <3>2. p.run \in StepRuns /\ (p.posted # NoStep => PullKnown(p.run, p.posted))
      BY DEF PullInv, PullTypeOK, ResultsAreKnown
    <3> QED BY <1>2, <3>1, <3>2
  <2>2. \A d \in stepDue' : PullKnown(d[1], d[2])'
    <3> TAKE d \in stepDue'
    <3>1. CASE d \in stepDue
      BY <1>2, <3>1 DEF PullInv, PullTypeOK, ResultsAreKnown
    <3>2. ASSUME NEW p \in stepPosts, p.posted # NoStep, d = <<p.run, p.posted>>
          PROVE  PullKnown(d[1], d[2])'
      BY <1>2, <3>2 DEF PullInv, PullTypeOK, ResultsAreKnown
    <3> QED BY <3>1, <3>2
  <2>3. ASSUME NEW r \in StepRuns
        PROVE  /\ stepHands[r].pc \in {"ask", "wait", "save"}
                    /\ stepHands[r].call # NoStep =>
                    PullKnown(r, stepHands[r].call)'
               /\ stepHands[r].pc = "save" => stepHands[r].call # NoStep
               /\ \A c \in stepSaved[r] : c \in CallsOf(r) /\ stepRan[r][c] > 0
               /\ \A c \in CallsOf(r) : Covered(r, c)' => stepRan[r][c] > 0
    BY <1>1, <1>2 DEF PullInv, ResultsAreKnown
  <2> QED BY <1>1, <2>1, <2>2, <2>3 DEF ResultsAreKnown
<1>4. PullAnswersAreTrue'
  <2>1. ASSUME NEW q \in stepPosts', q.at = "answered", q.body # "working"
        PROVE  IF q.body = "done" THEN NextStepOf(q.run)' = "done"
                 ELSE q.body \in CallsOf(q.run) /\ Reached(q.run, q.body)'
    <3>1. PICK p \in stepPosts :
            /\ p.run = q.run
            /\ \/ p.at = "answered" /\ p.body = q.body
               \/ q.body \in {"working", NextStepOf(q.run)}
      BY <2>1 DEF PostsGoOn
    <3>2. q.run \in StepRuns
      BY <3>1 DEF PullInv, PullTypeOK
    <3>3. IF q.body = "done" THEN NextStepOf(q.run) = "done"
            ELSE q.body \in CallsOf(q.run) /\ Reached(q.run, q.body)
      BY <2>1, <3>1, <3>2, NextStepType DEF PullInv, PullAnswersAreTrue, Reached
    <3> QED BY <3>2, <3>3 DEF PastKept
  <2>2. \A q \in stepPosts' :
          /\ q.n <= stepCount.posts
          /\ \A r \in StepRuns : stepHands[r].pc = "wait" /\ q.n = stepHands[r].n =>
               q.run = r
    BY DEF PostsGoOn, PullInv, PullAnswersAreTrue
  <2>3. ASSUME NEW r \in StepRuns
        PROVE  /\ stepHands[r].n <= stepCount.posts
               /\ stepHands[r].pc = "run" =>
                    /\ stepHands[r].call \in CallsOf(r) \ stepSaved[r]
                    /\ Reached(r, stepHands[r].call)'
               /\ stepHands[r].pc = "done" => NextStepOf(r)' = "done"
    BY <1>1 DEF PullInv, PullAnswersAreTrue, PastKept
  <2> HIDE DEF PullInv
  <2> QED BY ONLY <1>1, <2>1, <2>2, <2>3 DEF PullAnswersAreTrue
<1>5. RunsAreCounted'
  BY <1>1 DEF PullInv, RunsAreCounted, ResultsKept
<1> QED BY <1>3, <1>4, <1>5

(* A result that was taken stays so while what leaves resume() is behind   *)
(* the checkpoint or rejected.                                             *)
LEMMA TakenStays ==
  ASSUME PastKept, stepRejected \subseteq stepRejected',
         \A p \in stepPosts :
           p.at = "resume" => \/ p \in stepPosts' \/ Covered(p.run, p.posted)'
                              \/ <<p.run, p.posted>> \in stepRejected'
  PROVE  \A r \in StepRuns : \A c \in CallsOf(r) : PullTaken(r, c) => PullTaken(r, c)'
BY DEF PullTaken, PastKept

(* A POST that moves on keeps its run, its number and its result.          *)
LEMMA PostMoves ==
  ASSUME PullTypeOK, NEW q \in stepPosts, NEW at \in Stages \ {"answered"},
         PostGoes(q, at)
  PROVE  /\ stepPosts' \subseteq
              [run : StepRuns, n : Nat, posted : AllCalls \union {NoStep}, at : Stages,
               body : AllCalls \union {NoStep, "done", "working"}]
         /\ PostsGoOn
         /\ [q EXCEPT !.at = at] \in stepPosts'
         /\ \A p \in stepPosts' : p \in stepPosts
              \/ (p.at = at /\ p.run = q.run /\ p.posted = q.posted)
         /\ \A p \in stepPosts : p = q \/ p \in stepPosts'
<1>1. q \in [run : StepRuns, n : Nat, posted : AllCalls \union {NoStep}, at : Stages,
             body : AllCalls \union {NoStep, "done", "working"}]
  BY DEF PullTypeOK
<1> DEFINE new == [q EXCEPT !.at = at]
<1>2. /\ new.run = q.run /\ new.n = q.n /\ new.posted = q.posted /\ new.at = at
      /\ new \in [run : StepRuns, n : Nat, posted : AllCalls \union {NoStep},
                  at : Stages, body : AllCalls \union {NoStep, "done", "working"}]
  BY <1>1
<1>3. stepPosts' = (stepPosts \ {q}) \union {new}
  BY DEF PostGoes
<1> HIDE DEF new
<1>4. \A p \in stepPosts' : p \in stepPosts \/ p = new
  BY <1>3
<1>5. PostsGoOn
  BY <1>2, <1>4 DEF PostsGoOn
<1>6. stepPosts' \subseteq
        [run : StepRuns, n : Nat, posted : AllCalls \union {NoStep}, at : Stages,
         body : AllCalls \union {NoStep, "done", "working"}]
  BY <1>2, <1>4 DEF PullTypeOK
<1> QED BY <1>2, <1>3, <1>4, <1>5, <1>6 DEF new

LEMMA HandleInv ==
  ASSUME CallsAreNamed, PullInv, UNCHANGED hands, UNCHANGED stepRejected,
         NEW q \in stepPosts, Handle(q)
  PROVE  PullInv'
<1>1. /\ stepPast' = stepPast /\ stepDue' = stepDue /\ stepEvictions' = stepEvictions
      /\ q.at = "arriving" /\ PullTypeOK /\ stepRejected' = stepRejected
  BY DEF Handle, PullInv
<1>2. q.run \in StepRuns /\ q.posted \in AllCalls \union {NoStep}
      /\ (q.posted # NoStep => q.posted \in CallsOf(q.run))
  BY <1>1 DEF PullInv, PullTypeOK, ResultsAreKnown, PullKnown
<1>3. PICK at \in {"resume", "enqueue", "answer"} :
        /\ PostGoes(q, at)
        /\ at \in {"resume", "enqueue"} => q.posted # NoStep
        /\ at = "resume" =>
             stepIntake' = [stepIntake EXCEPT ![q.posted] = "pending"]
        /\ at # "resume" => stepIntake' = stepIntake
        /\ at = "answer" /\ q.posted # NoStep =>
             Covered(q.run, q.posted) \/ stepIntake[q.posted] # "absent"
  <2>1. stepKnob.defers \in BOOLEAN
    BY <1>1 DEF PullTypeOK
  <2> QED BY <2>1 DEF Handle, KeyOf
<1>4. /\ stepPosts' \subseteq
           [run : StepRuns, n : Nat, posted : AllCalls \union {NoStep}, at : Stages,
            body : AllCalls \union {NoStep, "done", "working"}]
      /\ PostsGoOn
      /\ [q EXCEPT !.at = at] \in stepPosts'
      /\ \A p \in stepPosts' : p \in stepPosts
           \/ (p.at = at /\ p.run = q.run /\ p.posted = q.posted)
      /\ \A p \in stepPosts : p = q \/ p \in stepPosts'
  BY <1>1, <1>3, PostMoves DEF Stages
<1>5. PastKept /\ \A r, c : Covered(r, c)' <=> Covered(r, c)
  BY <1>1, PastStays
<1>6. PullTypeOK'
  <2>1. stepIntake' \in [StepRuns \union AllCalls -> {"absent", "pending", "done"}]
    BY <1>1, <1>2, <1>3 DEF PullTypeOK
  <2> QED BY <1>1, <1>4, <2>1 DEF PullTypeOK, hands
<1>7. ResultsAreKnown' /\ PullAnswersAreTrue' /\ RunsAreCounted'
  BY <1>1, <1>4, <1>5, HostKeeps
<1>8. \A r \in StepRuns : \A c \in CallsOf(r) : PullTaken(r, c) => PullTaken(r, c)'
  BY <1>1, <1>4, <1>5, TakenStays
<1>9. ResultsAreTaken'
  <2>1. at = "resume" => PullTaken(q.run, q.posted)'
    <3>1. q \in [run : StepRuns, n : Nat, posted : AllCalls \union {NoStep},
                 at : Stages, body : AllCalls \union {NoStep, "done", "working"}]
      BY <1>1 DEF PullTypeOK
    <3> DEFINE new == [q EXCEPT !.at = at]
    <3>2. new.run = q.run /\ new.posted = q.posted /\ new.at = at
      BY <3>1
    <3> HIDE DEF new
    <3> QED BY <1>4, <3>2 DEF PullTaken, new
  <2>2. ASSUME NEW r \in StepRuns, NEW c \in CallsOf(r), stepIntake'[c] # "absent"
        PROVE  PullTaken(r, c)'
    <3>1. CASE at = "resume" /\ c = q.posted
      <4>1. r = q.run
        BY <1>2, <1>3, <3>1 DEF CallsAreNamed
      <4> QED BY <2>1, <3>1, <4>1
    <3>2. CASE ~(at = "resume" /\ c = q.posted)
      <4>1. stepIntake[c] # "absent"
        BY <1>1, <1>3, <2>2, <3>2, CallsInRange DEF PullTypeOK
      <4> QED BY <1>8, <4>1 DEF PullInv, ResultsAreTaken
    <3> QED BY <3>1, <3>2
  <2>3. ASSUME NEW p \in stepPosts', p.at \in {"complete", "answer"},
               p.posted # NoStep
        PROVE  PullTaken(p.run, p.posted)'
    <3>1. CASE p \in stepPosts
      <4>1. PullKnown(p.run, p.posted) /\ p.run \in StepRuns
        BY <2>3, <3>1 DEF PullInv, PullTypeOK, ResultsAreKnown
      <4> QED BY <1>8, <2>3, <3>1, <4>1 DEF PullInv, ResultsAreTaken, PullKnown
    <3>2. CASE p.at = at /\ p.run = q.run /\ p.posted = q.posted
      <4>1. PullTaken(q.run, q.posted)
        BY <1>2, <1>3, <2>3, <3>2 DEF PullTaken, PullInv, ResultsAreTaken
      <4> QED BY <1>2, <1>8, <2>3, <3>2, <4>1
    <3> QED BY <1>4, <3>1, <3>2
  <2>4. \A p \in stepPosts' :
          p.at \in {"resume", "complete", "enqueue"} => p.posted # NoStep
    BY <1>3, <1>4 DEF PullInv, ResultsAreTaken
  <2> QED BY <2>2, <2>3, <2>4 DEF ResultsAreTaken
<1> QED BY <1>6, <1>7, <1>9 DEF PullInv

(* Where no key is taken in, what was taken stays, and a POST that moves   *)
(* has its result taken.                                                   *)
LEMMA TakenInv ==
  ASSUME PullInv, PastKept, UNCHANGED stepRan, stepRejected \subseteq stepRejected',
         \A p \in stepPosts :
           p.at = "resume" => \/ p \in stepPosts' \/ Covered(p.run, p.posted)'
                              \/ <<p.run, p.posted>> \in stepRejected',
         \A c \in AllCalls : stepIntake'[c] # "absent" => stepIntake[c] # "absent",
         \A p \in stepPosts' : p \in stepPosts \/
           /\ p.at \in {"complete", "answer"} /\ p.posted # NoStep =>
                PullTaken(p.run, p.posted)'
           /\ p.at \in {"resume", "complete", "enqueue"} => p.posted # NoStep
  PROVE  ResultsAreTaken'
<1>1. \A r \in StepRuns : \A c \in CallsOf(r) : PullTaken(r, c) => PullTaken(r, c)'
  BY TakenStays
<1>2. ASSUME NEW r \in StepRuns, NEW c \in CallsOf(r), stepIntake'[c] # "absent"
      PROVE  PullTaken(r, c)'
  <2>1. c \in AllCalls
    BY DEF AllCalls
  <2> QED BY <1>1, <1>2, <2>1 DEF PullInv, ResultsAreTaken
<1>3. ASSUME NEW p \in stepPosts'
      PROVE  /\ p.at \in {"complete", "answer"} /\ p.posted # NoStep =>
                  PullTaken(p.run, p.posted)'
             /\ p.at \in {"resume", "complete", "enqueue"} => p.posted # NoStep
  <2>1. CASE p \in stepPosts
    <3>1. p.posted # NoStep => p.run \in StepRuns /\ p.posted \in CallsOf(p.run)
      BY <2>1 DEF PullInv, PullTypeOK, ResultsAreKnown, PullKnown
    <3> QED BY <1>1, <2>1, <3>1 DEF PullInv, ResultsAreTaken
  <2>2. CASE p \notin stepPosts
    BY <2>2
  <2> QED BY <2>1, <2>2
<1> QED BY <1>2, <1>3 DEF ResultsAreTaken

LEMMA ResumeInv ==
  ASSUME CallsAreNamed, PullInv, UNCHANGED hands, NEW q \in stepPosts,
         (ResumeLands(q) /\ UNCHANGED stepRejected) \/ ResumeRejects(q)
  PROVE  PullInv'
<1>1. /\ stepDue' = stepDue /\ stepIntake' = stepIntake
      /\ stepEvictions' = stepEvictions /\ q.at = "resume" /\ PullTypeOK
  BY DEF ResumeLands, ResumeRejects, PullInv
<1>2. q.run \in StepRuns /\ q.posted \in CallsOf(q.run) /\ q.posted # NoStep
      /\ Reached(q.run, q.posted) /\ stepRan[q.run][q.posted] > 0
  BY <1>1 DEF PullInv, PullTypeOK, ResultsAreTaken, ResultsAreKnown, PullKnown
<1>3. CASE ResumeLands(q) /\ UNCHANGED stepRejected
  <2>1. AdvanceRun(q.run, q.posted) /\ PostGoes(q, "complete")
    BY <1>3 DEF ResumeLands
  <2>2. /\ stepPast' \in [StepRuns -> Nat]
        /\ \A s \in StepRuns : stepPast'[s] <= Len(StepCalls[s])
        /\ PastKept /\ Covered(q.run, q.posted)'
        /\ \A s \in StepRuns : \A e \in CallsOf(s) :
             Covered(s, e)' => Covered(s, e) \/ (s = q.run /\ e = q.posted)
    BY <1>1, <1>2, <2>1, AdvanceKeeps
  <2>3. /\ stepPosts' \subseteq
             [run : StepRuns, n : Nat, posted : AllCalls \union {NoStep}, at : Stages,
              body : AllCalls \union {NoStep, "done", "working"}]
        /\ PostsGoOn
        /\ \A p \in stepPosts' : p \in stepPosts
             \/ (p.at = "complete" /\ p.run = q.run /\ p.posted = q.posted)
        /\ \A p \in stepPosts : p = q \/ p \in stepPosts'
    BY <1>1, <2>1, PostMoves DEF Stages
  <2>4. PullTypeOK'
    BY <1>1, <2>2, <2>3 DEF PullTypeOK, hands
  <2>5. ResultsAreKnown' /\ PullAnswersAreTrue' /\ RunsAreCounted'
    BY <1>1, <1>2, <2>2, <2>3, HostKeeps
  <2>6. ResultsAreTaken'
    <3>1. PullTaken(q.run, q.posted)'
      BY <2>2 DEF PullTaken
    <3> QED BY <1>1, <1>2, <1>3, <2>2, <2>3, <3>1, TakenInv DEF hands
  <2> QED BY <2>4, <2>5, <2>6 DEF PullInv
<1>4. CASE ResumeRejects(q)
  <2>1. /\ stepPast' = stepPast /\ stepPosts' = stepPosts \ {q}
        /\ stepRejected' = stepRejected \union {<<q.run, q.posted>>}
    BY <1>4 DEF ResumeRejects
  <2>2. PastKept /\ \A r, c : Covered(r, c)' <=> Covered(r, c)
    BY <2>1, PastStays
  <2>3. PullTypeOK'
    BY <1>1, <2>1 DEF PullTypeOK, hands
  <2>4. PostsGoOn
    BY <2>1 DEF PostsGoOn
  <2>5. ResultsAreKnown' /\ PullAnswersAreTrue' /\ RunsAreCounted'
    BY <1>1, <2>2, <2>4, HostKeeps
  <2>6. ResultsAreTaken'
    BY <1>1, <2>1, <2>2, TakenInv DEF hands
  <2> QED BY <2>3, <2>5, <2>6 DEF PullInv
<1> QED BY <1>3, <1>4

LEMMA CompleteInv ==
  ASSUME CallsAreNamed, PullInv, UNCHANGED hands, UNCHANGED stepRejected,
         NEW q \in stepPosts, Complete(q)
  PROVE  PullInv'
<1>1. /\ stepPast' = stepPast /\ stepDue' = stepDue /\ stepEvictions' = stepEvictions
      /\ q.at = "complete" /\ PullTypeOK /\ PostGoes(q, "answer")
      /\ stepIntake' = [stepIntake EXCEPT ![q.posted] = "done"]
  BY DEF Complete, PullInv, KeyOf
<1>2. q.run \in StepRuns /\ q.posted \in CallsOf(q.run) /\ q.posted # NoStep
      /\ PullTaken(q.run, q.posted)
  BY <1>1 DEF PullInv, PullTypeOK, ResultsAreTaken, ResultsAreKnown, PullKnown
<1>3. PastKept /\ \A r, c : Covered(r, c)' <=> Covered(r, c)
  BY <1>1, PastStays
<1>4. /\ stepPosts' \subseteq
           [run : StepRuns, n : Nat, posted : AllCalls \union {NoStep}, at : Stages,
            body : AllCalls \union {NoStep, "done", "working"}]
      /\ PostsGoOn
      /\ \A p \in stepPosts' : p \in stepPosts
           \/ (p.at = "answer" /\ p.run = q.run /\ p.posted = q.posted)
      /\ \A p \in stepPosts : p = q \/ p \in stepPosts'
  BY <1>1, PostMoves DEF Stages
<1>5. PullTypeOK'
  <2>1. stepIntake' \in [StepRuns \union AllCalls -> {"absent", "pending", "done"}]
    BY <1>1 DEF PullTypeOK
  <2> QED BY <1>1, <1>4, <2>1 DEF PullTypeOK, hands
<1>6. ResultsAreKnown' /\ PullAnswersAreTrue' /\ RunsAreCounted'
  BY <1>1, <1>3, <1>4, HostKeeps
<1>7. \A r \in StepRuns : \A c \in CallsOf(r) : PullTaken(r, c) => PullTaken(r, c)'
  BY <1>1, <1>3, <1>4, TakenStays
<1>8. ASSUME NEW r \in StepRuns, NEW c \in CallsOf(r), stepIntake'[c] # "absent"
      PROVE  PullTaken(r, c)'
  <2>1. CASE c = q.posted
    <3>1. r = q.run
      BY <1>2, <2>1 DEF CallsAreNamed
    <3> QED BY <1>2, <1>7, <2>1, <3>1
  <2>2. CASE c # q.posted
    <3>1. stepIntake[c] # "absent"
      BY <1>1, <1>8, <2>2, CallsInRange DEF PullTypeOK
    <3> QED BY <1>7, <3>1 DEF PullInv, ResultsAreTaken
  <2> QED BY <2>1, <2>2
<1>9. ASSUME NEW p \in stepPosts'
      PROVE  /\ p.at \in {"complete", "answer"} /\ p.posted # NoStep =>
                  PullTaken(p.run, p.posted)'
             /\ p.at \in {"resume", "complete", "enqueue"} => p.posted # NoStep
  <2>1. CASE p \in stepPosts
    <3>1. p.posted # NoStep => p.run \in StepRuns /\ p.posted \in CallsOf(p.run)
      BY <2>1 DEF PullInv, PullTypeOK, ResultsAreKnown, PullKnown
    <3> QED BY <1>7, <2>1, <3>1 DEF PullInv, ResultsAreTaken
  <2>2. CASE p.at = "answer" /\ p.run = q.run /\ p.posted = q.posted
    BY <1>2, <1>7, <2>2
  <2> QED BY <1>4, <2>1, <2>2
<1> QED BY <1>5, <1>6, <1>8, <1>9 DEF PullInv, ResultsAreTaken

LEMMA EnqueueInv ==
  ASSUME CallsAreNamed, PullInv, UNCHANGED hands, UNCHANGED stepRejected,
         NEW q \in stepPosts, EnqueueResult(q)
  PROVE  PullInv'
<1>1. /\ stepPast' = stepPast /\ stepIntake' = stepIntake
      /\ stepEvictions' = stepEvictions /\ q.at = "enqueue" /\ PullTypeOK
      /\ stepDue' \in {stepDue, stepDue \union {<<q.run, q.posted>>}}
  BY DEF EnqueueResult, PullInv
<1> DEFINE new == [q EXCEPT !.at = "answered", !.body = "working"]
<1>2. q.run \in StepRuns /\ q.posted \in AllCalls /\ q.posted # NoStep
  BY <1>1 DEF PullInv, PullTypeOK, ResultsAreTaken
<1>3. PastKept /\ \A r, c : Covered(r, c)' <=> Covered(r, c)
  BY <1>1, PastStays
<1>4. /\ new \in [run : StepRuns, n : Nat, posted : AllCalls \union {NoStep},
                  at : Stages, body : AllCalls \union {NoStep, "done", "working"}]
      /\ new.run = q.run /\ new.n = q.n /\ new.posted = q.posted
      /\ new.at = "answered" /\ new.body = "working"
  <2>1. q \in [run : StepRuns, n : Nat, posted : AllCalls \union {NoStep},
               at : Stages, body : AllCalls \union {NoStep, "done", "working"}]
    BY <1>1 DEF PullTypeOK
  <2> QED BY ONLY <2>1 DEF Stages
<1>5. stepPosts' = (stepPosts \ {q}) \union {new}
  BY DEF EnqueueResult
<1> HIDE DEF new
<1>6. PostsGoOn
  BY <1>4, <1>5 DEF PostsGoOn
<1>7. PullTypeOK'
  <2>1. stepDue' \subseteq StepRuns \X AllCalls
    BY <1>1, <1>2 DEF PullTypeOK
  <2>2. stepPosts' \subseteq
          [run : StepRuns, n : Nat, posted : AllCalls \union {NoStep}, at : Stages,
           body : AllCalls \union {NoStep, "done", "working"}]
    BY <1>1, <1>4, <1>5 DEF PullTypeOK
  <2> QED BY <1>1, <2>1, <2>2 DEF PullTypeOK, hands
<1>8. ResultsAreKnown' /\ PullAnswersAreTrue' /\ RunsAreCounted'
  BY <1>1, <1>2, <1>3, <1>6, HostKeeps
<1>9. ResultsAreTaken'
  BY <1>1, <1>3, <1>4, <1>5, TakenInv DEF hands
<1> QED BY <1>7, <1>8, <1>9 DEF PullInv

LEMMA ComputeInv ==
  ASSUME CallsAreNamed, PullInv, UNCHANGED hands, UNCHANGED stepRejected,
         NEW d \in stepDue, Compute(d)
  PROVE  PullInv'
<1>1. /\ stepPosts' = stepPosts /\ stepIntake' = stepIntake
      /\ stepEvictions' = stepEvictions /\ PullTypeOK
      /\ stepDue' = stepDue \ {d} /\ AdvanceRun(d[1], d[2])
  BY DEF Compute, PullInv
<1>2. d[1] \in StepRuns /\ d[2] \in CallsOf(d[1]) /\ stepRan[d[1]][d[2]] > 0
  BY <1>1 DEF PullInv, PullTypeOK, ResultsAreKnown, PullKnown
<1>3. /\ stepPast' \in [StepRuns -> Nat]
      /\ \A s \in StepRuns : stepPast'[s] <= Len(StepCalls[s])
      /\ PastKept
      /\ \A s \in StepRuns : \A e \in CallsOf(s) :
           Covered(s, e)' => Covered(s, e) \/ (s = d[1] /\ e = d[2])
  BY <1>1, <1>2, AdvanceKeeps
<1>4. PullTypeOK'
  BY <1>1, <1>3 DEF PullTypeOK, hands
<1>5. PostsGoOn
  BY <1>1 DEF PostsGoOn
<1>6. ResultsAreKnown' /\ PullAnswersAreTrue' /\ RunsAreCounted'
  BY <1>1, <1>2, <1>3, <1>5, HostKeeps
<1>7. ResultsAreTaken'
  BY <1>1, <1>3, TakenInv DEF hands
<1> QED BY <1>4, <1>6, <1>7 DEF PullInv

LEMMA AnswerInv ==
  ASSUME CallsAreNamed, PullInv, UNCHANGED hands, UNCHANGED stepRejected,
         NEW q \in stepPosts, Answer(q)
  PROVE  PullInv'
<1>1. /\ stepPast' = stepPast /\ stepIntake' = stepIntake /\ stepDue' = stepDue
      /\ stepEvictions' = stepEvictions /\ q.at = "answer" /\ PullTypeOK
  BY DEF Answer, PullInv
<1> DEFINE new == [q EXCEPT !.at = "answered", !.body = NextStepOf(q.run)]
<1>2. q.run \in StepRuns
  BY <1>1 DEF PullTypeOK
<1>3. PastKept /\ \A r, c : Covered(r, c)' <=> Covered(r, c)
  BY <1>1, PastStays
<1>4. /\ new \in [run : StepRuns, n : Nat, posted : AllCalls \union {NoStep},
                  at : Stages, body : AllCalls \union {NoStep, "done", "working"}]
      /\ new.run = q.run /\ new.n = q.n /\ new.posted = q.posted
      /\ new.at = "answered" /\ new.body = NextStepOf(q.run)
  <2>1. q \in [run : StepRuns, n : Nat, posted : AllCalls \union {NoStep},
               at : Stages, body : AllCalls \union {NoStep, "done", "working"}]
    BY <1>1 DEF PullTypeOK
  <2>2. NextStepOf(q.run) \in AllCalls \union {"done"}
    BY <1>1, <1>2, NextStepType, CallsInRange
  <2> QED BY ONLY <2>1, <2>2 DEF Stages
<1>5. stepPosts' = (stepPosts \ {q}) \union {new}
  BY DEF Answer
<1> HIDE DEF new
<1>6. PostsGoOn
  BY <1>4, <1>5 DEF PostsGoOn
<1>7. PullTypeOK'
  <2>1. stepPosts' \subseteq
          [run : StepRuns, n : Nat, posted : AllCalls \union {NoStep}, at : Stages,
           body : AllCalls \union {NoStep, "done", "working"}]
    BY <1>1, <1>4, <1>5 DEF PullTypeOK
  <2> QED BY <1>1, <2>1 DEF PullTypeOK, hands
<1>8. ResultsAreKnown' /\ PullAnswersAreTrue' /\ RunsAreCounted'
  BY <1>1, <1>3, <1>6, HostKeeps
<1>9. ResultsAreTaken'
  BY <1>1, <1>3, <1>4, <1>5, TakenInv DEF hands
<1> QED BY <1>7, <1>8, <1>9 DEF PullInv

(* An eviction empties the ledger, and leaves no POST whose result it took. *)
LEMMA EvictHostInv ==
  ASSUME CallsAreNamed, PullInv, UNCHANGED hands, EvictHost
  PROVE  PullInv'
<1>1. /\ stepPast' = stepPast /\ stepDue' = stepDue /\ PullTypeOK
      /\ stepIntake' = [k \in DOMAIN stepIntake |-> "absent"]
      /\ stepEvictions' = stepEvictions + 1
      /\ stepPosts' \subseteq stepPosts
      /\ \A q \in stepPosts' : q.at \in {"arriving", "answered"}
  BY DEF EvictHost, PullInv
<1>2. PastKept /\ \A r, c : Covered(r, c)' <=> Covered(r, c)
  BY <1>1, PastStays
<1>3. PullTypeOK'
  BY <1>1 DEF PullTypeOK, hands
<1>4. PostsGoOn
  BY <1>1 DEF PostsGoOn
<1>5. ResultsAreKnown' /\ PullAnswersAreTrue' /\ RunsAreCounted'
  BY <1>1, <1>2, <1>4, HostKeeps
<1>6. ResultsAreTaken'
  <2>1. \A r \in StepRuns : \A c \in CallsOf(r) : stepIntake'[c] = "absent"
    BY <1>1 DEF PullTypeOK, AllCalls
  <2> QED BY <1>1, <2>1 DEF ResultsAreTaken
<1> QED BY <1>3, <1>5, <1>6 DEF PullInv

LEMMA HostInv ==
  ASSUME CallsAreNamed, PullInv, HostNext
  PROVE  PullInv'
<1>1. UNCHANGED hands
  BY DEF HostNext, hands
<1>2. CASE EvictHost
  BY <1>1, <1>2, EvictHostInv
<1>3. ASSUME NEW q \in stepPosts, ResumeRejects(q)
      PROVE  PullInv'
  BY <1>1, <1>3, ResumeInv
<1>4. ASSUME NEW q \in stepPosts, UNCHANGED stepRejected,
             \/ Handle(q) \/ ResumeLands(q) \/ Complete(q)
             \/ EnqueueResult(q) \/ Answer(q)
      PROVE  PullInv'
  BY <1>1, <1>4, HandleInv, ResumeInv, CompleteInv, EnqueueInv, AnswerInv
<1>5. ASSUME NEW d \in stepDue, UNCHANGED stepRejected, Compute(d)
      PROVE  PullInv'
  BY <1>1, <1>5, ComputeInv
<1> QED BY <1>2, <1>3, <1>4, <1>5 DEF HostNext

-----------------------------------------------------------------------------
(* The hands.                                                              *)

host == <<stepKnob, stepPast, stepDue, stepIntake, stepEvictions, stepRejected>>

(* The hands take nothing from the host, so what it took stays, while the  *)
(* POSTs in resume() do.                                                   *)
LEMMA HandsTakeNothing ==
  ASSUME PullInv, UNCHANGED host,
         \A p \in stepPosts : p.at = "resume" => p \in stepPosts',
         \A p \in stepPosts' : p \in stepPosts \/ p.at = "arriving"
  PROVE  ResultsAreTaken'
<1>1. \A r, c : PullTaken(r, c) => PullTaken(r, c)'
  BY DEF host, PullTaken, Covered
<1> QED BY <1>1 DEF PullInv, ResultsAreTaken, host

LEMMA AskInv ==
  ASSUME CallsAreNamed, PullInv, UNCHANGED host, NEW r \in StepRuns, Ask(r)
  PROVE  PullInv'
<1> DEFINE n == stepCount.posts + 1
           new == Post(r, n, stepHands[r].call)
<1>1. /\ stepHands[r].pc = "ask" /\ PullTypeOK
      /\ stepCount' = [stepCount EXCEPT !.posts = n]
      /\ stepPosts' = stepPosts \union {new}
      /\ stepHands' = [stepHands EXCEPT ![r] = Drive("wait", stepHands[r].call, n)]
      /\ UNCHANGED <<stepKnob, stepPast, stepDue, stepIntake, stepEvictions,
                     stepRejected, stepSaved, stepRan, stepCut>>
  BY DEF Ask, HandsAre, host, PullInv
<1>2. /\ stepHands[r].call \in AllCalls \union {NoStep} /\ n \in Nat
      /\ stepCount.posts \in Nat
      /\ stepHands[r].call # NoStep => PullKnown(r, stepHands[r].call)
  BY <1>1 DEF PullTypeOK, PullInv, ResultsAreKnown
<1>3. /\ new \in [run : StepRuns, n : Nat, posted : AllCalls \union {NoStep},
                  at : Stages, body : AllCalls \union {NoStep, "done", "working"}]
      /\ new.run = r /\ new.n = n /\ new.posted = stepHands[r].call
      /\ new.at = "arriving"
  BY <1>2 DEF Post, Stages
<1>4. /\ stepCount'.posts = n /\ stepCount'.again = stepCount.again
      /\ stepCount' \in [posts : Nat, again : [StepRuns -> Nat]]
  BY <1>1, <1>2 DEF PullTypeOK
<1>5. /\ stepHands' \in [StepRuns -> [pc : Pcs, call : AllCalls \union {NoStep}, n : Nat]]
      /\ stepHands'[r] = [pc |-> "wait", call |-> stepHands[r].call, n |-> n]
      /\ \A s \in StepRuns \ {r} : stepHands'[s] = stepHands[s]
  BY <1>1, <1>2 DEF PullTypeOK, Drive, Pcs
<1> HIDE DEF new, n
<1>6. PullTypeOK'
  <2>1. stepPosts' \subseteq
          [run : StepRuns, n : Nat, posted : AllCalls \union {NoStep}, at : Stages,
           body : AllCalls \union {NoStep, "done", "working"}]
    BY <1>1, <1>3 DEF PullTypeOK
  <2> QED BY <1>1, <1>4, <1>5, <2>1 DEF PullTypeOK
<1>7. \A s, c : /\ Covered(s, c)' <=> Covered(s, c)
                /\ Reached(s, c)' <=> Reached(s, c)
                /\ PullKnown(s, c)' <=> PullKnown(s, c)
                /\ NextStepOf(s)' = NextStepOf(s)
  BY <1>1 DEF Covered, Reached, PullKnown, NextStepOf
<1>8. ResultsAreKnown'
  BY <1>1, <1>2, <1>3, <1>5, <1>7 DEF PullInv, ResultsAreKnown
<1>9. PullAnswersAreTrue'
  <2>1. \A q \in stepPosts' : q \in stepPosts \/ q = new
    BY <1>1
  <2>2. \A q \in stepPosts' :
          q.at = "answered" /\ q.body # "working" =>
            IF q.body = "done" THEN NextStepOf(q.run)' = "done"
              ELSE q.body \in CallsOf(q.run) /\ Reached(q.run, q.body)'
    BY <1>3, <1>7, <2>1 DEF PullInv, PullAnswersAreTrue
  <2>3. \A q \in stepPosts' : q.n <= n
    <3>1. \A q \in stepPosts : q.n \in Nat /\ q.n <= stepCount.posts
      BY <1>1 DEF PullInv, PullAnswersAreTrue, PullTypeOK
    <3> QED BY <1>2, <1>3, <2>1, <3>1 DEF n
  <2>4. ASSUME NEW s \in StepRuns
        PROVE  /\ stepHands'[s].n <= n
               /\ stepHands'[s].pc = "run" =>
                    /\ stepHands'[s].call \in CallsOf(s) \ stepSaved[s]
                    /\ Reached(s, stepHands'[s].call)
               /\ stepHands'[s].pc = "done" => NextStepOf(s) = "done"
    <3>1. stepHands[s].n \in Nat /\ stepHands[s].n <= stepCount.posts
      BY <1>1 DEF PullInv, PullAnswersAreTrue, PullTypeOK
    <3> QED BY <1>2, <1>5, <3>1 DEF n, PullInv, PullAnswersAreTrue
  <2>5. ASSUME NEW s \in StepRuns, stepHands'[s].pc = "wait",
               NEW q \in stepPosts', q.n = stepHands'[s].n
        PROVE  q.run = s
    <3>1. CASE s = r
      <4>1. \A p \in stepPosts : p.n \in Nat /\ p.n <= stepCount.posts
        BY <1>1 DEF PullInv, PullAnswersAreTrue, PullTypeOK
      <4>2. q = new
        BY <1>2, <1>5, <2>1, <2>5, <3>1, <4>1 DEF n
      <4> QED BY <1>3, <3>1, <4>2
    <3>2. CASE s # r
      <4>1. stepHands[s].n \in Nat /\ stepHands[s].n <= stepCount.posts
        BY <1>1 DEF PullInv, PullAnswersAreTrue, PullTypeOK
      <4>2. q # new
        BY <1>2, <1>3, <1>5, <2>5, <3>2, <4>1 DEF n
      <4> QED BY <1>5, <2>1, <2>5, <3>2, <4>2 DEF PullInv, PullAnswersAreTrue
    <3> QED BY <3>1, <3>2
  <2> QED BY <1>1, <1>4, <1>7, <2>2, <2>3, <2>4, <2>5 DEF PullAnswersAreTrue
<1>10. RunsAreCounted'
  BY <1>1, <1>4, <1>5 DEF PullInv, RunsAreCounted, ResultsKept
<1>11. ResultsAreTaken'
  BY <1>1, <1>3, HandsTakeNothing
<1> QED BY <1>6, <1>8, <1>9, <1>10, <1>11 DEF PullInv

\* Where a drive d of run r may go, short of a POST.
GoesTo(r, d) ==
  /\ d \in [pc : Pcs \ {"wait"}, call : AllCalls \union {NoStep}, n : {0}]
  /\ d.pc \in {"ask", "save"} /\ d.call # NoStep =>
       /\ d.call \in CallsOf(r) /\ stepRan'[r][d.call] > 0
       /\ Reached(r, d.call)
  /\ d.pc = "save" => d.call # NoStep
  /\ d.pc = "run" => d.call \in CallsOf(r) \ stepSaved'[r] /\ Reached(r, d.call)
  /\ d.pc = "done" => NextStepOf(r) = "done"

(* A drive that hears, runs or remembers, or begins again.                 *)
LEMMA HandsMove ==
  ASSUME PullInv, PullTypeOK', UNCHANGED host, NEW r \in StepRuns, NEW new,
         stepHands' = [stepHands EXCEPT ![r] = new], GoesTo(r, new),
         stepPosts' \subseteq stepPosts,
         \A p \in stepPosts : p.at = "resume" => p \in stepPosts',
         stepCount'.posts = stepCount.posts,
         \A s \in StepRuns : \A c \in CallsOf(s) : stepRan'[s][c] >= stepRan[s][c],
         \A s \in StepRuns \ {r} : stepSaved'[s] = stepSaved[s],
         \A c \in stepSaved'[r] : c \in CallsOf(r) /\ stepRan'[r][c] > 0
  PROVE  ResultsAreKnown' /\ PullAnswersAreTrue' /\ ResultsAreTaken'
<1>1. /\ UNCHANGED <<stepKnob, stepPast, stepDue, stepIntake, stepEvictions,
                     stepRejected>>
      /\ PullTypeOK
  BY DEF host, PullInv
<1>2. /\ stepHands'[r] = new /\ \A s \in StepRuns \ {r} : stepHands'[s] = stepHands[s]
      /\ stepCount.posts \in Nat
  BY <1>1 DEF PullTypeOK
<1>3. \A s \in StepRuns : \A c :
        /\ Covered(s, c)' <=> Covered(s, c)
        /\ Reached(s, c)' <=> Reached(s, c)
        /\ NextStepOf(s)' = NextStepOf(s)
  BY <1>1 DEF Covered, Reached, NextStepOf
<1>4. \A s \in StepRuns : \A c \in CallsOf(s) :
        /\ stepRan[s][c] \in Nat /\ stepRan'[s][c] \in Nat
        /\ stepRan[s][c] > 0 => stepRan'[s][c] > 0
  BY <1>1 DEF PullTypeOK
<1>5. \A s \in StepRuns : \A c : PullKnown(s, c) => PullKnown(s, c)'
  BY <1>3, <1>4 DEF PullKnown
<1>6. ResultsAreKnown'
  <2>1. \A q \in stepPosts' : q.posted # NoStep => PullKnown(q.run, q.posted)'
    BY <1>1, <1>5 DEF PullInv, PullTypeOK, ResultsAreKnown
  <2>2. \A d \in stepDue' : PullKnown(d[1], d[2])'
    BY <1>1, <1>5 DEF PullInv, PullTypeOK, ResultsAreKnown
  <2>3. ASSUME NEW s \in StepRuns
        PROVE  /\ stepHands'[s].pc \in {"ask", "wait", "save"}
                    /\ stepHands'[s].call # NoStep =>
                    /\ stepHands'[s].call \in CallsOf(s)
                    /\ stepRan'[s][stepHands'[s].call] > 0
                    /\ Reached(s, stepHands'[s].call)
               /\ stepHands'[s].pc = "save" => stepHands'[s].call # NoStep
               /\ \A c \in stepSaved'[s] : c \in CallsOf(s) /\ stepRan'[s][c] > 0
               /\ \A c \in CallsOf(s) : Covered(s, c) => stepRan'[s][c] > 0
    <3>1. CASE s = r
      BY <1>2, <1>4, <3>1 DEF PullInv, ResultsAreKnown, GoesTo, Pcs
    <3>2. CASE s # r
      BY <1>2, <1>4, <3>2 DEF PullInv, ResultsAreKnown, PullKnown
    <3> QED BY <3>1, <3>2
  <2> QED BY <1>3, <2>1, <2>2, <2>3 DEF ResultsAreKnown, PullKnown
<1>7. PullAnswersAreTrue'
  <2>1. \A q \in stepPosts' :
          q.at = "answered" /\ q.body # "working" =>
            IF q.body = "done" THEN NextStepOf(q.run) = "done"
              ELSE q.body \in CallsOf(q.run) /\ Reached(q.run, q.body)
    BY DEF PullInv, PullAnswersAreTrue
  <2>2. \A q \in stepPosts' : q.n <= stepCount'.posts /\ q.run \in StepRuns
    BY <1>1 DEF PullInv, PullAnswersAreTrue, PullTypeOK
  <2>3. ASSUME NEW s \in StepRuns
        PROVE  /\ stepHands'[s].n <= stepCount'.posts
               /\ stepHands'[s].pc = "run" =>
                    /\ stepHands'[s].call \in CallsOf(s) \ stepSaved'[s]
                    /\ Reached(s, stepHands'[s].call)
               /\ stepHands'[s].pc = "done" => NextStepOf(s) = "done"
               /\ stepHands'[s].pc = "wait" =>
                    \A q \in stepPosts' : q.n = stepHands'[s].n => q.run = s
    <3>1. CASE s = r
      BY <1>2, <3>1 DEF GoesTo, Pcs
    <3>2. CASE s # r
      BY <1>2, <3>2 DEF PullInv, PullAnswersAreTrue
    <3> QED BY <3>1, <3>2
  <2> HIDE DEF PullInv
  <2> QED BY ONLY <1>3, <2>1, <2>2, <2>3 DEF PullAnswersAreTrue
<1>8. ResultsAreTaken'
  BY HandsTakeNothing
<1> QED BY <1>6, <1>7, <1>8

LEMMA FailsInv ==
  ASSUME CallsAreNamed, PullInv, UNCHANGED host, NEW r \in StepRuns,
         TransportFails(r)
  PROVE  PullInv'
<1> DEFINE new == Drive("ask", stepHands[r].call, 0)
<1>1. /\ stepHands[r].pc = "wait" /\ PullTypeOK
      /\ stepHands' = [stepHands EXCEPT ![r] = new]
      /\ UNCHANGED <<stepKnob, stepPast, stepDue, stepIntake, stepEvictions,
                     stepRejected, stepPosts, stepSaved, stepCount, stepRan, stepCut>>
  BY DEF TransportFails, HandsAre, host, PullInv
<1>2. /\ new \in [pc : Pcs, call : AllCalls \union {NoStep}, n : Nat]
      /\ new.pc = "ask" /\ new.call = stepHands[r].call /\ new.n = 0
  BY <1>1 DEF PullTypeOK, Drive, Pcs
<1> HIDE DEF new
<1>3. PullTypeOK'
  BY <1>1, <1>2 DEF PullTypeOK
<1>4. RunsAreCounted'
  BY <1>1, <1>2 DEF PullInv, PullTypeOK, RunsAreCounted, ResultsKept
<1>5. stepCount.posts \in Nat
      /\ \A s \in StepRuns : \A c \in CallsOf(s) : stepRan[s][c] \in Nat
  BY <1>1 DEF PullTypeOK
<1>6. /\ \A c \in stepSaved[r] : c \in CallsOf(r) /\ stepRan[r][c] > 0
      /\ new.call # NoStep => PullKnown(r, new.call)
  BY <1>1, <1>2 DEF PullInv, ResultsAreKnown
<1>7. ResultsAreKnown' /\ PullAnswersAreTrue' /\ ResultsAreTaken'
  <2>1. GoesTo(r, new)
    BY <1>1, <1>2, <1>6 DEF GoesTo, PullKnown, Pcs
  <2>2. \A s \in StepRuns : \A c \in CallsOf(s) : stepRan'[s][c] >= stepRan[s][c]
    BY <1>1, <1>5
  <2>3. \A c \in stepSaved'[r] : c \in CallsOf(r) /\ stepRan'[r][c] > 0
    BY <1>1, <1>6
  <2> QED BY <1>1, <1>3, <2>1, <2>2, <2>3, HandsMove
<1> QED BY <1>3, <1>4, <1>7 DEF PullInv

LEMMA HearInv ==
  ASSUME CallsAreNamed, PullInv, UNCHANGED host, NEW r \in StepRuns, HearAnswer(r)
  PROVE  PullInv'
<1>1. PICK q \in stepPosts :
        /\ stepHands[r].pc = "wait" /\ q.at = "answered" /\ q.n = stepHands[r].n
        /\ stepPosts' = stepPosts \ {q}
        /\ CASE q.body = "done" -> HandsAre(r, "done", NoStep, 0)
             [] q.body = "working" -> HandsAre(r, "ask", stepHands[r].call, 0)
             [] q.body \in stepSaved[r] -> HandsAre(r, "ask", q.body, 0)
             [] OTHER -> HandsAre(r, "run", q.body, 0)
        /\ UNCHANGED <<stepSaved, stepCount, stepRan, stepCut>>
  BY DEF HearAnswer
<1>2. /\ UNCHANGED <<stepKnob, stepPast, stepDue, stepIntake, stepEvictions,
                     stepRejected>>
      /\ PullTypeOK
  BY DEF host, PullInv
<1>3. q.run = r
  BY <1>1 DEF PullInv, PullAnswersAreTrue
<1>4. q.body # "working" =>
        IF q.body = "done" THEN NextStepOf(r) = "done"
          ELSE q.body \in CallsOf(r) /\ Reached(r, q.body)
  BY <1>1, <1>3 DEF PullInv, PullAnswersAreTrue
<1>5. stepCount.posts \in Nat
      /\ \A s \in StepRuns : \A c \in CallsOf(s) : stepRan[s][c] \in Nat
  BY <1>2 DEF PullTypeOK
<1>6. /\ \A c \in stepSaved[r] : c \in CallsOf(r) /\ stepRan[r][c] > 0
      /\ stepHands[r].call # NoStep => PullKnown(r, stepHands[r].call)
  BY <1>1 DEF PullInv, ResultsAreKnown
<1>7. PICK new : /\ stepHands' = [stepHands EXCEPT ![r] = new] /\ GoesTo(r, new)
                 /\ new.pc # "save"
  <2>1. /\ CallsOf(r) \subseteq AllCalls
        /\ stepHands[r].call \in AllCalls \union {NoStep}
    BY <1>2, CallsInRange DEF PullTypeOK
  <2>2. CASE q.body = "done" /\ HandsAre(r, "done", NoStep, 0)
    <3> DEFINE w == [pc |-> "done", call |-> NoStep, n |-> 0]
    <3>1. stepHands' = [stepHands EXCEPT ![r] = w]
      BY <2>2 DEF HandsAre, Drive
    <3>2. GoesTo(r, w) /\ w.pc # "save"
      BY <1>4, <2>2 DEF GoesTo, Pcs
    <3> HIDE DEF w
    <3> QED BY <3>1, <3>2
  <2>3. CASE q.body = "working" /\ HandsAre(r, "ask", stepHands[r].call, 0)
    <3> DEFINE w == [pc |-> "ask", call |-> stepHands[r].call, n |-> 0]
    <3>1. stepHands' = [stepHands EXCEPT ![r] = w]
      BY <2>3 DEF HandsAre, Drive
    <3>2. GoesTo(r, w) /\ w.pc # "save"
      BY <1>1, <1>6, <2>1 DEF GoesTo, Pcs, PullKnown
    <3> HIDE DEF w
    <3> QED BY <3>1, <3>2
  <2>4. CASE /\ q.body \notin {"done", "working"}
             /\ q.body \in stepSaved[r] /\ HandsAre(r, "ask", q.body, 0)
    <3> DEFINE w == [pc |-> "ask", call |-> q.body, n |-> 0]
    <3>1. stepHands' = [stepHands EXCEPT ![r] = w]
      BY <2>4 DEF HandsAre, Drive
    <3>2. PullKnown(r, q.body)
      BY <1>4, <1>6, <2>4 DEF PullKnown
    <3>3. GoesTo(r, w) /\ w.pc # "save"
      BY <1>1, <2>1, <3>2 DEF GoesTo, Pcs, PullKnown
    <3> HIDE DEF w
    <3> QED BY <3>1, <3>3
  <2>5. CASE /\ q.body \notin {"done", "working"}
             /\ q.body \notin stepSaved[r] /\ HandsAre(r, "run", q.body, 0)
    <3> DEFINE w == [pc |-> "run", call |-> q.body, n |-> 0]
    <3>1. stepHands' = [stepHands EXCEPT ![r] = w]
      BY <2>5 DEF HandsAre, Drive
    <3>2. GoesTo(r, w) /\ w.pc # "save"
      BY <1>1, <1>4, <2>1, <2>5 DEF GoesTo, Pcs
    <3> HIDE DEF w
    <3> QED BY <3>1, <3>2
  <2>6. \/ q.body = "done" /\ HandsAre(r, "done", NoStep, 0)
        \/ q.body = "working" /\ HandsAre(r, "ask", stepHands[r].call, 0)
        \/ /\ q.body \notin {"done", "working"} /\ q.body \in stepSaved[r]
           /\ HandsAre(r, "ask", q.body, 0)
        \/ /\ q.body \notin {"done", "working"} /\ q.body \notin stepSaved[r]
           /\ HandsAre(r, "run", q.body, 0)
    <3>1. "done" \notin stepSaved[r] /\ "working" \notin stepSaved[r]
      BY <1>6, <2>1 DEF CallsAreNamed
    <3> QED BY <1>1, <3>1
  <2> QED BY <2>2, <2>3, <2>4, <2>5, <2>6
<1>8. new \in [pc : Pcs, call : AllCalls \union {NoStep}, n : Nat]
  BY <1>7 DEF GoesTo, Pcs
<1>9. PullTypeOK'
  BY <1>1, <1>2, <1>7, <1>8 DEF PullTypeOK
<1>10. RunsAreCounted'
  BY <1>1, <1>2, <1>7 DEF PullInv, PullTypeOK, RunsAreCounted, ResultsKept
<1>11. ResultsAreKnown' /\ PullAnswersAreTrue' /\ ResultsAreTaken'
  <2>1. /\ stepPosts' \subseteq stepPosts
        /\ \A p \in stepPosts : p.at = "resume" => p \in stepPosts'
        /\ \A s \in StepRuns : \A c \in CallsOf(s) : stepRan'[s][c] >= stepRan[s][c]
    BY <1>1, <1>5
  <2> QED BY <1>1, <1>6, <1>7, <1>9, <2>1, HandsMove
<1> QED BY <1>9, <1>10, <1>11 DEF PullInv

LEMMA ExecuteInv ==
  ASSUME CallsAreNamed, PullInv, UNCHANGED host, NEW r \in StepRuns, Execute(r)
  PROVE  PullInv'
<1> DEFINE k == stepHands[r].call
           new == Drive("save", k, 0)
<1>1. /\ stepHands[r].pc = "run" /\ PullTypeOK
      /\ stepHands' = [stepHands EXCEPT ![r] = new]
      /\ stepRan' = [stepRan EXCEPT ![r][k] = @ + 1]
      /\ UNCHANGED <<stepKnob, stepPast, stepDue, stepIntake, stepEvictions,
                     stepRejected, stepPosts, stepSaved, stepCount, stepCut>>
  BY DEF Execute, HandsAre, host, PullInv
<1>2. k \in CallsOf(r) \ stepSaved[r] /\ Reached(r, k) /\ k \in AllCalls /\ k # NoStep
  BY <1>1, CallsInRange DEF PullInv, PullAnswersAreTrue, CallsAreNamed
<1>3. /\ new \in [pc : Pcs, call : AllCalls \union {NoStep}, n : Nat]
      /\ new.pc = "save" /\ new.call = k /\ new.n = 0
  BY <1>2 DEF Drive, Pcs
<1> HIDE DEF new, k
<1>4. \A s \in StepRuns : \A c \in CallsOf(s) :
        /\ stepRan[s][c] \in Nat
        /\ stepRan'[s][c] = IF s = r /\ c = k THEN stepRan[s][c] + 1 ELSE stepRan[s][c]
  BY <1>1, <1>2 DEF PullTypeOK
<1>5. DOMAIN stepRan' = StepRuns /\ \A s \in StepRuns : stepRan'[s] \in [CallsOf(s) -> Nat]
  BY <1>1, <1>2 DEF PullTypeOK
<1>6. PullTypeOK'
  BY <1>1, <1>3, <1>5 DEF PullTypeOK
<1>7. RunsAreCounted'
  <2>1. /\ stepHands'[r] = new
        /\ \A s \in StepRuns \ {r} : stepHands'[s] = stepHands[s]
    BY <1>1 DEF PullTypeOK
  <2>2. ASSUME NEW s \in StepRuns, NEW c \in CallsOf(s)
        PROVE  stepRan'[s][c] <=
                 (IF stepKnob.lasts THEN stepCut[s][c] ELSE stepCount.again[s])
                 + (IF ResultsKept(s, c)' THEN 1 ELSE 0)
    <3>1. /\ stepCut[s][c] \in Nat /\ stepCount.again[s] \in Nat
          /\ stepRan[s][c] <=
               (IF stepKnob.lasts THEN stepCut[s][c] ELSE stepCount.again[s])
               + (IF ResultsKept(s, c) THEN 1 ELSE 0)
      BY <1>1 DEF PullTypeOK, PullInv, RunsAreCounted
    <3>2. CASE s = r /\ c = k
      <4>1. ~ResultsKept(s, c) /\ ResultsKept(s, c)'
        BY <1>1, <1>2, <1>3, <2>1, <3>2 DEF ResultsKept
      <4> QED BY <1>4, <3>1, <3>2, <4>1
    <3>3. CASE ~(s = r /\ c = k)
      <4>1. ResultsKept(s, c)' <=> ResultsKept(s, c)
        BY <1>1, <1>3, <2>1, <3>3 DEF ResultsKept
      <4> QED BY <1>4, <3>1, <3>3, <4>1
    <3> QED BY <3>2, <3>3
  <2> QED BY <1>1, <2>2 DEF RunsAreCounted
<1>8. ResultsAreKnown' /\ PullAnswersAreTrue' /\ ResultsAreTaken'
  <2>1. GoesTo(r, new)
    BY <1>2, <1>3, <1>4 DEF GoesTo, Pcs
  <2>2. \A s \in StepRuns : \A c \in CallsOf(s) : stepRan'[s][c] >= stepRan[s][c]
    BY <1>4
  <2>3. \A c \in stepSaved'[r] : c \in CallsOf(r) /\ stepRan'[r][c] > 0
    BY <1>1, <1>4 DEF PullInv, ResultsAreKnown
  <2> QED BY <1>1, <1>6, <2>1, <2>2, <2>3, HandsMove
<1> QED BY <1>6, <1>7, <1>8 DEF PullInv

LEMMA RememberInv ==
  ASSUME CallsAreNamed, PullInv, UNCHANGED host, NEW r \in StepRuns, Remember(r)
  PROVE  PullInv'
<1> DEFINE k == stepHands[r].call
           new == Drive("ask", k, 0)
<1>1. /\ stepHands[r].pc = "save" /\ PullTypeOK
      /\ stepHands' = [stepHands EXCEPT ![r] = new]
      /\ stepSaved' = [stepSaved EXCEPT ![r] = @ \union {k}]
      /\ UNCHANGED <<stepKnob, stepPast, stepDue, stepIntake, stepEvictions,
                     stepRejected, stepPosts, stepCount, stepRan, stepCut>>
  BY DEF Remember, HandsAre, host, PullInv
<1>2. PullKnown(r, k) /\ k \in AllCalls
  BY <1>1, CallsInRange DEF PullInv, ResultsAreKnown, PullKnown
<1>3. /\ new \in [pc : Pcs, call : AllCalls \union {NoStep}, n : Nat]
      /\ new.pc = "ask" /\ new.call = k /\ new.n = 0
  BY <1>2 DEF Drive, Pcs
<1> HIDE DEF new, k
<1>4. /\ stepSaved' \in [StepRuns -> SUBSET AllCalls]
      /\ stepSaved'[r] = stepSaved[r] \union {k}
      /\ \A s \in StepRuns \ {r} : stepSaved'[s] = stepSaved[s]
  BY <1>1, <1>2 DEF PullTypeOK
<1>5. PullTypeOK'
  BY <1>1, <1>3, <1>4 DEF PullTypeOK
<1>6. RunsAreCounted'
  <2>1. /\ stepHands'[r] = new
        /\ \A s \in StepRuns \ {r} : stepHands'[s] = stepHands[s]
    BY <1>1 DEF PullTypeOK
  <2>2. \A s \in StepRuns : \A c \in CallsOf(s) : ResultsKept(s, c)' <=> ResultsKept(s, c)
    BY <1>1, <1>3, <1>4, <2>1 DEF ResultsKept, k
  <2> QED BY <1>1, <2>2 DEF PullInv, RunsAreCounted
<1>7. ResultsAreKnown' /\ PullAnswersAreTrue' /\ ResultsAreTaken'
  <2>1. GoesTo(r, new)
    BY <1>1, <1>2, <1>3 DEF GoesTo, PullKnown, Pcs
  <2>2. \A s \in StepRuns : \A c \in CallsOf(s) : stepRan'[s][c] >= stepRan[s][c]
    BY <1>1 DEF PullTypeOK
  <2>3. \A c \in stepSaved'[r] : c \in CallsOf(r) /\ stepRan'[r][c] > 0
    BY <1>1, <1>2, <1>4 DEF PullInv, ResultsAreKnown, PullKnown
  <2> QED BY <1>1, <1>4, <1>5, <2>1, <2>2, <2>3, HandsMove
<1> QED BY <1>5, <1>6, <1>7 DEF PullInv

LEMMA AgainInv ==
  ASSUME CallsAreNamed, PullInv, UNCHANGED host, NEW r \in StepRuns, DriveAgain(r)
  PROVE  PullInv'
<1> DEFINE k == stepHands[r].call
           new == Drive("ask", NoStep, 0)
<1>1. /\ PullTypeOK
      /\ stepCount' = [stepCount EXCEPT !.again[r] = @ + 1]
      /\ stepSaved' = IF stepKnob.lasts THEN stepSaved
                        ELSE [stepSaved EXCEPT ![r] = {}]
      /\ stepCut' = IF stepHands[r].pc = "save"
                      THEN [stepCut EXCEPT ![r][k] = @ + 1] ELSE stepCut
      /\ stepHands' = [stepHands EXCEPT ![r] = new]
      /\ UNCHANGED <<stepKnob, stepPast, stepDue, stepIntake, stepEvictions,
                     stepRejected, stepPosts, stepRan>>
  BY DEF DriveAgain, HandsAre, host, PullInv
<1>2. stepHands[r].pc = "save" => k \in CallsOf(r)
  BY <1>1 DEF PullInv, ResultsAreKnown, PullKnown
<1>3. /\ new \in [pc : Pcs, call : AllCalls \union {NoStep}, n : Nat]
      /\ new.pc = "ask" /\ new.call = NoStep /\ new.n = 0
  BY DEF Drive, Pcs
<1> HIDE DEF new, k
<1>4. /\ stepSaved' \in [StepRuns -> SUBSET AllCalls]
      /\ stepSaved'[r] = IF stepKnob.lasts THEN stepSaved[r] ELSE {}
      /\ \A s \in StepRuns \ {r} : stepSaved'[s] = stepSaved[s]
  BY <1>1 DEF PullTypeOK
<1>5. /\ DOMAIN stepCut' = StepRuns
      /\ \A s \in StepRuns : stepCut'[s] \in [CallsOf(s) -> Nat]
      /\ \A s \in StepRuns : \A c \in CallsOf(s) :
           stepCut'[s][c] = IF s = r /\ c = k /\ stepHands[r].pc = "save"
                              THEN stepCut[s][c] + 1 ELSE stepCut[s][c]
  <2>1. CASE stepHands[r].pc = "save"
    BY <1>1, <1>2, <2>1 DEF PullTypeOK
  <2>2. CASE stepHands[r].pc # "save"
    BY <1>1, <2>2 DEF PullTypeOK
  <2> QED BY <2>1, <2>2
<1>6. /\ stepCount'.posts = stepCount.posts
      /\ stepCount' \in [posts : Nat, again : [StepRuns -> Nat]]
      /\ \A s \in StepRuns : stepCount'.again[s] =
           IF s = r THEN stepCount.again[s] + 1 ELSE stepCount.again[s]
  <2>1. stepCount = [posts |-> stepCount.posts, again |-> stepCount.again]
        /\ stepCount.posts \in Nat /\ stepCount.again \in [StepRuns -> Nat]
    BY <1>1 DEF PullTypeOK
  <2>2. stepCount' = [posts |-> stepCount.posts,
                      again |-> [stepCount.again EXCEPT ![r] = @ + 1]]
    BY <1>1, <2>1
  <2> QED BY <2>1, <2>2
<1>7. PullTypeOK'
  BY <1>1, <1>3, <1>4, <1>5, <1>6 DEF PullTypeOK
<1>8. RunsAreCounted'
  <2>1. /\ stepHands'[r] = new
        /\ \A s \in StepRuns \ {r} : stepHands'[s] = stepHands[s]
    BY <1>1 DEF PullTypeOK
  <2>2. ASSUME NEW s \in StepRuns, NEW c \in CallsOf(s)
        PROVE  stepRan[s][c] <=
                 (IF stepKnob.lasts THEN stepCut'[s][c] ELSE stepCount'.again[s])
                 + (IF ResultsKept(s, c)' THEN 1 ELSE 0)
    <3>1. /\ stepRan[s][c] \in Nat /\ stepCut[s][c] \in Nat
          /\ stepCount.again[s] \in Nat /\ stepKnob.lasts \in BOOLEAN
          /\ stepRan[s][c] <=
               (IF stepKnob.lasts THEN stepCut[s][c] ELSE stepCount.again[s])
               + (IF ResultsKept(s, c) THEN 1 ELSE 0)
      BY <1>1 DEF PullTypeOK, PullInv, RunsAreCounted
    <3>2. CASE s # r
      <4>1. ResultsKept(s, c)' <=> ResultsKept(s, c)
        BY <1>4, <2>1, <3>2 DEF ResultsKept
      <4> QED BY <1>5, <1>6, <3>1, <3>2, <4>1
    <3>3. CASE s = r /\ stepKnob.lasts
      <4>1. /\ ResultsKept(s, c)' <=> c \in stepSaved[r]
            /\ ResultsKept(s, c) => \/ c \in stepSaved[r]
                             \/ (stepHands[r].pc = "save" /\ c = k)
        BY <1>3, <1>4, <2>1, <3>3 DEF ResultsKept, k
      <4> QED BY <1>5, <3>1, <3>3, <4>1
    <3>4. CASE s = r /\ ~stepKnob.lasts
      BY <1>6, <3>1, <3>4
    <3> QED BY <3>1, <3>2, <3>3, <3>4
  <2> QED BY <1>1, <2>2 DEF RunsAreCounted
<1>9. ResultsAreKnown' /\ PullAnswersAreTrue' /\ ResultsAreTaken'
  <2>1. GoesTo(r, new)
    BY <1>3 DEF GoesTo, Pcs
  <2>2. \A s \in StepRuns : \A c \in CallsOf(s) : stepRan'[s][c] >= stepRan[s][c]
    BY <1>1 DEF PullTypeOK
  <2>3. \A c \in stepSaved'[r] : c \in CallsOf(r) /\ stepRan'[r][c] > 0
    BY <1>1, <1>4 DEF PullInv, ResultsAreKnown
  <2> QED BY <1>1, <1>4, <1>6, <1>7, <2>1, <2>2, <2>3, HandsMove
<1> QED BY <1>7, <1>8, <1>9 DEF PullInv

LEMMA HandsInv ==
  ASSUME CallsAreNamed, PullInv, HandsNext
  PROVE  PullInv'
<1>1. UNCHANGED host
  BY DEF HandsNext, host
<1>2. PICK r \in StepRuns :
        \/ Ask(r) \/ TransportFails(r) \/ HearAnswer(r) \/ Execute(r) \/ Remember(r)
        \/ DriveAgain(r)
  BY DEF HandsNext
<1> QED
  BY <1>1, <1>2, AskInv, FailsInv, HearInv, ExecuteInv, RememberInv, AgainInv

-----------------------------------------------------------------------------

LEMMA PullInitInv ==
  ASSUME CallsAreNamed, StepInit
  PROVE  PullInv
<1>1. \A r \in StepRuns : Len(StepCalls[r]) \in Nat
  BY CallsInRange
<1>2. PullTypeOK
  BY <1>1 DEF StepInit, PullTypeOK, Drive, Pcs
<1>3. \A r \in StepRuns, c \in AllCalls : ~Covered(r, c)
  BY DEF StepInit, Covered
<1>4. \A r \in StepRuns : CallsOf(r) \subseteq AllCalls
  BY CallsInRange
<1>5. ResultsAreKnown
  BY <1>3, <1>4 DEF StepInit, ResultsAreKnown, Drive
<1>6. PullAnswersAreTrue
  BY DEF StepInit, PullAnswersAreTrue, Drive
<1>7. RunsAreCounted
  <2> SUFFICES ASSUME NEW r \in StepRuns, NEW c \in CallsOf(r)
               PROVE  /\ stepRan[r][c] = 0 /\ stepCut[r][c] = 0
                      /\ stepCount.again[r] = 0
    BY DEF RunsAreCounted
  <2> QED BY DEF StepInit
<1>8. ResultsAreTaken
  BY <1>4 DEF StepInit, ResultsAreTaken
<1> QED BY <1>2, <1>5, <1>6, <1>7, <1>8 DEF PullInv

LEMMA PullStepInv ==
  ASSUME CallsAreNamed, PullInv, [StepNext]_stepVars
  PROVE  PullInv'
<1>1. CASE StepNext
  BY <1>1, HostInv, HandsInv DEF StepNext
<1>2. CASE UNCHANGED stepVars
  <2>1. UNCHANGED <<stepKnob, stepPast, stepDue, stepIntake, stepPosts, stepHands,
                    stepSaved, stepCount, stepEvictions, stepRan, stepCut, stepRejected>>
    BY <1>2 DEF stepVars
  <2>2. PullTypeOK'
    BY <2>1 DEF PullInv, PullTypeOK
  <2>3. \A r, c : /\ Covered(r, c)' <=> Covered(r, c)
                  /\ NextStepOf(r)' = NextStepOf(r)
    BY <2>1 DEF Covered, NextStepOf
  <2>4. ResultsAreKnown' /\ PullAnswersAreTrue'
    BY <2>1, <2>3 DEF PullInv, ResultsAreKnown, PullAnswersAreTrue, PullKnown, Reached
  <2>5. RunsAreCounted'
    BY <2>1 DEF PullInv, RunsAreCounted, ResultsKept
  <2>6. ResultsAreTaken'
    BY <2>1, <2>3 DEF PullInv, ResultsAreTaken, PullTaken
  <2> QED BY <2>2, <2>4, <2>5, <2>6 DEF PullInv
<1> QED BY <1>1, <1>2

(* A result that is answered with a step, or with the end of the run, was  *)
(* taken.                                                                  *)
LEMMA AnsweredIsTaken ==
  ASSUME CallsAreNamed, PullInv, [StepNext]_stepVars,
         NEW q \in stepPosts' \ stepPosts, q.at = "answered", q.posted # NoStep,
         q.body # "working"
  PROVE  PullTaken(q.run, q.posted)
<1>1. StepNext
  BY DEF stepVars
<1>2. PICK p \in stepPosts : Answer(p) /\ p.run = q.run /\ p.posted = q.posted
  <2>1. CASE HandsNext
    BY <2>1 DEF HandsNext, Ask, TransportFails, HearAnswer, Execute, Remember,
                DriveAgain, Post
  <2>2. CASE EvictHost
    BY <2>2 DEF EvictHost
  <2>3. ASSUME NEW d \in stepDue, Compute(d)
        PROVE  FALSE
    BY <2>3 DEF Compute
  <2>4. ASSUME NEW p \in stepPosts,
               ResumeRejects(p) \/ Handle(p) \/ ResumeLands(p) \/ Complete(p)
        PROVE  FALSE
    <3>1. p \in [run : StepRuns, n : Nat, posted : AllCalls \union {NoStep},
                 at : Stages, body : AllCalls \union {NoStep, "done", "working"}]
      BY DEF PullInv, PullTypeOK
    <3>2. ASSUME NEW at \in {"resume", "enqueue", "answer", "complete"},
                 PostGoes(p, at)
          PROVE  FALSE
      <4>1. [p EXCEPT !.at = at].at = at
        BY ONLY <3>1
      <4> QED BY <3>2, <4>1 DEF PostGoes
    <3>3. CASE Handle(p)
      BY <3>2, <3>3 DEF Handle
    <3> QED BY <2>4, <3>2, <3>3 DEF ResumeRejects, ResumeLands, Complete
  <2>5. ASSUME NEW p \in stepPosts, EnqueueResult(p)
        PROVE  FALSE
    <3>1. p \in [run : StepRuns, n : Nat, posted : AllCalls \union {NoStep},
                 at : Stages, body : AllCalls \union {NoStep, "done", "working"}]
      BY DEF PullInv, PullTypeOK
    <3>2. [p EXCEPT !.at = "answered", !.body = "working"].body = "working"
      BY ONLY <3>1
    <3> QED BY <2>5, <3>2 DEF EnqueueResult
  <2>6. ASSUME NEW p \in stepPosts, Answer(p)
        PROVE  p.run = q.run /\ p.posted = q.posted
    <3>1. p \in [run : StepRuns, n : Nat, posted : AllCalls \union {NoStep},
                 at : Stages, body : AllCalls \union {NoStep, "done", "working"}]
      BY DEF PullInv, PullTypeOK
    <3>2. \A b : /\ [p EXCEPT !.at = "answered", !.body = b].run = p.run
                 /\ [p EXCEPT !.at = "answered", !.body = b].posted = p.posted
      BY ONLY <3>1
    <3> QED BY <2>6, <3>2 DEF Answer
  <2> QED BY <1>1, <2>1, <2>2, <2>3, <2>4, <2>5, <2>6 DEF StepNext, HostNext
<1> QED BY <1>2 DEF Answer, PullInv, ResultsAreTaken

(* The carrier runs each step once for each time it was cut short, and     *)
(* once more at most, forgets no step it has behind it, and answers no     *)
(* result it did not take in, but one whose resume() rejected              *)
(* (do/step-host.ts, handle and runStepLoop).                              *)
THEOREM CarrierGoesThrough ==
  ASSUME CallsAreNamed
  PROVE  StepSpec => StepsGoThrough
<1>1. StepInit => PullInv
  BY PullInitInv
<1>2. PullInv /\ [StepNext]_stepVars => PullInv'
  BY PullStepInv
<1>3. PullInv => StepsRunOnce
  <2> SUFFICES ASSUME PullInv, NEW r \in StepRuns
               PROVE  /\ \A c \in CallsOf(r) :
                           /\ stepRan[r][c] <= 1 + (IF stepKnob.lasts
                                THEN stepCut[r][c] ELSE stepCount.again[r])
                           /\ Covered(r, c) => stepRan[r][c] > 0
                      /\ stepHands[r].pc = "done" => NextStepOf(r) = "done"
    BY DEF StepsRunOnce
  <2>1. ASSUME NEW c \in CallsOf(r)
        PROVE  stepRan[r][c] <= 1 + (IF stepKnob.lasts THEN stepCut[r][c]
                                       ELSE stepCount.again[r])
    <3>1. stepRan[r][c] \in Nat /\ stepCut[r][c] \in Nat /\ stepCount.again[r] \in Nat
      BY DEF PullInv, PullTypeOK
    <3> QED BY <3>1 DEF PullInv, RunsAreCounted
  <2> QED BY <2>1 DEF PullInv, ResultsAreKnown, PullAnswersAreTrue
<1>4. PullInv /\ [StepNext]_stepVars =>
        [\A q \in stepPosts' \ stepPosts :
           q.at = "answered" /\ q.posted # NoStep /\ q.body # "working" =>
             \/ Covered(q.run, q.posted)
             \/ \E p \in stepPosts : /\ p.run = q.run /\ p.posted = q.posted
                                     /\ p.at = "resume"
             \/ <<q.run, q.posted>> \in stepRejected]_stepVars
  BY AnsweredIsTaken DEF PullTaken
<1> QED BY <1>1, <1>2, <1>3, <1>4, PTL DEF StepSpec, StepsGoThrough, NothingSwallowed

-----------------------------------------------------------------------------
(* The journals.  What each client knows of the remote is said of values   *)
(* (Sure, Fits), so that a push of another client is one lemma.            *)

\* A record of the remote; a sync of a client.
Records == [author : Authors, n : Nat]
\* The steps of a sync.
SyncSteps == {"idle", "push", "count", "pull", "log"}
\* A sync: the step it is at, and what it has read.
Syncs == [at : SyncSteps, tail : Nat, since : Nat, entries : Seq(Nat)]

\* The types.
JournalTypes ==
  /\ localCount \in [Authors -> Nat] /\ pushed \in [Authors -> Nat]
  /\ remote \in Seq(Records)
  /\ cursor \in [Authors -> Nat] /\ converged \in [Authors -> Seq(Nat)]
  /\ DOMAIN syncs = Authors
  /\ \A a \in Authors : syncs[a] \in [Slots(a) -> Syncs]

\* The seqs after one, up to another.
Between(since, m) == [k \in 1 .. m - since |-> since + k]

\* What a sync that pulls knows of the log of its client.
Fits(s, log, r) ==
  /\ s.at \in {"pull", "log"} => 1 .. s.since \subseteq ToSet(log) /\ s.since <= Len(r)
  /\ s.at = "log" =>
       \E m \in s.since .. Len(r) : s.entries = Between(s.since, m)

\* What a client calls its records on the remote.
Numbers(r, a) == {r[i].n : i \in {j \in DOMAIN r : r[j].author = a}}
\* They lie there in the order it wrote them.
NumbersRise(r, a) ==
  \A i, j \in DOMAIN r :
    i < j /\ r[i].author = a /\ r[j].author = a => r[i].n < r[j].n

\* What holds of a client that syncs one at a time and hears every answer.
Sure(a, count, r, c, log, ss) ==
  /\ \A i, j \in Slots(a) : ss[i].at # "idle" /\ ss[j].at # "idle" => i = j
  /\ NumbersRise(r, a) /\ log = UpTo(c)
  /\ \A i \in Slots(a) :
       /\ ss[i].at = "push" => ss[i].since = count
       /\ ss[i].at = "count" => Numbers(r, a) = 1 .. count + ss[i].tail
       /\ ss[i].at \in {"pull", "log"} => ss[i].since = c
  /\ (\A i \in Slots(a) : ss[i].at # "count") => Numbers(r, a) = 1 .. count

\* What holds of any client.
Client(a, count, r, c, log, ss, doubt) ==
  /\ 1 .. c \subseteq ToSet(log) /\ c <= Len(r)
  /\ \A i \in Slots(a) : Fits(ss[i], log, r)
  /\ a \notin doubt => Sure(a, count, r, c, log, ss)

\* The invariant of the journals.
JournalInv ==
  /\ JournalTypes
  /\ \A a \in Authors :
       Client(a, pushed[a], remote, cursor[a], converged[a], syncs[a], journalDoubt)

\* The journals at their start.
LEMMA JournalStarts == JournalInit => JournalInv
<1> SUFFICES ASSUME JournalInit PROVE JournalInv
  OBVIOUS
<1> USE DEF JournalInit, Idle
<1>1. Idle \in Syncs
  BY DEF Syncs, SyncSteps
<1>2. JournalTypes
  BY <1>1 DEF JournalTypes
<1>3. ASSUME NEW a \in Authors
      PROVE  Client(a, 0, <<>>, 0, <<>>, syncs[a], journalDoubt)
  <2>1. \A i \in Slots(a) : syncs[a][i] = Idle
    OBVIOUS
  <2>2. \A i \in Slots(a) : Fits(syncs[a][i], <<>>, <<>>)
    BY <2>1 DEF Fits
  <2>3. UpTo(0) = <<>> /\ Numbers(<<>>, a) = {} /\ NumbersRise(<<>>, a)
    BY DEF UpTo, Numbers, NumbersRise
  <2>4. Sure(a, 0, <<>>, 0, <<>>, syncs[a])
    BY <2>1, <2>3 DEF Sure
  <2> QED
    BY <2>2, <2>4 DEF Client
<1> QED
  BY <1>2, <1>3 DEF JournalInv

\* The types, in the form the steps below use.
LEMMA JournalFacts ==
  ASSUME JournalInv, NEW a \in Authors
  PROVE  /\ pushed[a] \in Nat /\ localCount[a] \in Nat /\ remote \in Seq(Records)
         /\ cursor[a] \in Nat /\ converged[a] \in Seq(Nat)
         /\ syncs[a] \in [Slots(a) -> Syncs]
         /\ Client(a, pushed[a], remote, cursor[a], converged[a], syncs[a], journalDoubt)
BY DEF JournalInv, JournalTypes

\* A step of one client that leaves the remote alone, and of the doubts all but
\* its own, is one of that client.
LEMMA OneClientMoves ==
  ASSUME JournalInv, NEW a \in Authors, NEW count \in Nat, NEW own \in Nat,
         NEW c \in Nat, NEW log \in Seq(Nat), NEW ss \in [Slots(a) -> Syncs],
         localCount' = [localCount EXCEPT ![a] = own],
         pushed' = [pushed EXCEPT ![a] = count], remote' = remote,
         cursor' = [cursor EXCEPT ![a] = c],
         converged' = [converged EXCEPT ![a] = log],
         syncs' = [syncs EXCEPT ![a] = ss],
         journalDoubt' \subseteq journalDoubt \union {a},
         journalDoubt \subseteq journalDoubt',
         Client(a, count, remote, c, log, ss, journalDoubt')
  PROVE  JournalInv'
<1>1. JournalTypes'
  BY DEF JournalInv, JournalTypes
<1>2. ASSUME NEW b \in Authors
      PROVE  Client(b, pushed'[b], remote', cursor'[b], converged'[b], syncs'[b],
                    journalDoubt')
  <2>1. CASE b = a
    BY <2>1 DEF JournalInv, JournalTypes
  <2>2. CASE b # a
    <3>1. /\ pushed'[b] = pushed[b] /\ cursor'[b] = cursor[b]
          /\ converged'[b] = converged[b] /\ syncs'[b] = syncs[b]
      BY <2>2 DEF JournalInv, JournalTypes
    <3>2. b \in journalDoubt' <=> b \in journalDoubt
      BY <2>2
    <3> QED
      BY <3>1, <3>2 DEF JournalInv, Client
  <2> QED
    BY <2>1, <2>2
<1> QED
  BY <1>1, <1>2 DEF JournalInv

\* A sync that begins, or pulls.
Began(at, tail, since) == [Idle EXCEPT !.at = at, !.tail = tail, !.since = since]

\* The fields of a sync, once it is at a step.
LEMMA SyncSets ==
  ASSUME NEW at \in SyncSteps, NEW tail \in Nat, NEW since \in Nat
  PROVE  /\ Began(at, tail, since) \in Syncs /\ Began(at, tail, since).at = at
         /\ Began(at, tail, since).tail = tail
         /\ Began(at, tail, since).since = since
<1> DEFINE idle == Idle
<1>1. idle \in Syncs
  BY DEF Idle, Syncs, SyncSteps
<1> HIDE DEF idle
<1>2. \A s \in Syncs : /\ [s EXCEPT !.at = at] \in Syncs
                       /\ [s EXCEPT !.at = at].at = at
                       /\ [s EXCEPT !.at = at].tail = s.tail
                       /\ [s EXCEPT !.at = at].since = s.since
  BY DEF Syncs
<1>3. \A s \in Syncs : /\ [s EXCEPT !.tail = tail] \in Syncs
                       /\ [s EXCEPT !.tail = tail].at = s.at
                       /\ [s EXCEPT !.tail = tail].tail = tail
                       /\ [s EXCEPT !.tail = tail].since = s.since
  BY DEF Syncs
<1>4. \A s \in Syncs : /\ [s EXCEPT !.since = since] \in Syncs
                       /\ [s EXCEPT !.since = since].at = s.at
                       /\ [s EXCEPT !.since = since].tail = s.tail
                       /\ [s EXCEPT !.since = since].since = since
  BY DEF Syncs
<1> DEFINE u == [idle EXCEPT !.at = at]
           v == [u EXCEPT !.tail = tail]
           w == [v EXCEPT !.since = since]
<1>5. u \in Syncs /\ u.at = at
  BY <1>1, <1>2
<1> HIDE DEF u
<1>6. v \in Syncs /\ v.at = at /\ v.tail = tail
  BY <1>3, <1>5
<1> HIDE DEF v
<1>7. w \in Syncs /\ w.at = at /\ w.tail = tail /\ w.since = since
  BY <1>4, <1>6
<1> QED
  BY <1>7 DEF u, v, w, idle, Began

\* A sync that turns to its pull.
LEMMA PullSets ==
  ASSUME NEW since \in Nat, NEW to, to = [Idle EXCEPT !.at = "pull", !.since = since]
  PROVE  to \in Syncs /\ to.at = "pull" /\ to.since = since
<1> DEFINE idle == Idle
<1>1. idle \in Syncs
  BY DEF Idle, Syncs, SyncSteps
<1> HIDE DEF idle
<1>2. \A s \in Syncs : /\ [s EXCEPT !.at = "pull"] \in Syncs
                       /\ [s EXCEPT !.at = "pull"].at = "pull"
  BY DEF Syncs, SyncSteps
<1>3. \A s \in Syncs : /\ [s EXCEPT !.since = since] \in Syncs
                       /\ [s EXCEPT !.since = since].at = s.at
                       /\ [s EXCEPT !.since = since].since = since
  BY DEF Syncs
<1> DEFINE u == [idle EXCEPT !.at = "pull"]
           v == [u EXCEPT !.since = since]
<1>4. u \in Syncs /\ u.at = "pull"
  BY <1>1, <1>2
<1> HIDE DEF u
<1>5. v \in Syncs /\ v.at = "pull" /\ v.since = since
  BY <1>3, <1>4
<1> QED
  BY <1>5 DEF u, v, idle

\* A sync of one client takes a step that leaves the remote and the log alone.
LEMMA SyncMoves ==
  ASSUME JournalInv, NEW a \in Authors, NEW i \in Slots(a), NEW to \in Syncs,
         NEW count \in Nat,
         Goes(a, i, to), pushed' = [pushed EXCEPT ![a] = count],
         UNCHANGED <<localCount, remote, cursor, converged>>,
         journalDoubt' \subseteq journalDoubt \union {a},
         journalDoubt \subseteq journalDoubt',
         Fits(to, converged[a], remote),
         a \notin journalDoubt' =>
           Sure(a, count, remote, cursor[a], converged[a], [syncs[a] EXCEPT ![i] = to])
  PROVE  JournalInv'
<1> DEFINE ss == [syncs[a] EXCEPT ![i] = to]
<1>1. /\ ss \in [Slots(a) -> Syncs] /\ ss[i] = to
      /\ \A j \in Slots(a) \ {i} : ss[j] = syncs[a][j]
      /\ syncs' = [syncs EXCEPT ![a] = ss]
  BY JournalFacts DEF JournalInv, JournalTypes, Goes
<1>2. /\ localCount' = [localCount EXCEPT ![a] = localCount[a]]
      /\ cursor' = [cursor EXCEPT ![a] = cursor[a]]
      /\ converged' = [converged EXCEPT ![a] = converged[a]]
  BY DEF JournalInv, JournalTypes
<1>3. a \notin journalDoubt' => Sure(a, count, remote, cursor[a], converged[a], ss)
  OBVIOUS
<1> HIDE DEF ss
<1>4. \A j \in Slots(a) : Fits(ss[j], converged[a], remote)
  <2> SUFFICES ASSUME NEW j \in Slots(a) PROVE Fits(ss[j], converged[a], remote)
    OBVIOUS
  <2>1. CASE j = i
    BY <1>1, <2>1
  <2>2. CASE j # i
    BY <1>1, <2>2, JournalFacts DEF Client
  <2> QED
    BY <2>1, <2>2
<1>5. Client(a, count, remote, cursor[a], converged[a], ss, journalDoubt')
  BY <1>3, <1>4, JournalFacts DEF Client
<1>6. /\ cursor[a] \in Nat /\ converged[a] \in Seq(Nat) /\ localCount[a] \in Nat
      /\ remote' = remote
  BY JournalFacts
<1> QED
  BY <1>1, <1>2, <1>5, <1>6, OneClientMoves

\* A record is appended to the journal of a client.
LEMMA EntriesAppend ==
  ASSUME JournalInv, NEW a \in Authors, AppendRecord(a)
  PROVE  JournalInv'
<1>1. JournalTypes'
  BY DEF JournalInv, JournalTypes, AppendRecord
<1> QED
  BY <1>1 DEF JournalInv, AppendRecord

\* A sync begins: the tail is what is not pushed, or there is none.
LEMMA BeginKeeps ==
  ASSUME JournalInv, NEW a \in Authors, NEW i \in Slots(a), BeginSync(a, i)
  PROVE  JournalInv'
<1> DEFINE to == [Idle EXCEPT !.at = IF Tail0(a) > 0 THEN "push" ELSE "count",
                              !.tail = Tail0(a), !.since = pushed[a]]
<1>1. pushed[a] \in Nat /\ Tail0(a) \in Nat
  BY JournalFacts DEF Tail0
<1>2. /\ to \in Syncs /\ to.since = pushed[a] /\ to.tail = Tail0(a)
      /\ to.at = IF Tail0(a) > 0 THEN "push" ELSE "count"
  <2>1. PICK at \in SyncSteps : at = IF Tail0(a) > 0 THEN "push" ELSE "count"
    BY DEF SyncSteps
  <2>2. PICK tail \in Nat : tail = Tail0(a)
    BY <1>1
  <2>3. PICK since \in Nat : since = pushed[a]
    BY <1>1
  <2>4. to = Began(at, tail, since)
    BY <2>1, <2>2, <2>3 DEF Began
  <2> HIDE DEF to
  <2>5. to \in Syncs /\ to.since = since /\ to.tail = tail /\ to.at = at
    BY <2>4, SyncSets
  <2> QED
    BY <2>1, <2>2, <2>3, <2>5
<1>3. Goes(a, i, to) /\ pushed' = [pushed EXCEPT ![a] = pushed[a]]
  BY DEF BeginSync, JournalInv, JournalTypes
<1> HIDE DEF to
<1>4. Fits(to, converged[a], remote)
  BY <1>2 DEF Fits
<1>5. ASSUME a \notin journalDoubt'
      PROVE  Sure(a, pushed[a], remote, cursor[a], converged[a],
                  [syncs[a] EXCEPT ![i] = to])
  <2>1. /\ a \notin journalDoubt /\ \A j \in Slots(a) : syncs[a][j].at = "idle"
        /\ Sure(a, pushed[a], remote, cursor[a], converged[a], syncs[a])
    BY <1>5, JournalFacts DEF BeginSync, Syncing, Client
  <2> DEFINE ss == [syncs[a] EXCEPT ![i] = to]
  <2>2. ss[i] = to /\ \A j \in Slots(a) \ {i} : ss[j] = syncs[a][j]
    BY JournalFacts
  <2> HIDE DEF ss
  <2>3. Numbers(remote, a) = 1 .. pushed[a]
    BY <2>1 DEF Sure
  <2>4. /\ NumbersRise(remote, a) /\ converged[a] = UpTo(cursor[a])
        /\ \A j, k \in Slots(a) : ss[j].at # "idle" /\ ss[k].at # "idle" => j = k
    BY <2>1, <2>2 DEF Sure
  <2>5. ASSUME NEW j \in Slots(a)
        PROVE  /\ ss[j].at = "push" => ss[j].since = pushed[a]
               /\ ss[j].at = "count" => Numbers(remote, a) = 1 .. pushed[a] + ss[j].tail
               /\ ss[j].at \notin {"pull", "log"}
    <3>1. CASE j = i
      BY <1>1, <1>2, <2>2, <2>3, <3>1
    <3>2. CASE j # i
      BY <2>1, <2>2, <3>2
    <3> QED
      BY <3>1, <3>2
  <2> QED
    BY <2>3, <2>4, <2>5 DEF Sure, ss
<1> QED
  BY <1>1, <1>2, <1>3, <1>4, <1>5, SyncMoves DEF BeginSync

\* What is sure of a client whose one sync that is open is this one.
LEMMA OneSync ==
  ASSUME NEW a \in Authors, NEW i \in Slots(a), NEW to \in Syncs,
         NEW ss \in [Slots(a) -> Syncs], ss[i].at # "idle",
         NEW count, NEW r, NEW c, NEW log,
         Sure(a, count, r, c, log, ss),
         NEW count2, NEW r2, NEW c2, NEW log2,
         NumbersRise(r2, a), log2 = UpTo(c2),
         to.at = "push" => to.since = count2,
         to.at = "count" => Numbers(r2, a) = 1 .. count2 + to.tail,
         to.at \in {"pull", "log"} => to.since = c2,
         to.at # "count" => Numbers(r2, a) = 1 .. count2
  PROVE  Sure(a, count2, r2, c2, log2, [ss EXCEPT ![i] = to])
<1> DEFINE tt == [ss EXCEPT ![i] = to]
<1>1. tt[i] = to /\ \A j \in Slots(a) \ {i} : tt[j] = ss[j]
  OBVIOUS
<1>2. \A j \in Slots(a) \ {i} : tt[j].at = "idle"
  BY <1>1 DEF Sure
<1> HIDE DEF tt
<1>3. \A j, k \in Slots(a) : tt[j].at # "idle" /\ tt[k].at # "idle" => j = k
  BY <1>2
<1>4. ASSUME NEW j \in Slots(a)
      PROVE  /\ tt[j].at = "push" => tt[j].since = count2
             /\ tt[j].at = "count" => Numbers(r2, a) = 1 .. count2 + tt[j].tail
             /\ tt[j].at \in {"pull", "log"} => tt[j].since = c2
  <2>1. CASE j = i
    BY <1>1, <2>1
  <2>2. CASE j # i
    BY <1>2, <2>2
  <2> QED
    BY <2>1, <2>2
<1>5. (\A j \in Slots(a) : tt[j].at # "count") => Numbers(r2, a) = 1 .. count2
  BY <1>1
<1> QED
  BY <1>3, <1>4, <1>5 DEF Sure, tt
\* What is sure of a client, of one of its syncs.
LEMMA SureFacts ==
  ASSUME JournalInv, NEW a \in Authors, a \notin journalDoubt
  PROVE  /\ Sure(a, pushed[a], remote, cursor[a], converged[a], syncs[a])
         /\ NumbersRise(remote, a) /\ converged[a] = UpTo(cursor[a])
         /\ \A i \in Slots(a) :
              LET s == syncs[a][i]
              IN /\ s.at = "push" => s.since = pushed[a]
                 /\ s.at = "count" => Numbers(remote, a) = 1 .. pushed[a] + s.tail
                 /\ s.at \in {"pull", "log"} => s.since = cursor[a]
                 /\ s.at \notin {"idle", "count"} => Numbers(remote, a) = 1 .. pushed[a]
<1>1. Sure(a, pushed[a], remote, cursor[a], converged[a], syncs[a])
  BY JournalFacts DEF Client
<1>2. ASSUME NEW i \in Slots(a), syncs[a][i].at \notin {"idle", "count"}
      PROVE  Numbers(remote, a) = 1 .. pushed[a]
  <2>1. \A j \in Slots(a) : syncs[a][j].at # "count"
    BY <1>1, <1>2 DEF Sure
  <2> QED
    BY <1>1, <2>1 DEF Sure
<1> QED
  BY <1>1, <1>2 DEF Sure

\* The push is counted, and the cursor read.
LEMMA CountKeeps ==
  ASSUME JournalInv, NEW a \in Authors, NEW i \in Slots(a), CountPush(a, i)
  PROVE  JournalInv'
<1> DEFINE to == [Idle EXCEPT !.at = "pull", !.since = cursor[a]]
           count == pushed[a] + syncs[a][i].tail
<1>1. /\ cursor[a] \in Nat /\ count \in Nat /\ syncs[a][i].at = "count"
      /\ journalDoubt' = journalDoubt
  BY JournalFacts DEF Syncs, CountPush
<1>2. to \in Syncs /\ to.since = cursor[a] /\ to.at = "pull"
  <2>1. PICK since \in Nat : since = cursor[a]
    BY <1>1
  <2>2. to = [Idle EXCEPT !.at = "pull", !.since = since]
    BY <2>1
  <2> HIDE DEF to
  <2> QED
    BY <2>1, <2>2, PullSets
<1>3. Goes(a, i, to) /\ pushed' = [pushed EXCEPT ![a] = count]
  BY DEF CountPush, Count
<1> HIDE DEF to
<1>4. Fits(to, converged[a], remote)
  BY <1>2, JournalFacts DEF Fits, Client
<1>5. ASSUME a \notin journalDoubt
      PROVE  Sure(a, count, remote, cursor[a], converged[a],
                  [syncs[a] EXCEPT ![i] = to])
  <2>1. Numbers(remote, a) = 1 .. count
    BY <1>1, <1>5, SureFacts
  <2> HIDE DEF count
  <2>2. /\ Sure(a, pushed[a], remote, cursor[a], converged[a], syncs[a])
        /\ NumbersRise(remote, a) /\ converged[a] = UpTo(cursor[a])
        /\ syncs[a] \in [Slots(a) -> Syncs]
    BY <1>5, SureFacts, JournalFacts
  <2> QED
    BY <1>1, <1>2, <2>1, <2>2, OneSync
<1> HIDE DEF count
<1> QED
  BY <1>1, <1>2, <1>3, <1>4, <1>5, SyncMoves DEF CountPush

\* The entries after the cursor the sync read are pulled.
LEMMA PullKeeps ==
  ASSUME JournalInv, NEW a \in Authors, NEW i \in Slots(a), Pull(a, i)
  PROVE  JournalInv'
<1> DEFINE s == syncs[a][i]
           entries == [k \in 1 .. Len(remote) - s.since |-> s.since + k]
           to == [s EXCEPT !.at = "log", !.entries = entries]
<1>1. /\ s \in Syncs /\ s.at = "pull" /\ s.since \in Nat /\ pushed[a] \in Nat
      /\ Len(remote) \in Nat /\ journalDoubt' = journalDoubt /\ Goes(a, i, to)
      /\ Fits(s, converged[a], remote)
  BY JournalFacts DEF Pull, Syncs, Client
<1>2. entries = Between(s.since, Len(remote)) /\ entries \in Seq(Nat)
  <2>1. Len(remote) - s.since \in Nat
    BY <1>1 DEF Fits
  <2> QED
    BY <1>1, <2>1 DEF Between
<1> HIDE DEF s, entries
<1>3. to \in Syncs /\ to.since = s.since /\ to.at = "log" /\ to.entries = entries
  BY <1>1, <1>2 DEF Syncs, SyncSteps
<1> HIDE DEF to
<1>4. Fits(to, converged[a], remote)
  <2>1. Len(remote) \in s.since .. Len(remote)
    BY <1>1 DEF Fits
  <2> QED
    BY <1>1, <1>2, <1>3, <2>1 DEF Fits
<1>5. ASSUME a \notin journalDoubt
      PROVE  Sure(a, pushed[a], remote, cursor[a], converged[a],
                  [syncs[a] EXCEPT ![i] = to])
  <2>1. /\ s.since = cursor[a] /\ Numbers(remote, a) = 1 .. pushed[a]
        /\ syncs[a][i].at # "idle"
    BY <1>1, <1>5, SureFacts DEF s
  <2>2. /\ Sure(a, pushed[a], remote, cursor[a], converged[a], syncs[a])
        /\ NumbersRise(remote, a) /\ converged[a] = UpTo(cursor[a])
        /\ syncs[a] \in [Slots(a) -> Syncs]
    BY <1>5, SureFacts, JournalFacts
  <2> QED
    BY <1>3, <2>1, <2>2, OneSync
<1>6. /\ pushed' = [pushed EXCEPT ![a] = pushed[a]]
      /\ UNCHANGED <<localCount, remote, cursor, converged>>
  BY DEF Pull, JournalInv, JournalTypes
<1> QED
  BY <1>1, <1>3, <1>4, <1>5, <1>6, SyncMoves

\* A refused request: the sync is over.
LEMMA RefuseKeeps ==
  ASSUME JournalInv, NEW a \in Authors, NEW i \in Slots(a), Refuse(a, i)
  PROVE  JournalInv'
<1>1. /\ Idle \in Syncs /\ Idle.at = "idle" /\ pushed[a] \in Nat
      /\ syncs[a][i].at \in {"push", "pull"} /\ journalDoubt' = journalDoubt
      /\ Goes(a, i, Idle)
  BY JournalFacts DEF Refuse, Idle, Syncs, SyncSteps
<1>2. Fits(Idle, converged[a], remote)
  BY <1>1 DEF Fits
<1>3. ASSUME a \notin journalDoubt
      PROVE  Sure(a, pushed[a], remote, cursor[a], converged[a],
                  [syncs[a] EXCEPT ![i] = Idle])
  <2>1. Numbers(remote, a) = 1 .. pushed[a] /\ syncs[a][i].at # "idle"
    BY <1>1, <1>3, SureFacts
  <2>2. /\ Sure(a, pushed[a], remote, cursor[a], converged[a], syncs[a])
        /\ NumbersRise(remote, a) /\ converged[a] = UpTo(cursor[a])
        /\ syncs[a] \in [Slots(a) -> Syncs]
    BY <1>3, SureFacts, JournalFacts
  <2> QED
    BY <1>1, <2>1, <2>2, OneSync
<1>4. /\ pushed' = [pushed EXCEPT ![a] = pushed[a]]
      /\ UNCHANGED <<localCount, remote, cursor, converged>>
  BY DEF Refuse, JournalInv, JournalTypes
<1> QED
  BY <1>1, <1>2, <1>3, <1>4, SyncMoves

\* The log grows by the entries, and the cursor goes to the last of them.
LEMMA EntriesFollow ==
  ASSUME NEW log \in Seq(Nat), NEW since \in Nat, NEW m \in Nat, since <= m,
         1 .. since \subseteq ToSet(log)
  PROVE  /\ log \o Between(since, m) \in Seq(Nat)
         /\ ToSet(log) \subseteq ToSet(log \o Between(since, m))
         /\ 1 .. m \subseteq ToSet(log \o Between(since, m))
         /\ Between(since, m) = <<>> <=> since = m
         /\ since # m => Last(Between(since, m)) = m
         /\ log = UpTo(since) => log \o Between(since, m) = UpTo(m)
<1> DEFINE new == Between(since, m)
           grown == log \o new
<1>1. new \in Seq(Nat) /\ Len(new) = m - since /\ \A k \in 1 .. m - since : new[k] = since + k
  BY DEF Between
<1> HIDE DEF new
<1>2. /\ grown \in Seq(Nat) /\ Len(grown) = Len(log) + (m - since)
      /\ \A k \in 1 .. Len(log) : grown[k] = log[k]
      /\ \A k \in 1 .. m - since : grown[Len(log) + k] = since + k
  BY <1>1
<1> HIDE DEF grown
<1>3. ToSet(log) \subseteq ToSet(grown)
  <2> SUFFICES ASSUME NEW k \in 1 .. Len(log)
               PROVE  log[k] \in {grown[j] : j \in 1 .. Len(grown)}
    <3>1. DOMAIN log = 1 .. Len(log) /\ DOMAIN grown = 1 .. Len(grown)
      BY <1>2
    <3> QED
      BY <3>1 DEF ToSet
  <2>1. k \in 1 .. Len(grown) /\ grown[k] = log[k]
    BY <1>2
  <2> QED
    BY <2>1
<1>4. ASSUME NEW n \in 1 .. m PROVE n \in ToSet(grown)
  <2>1. CASE n <= since
    BY <1>3, <2>1
  <2>2. CASE n > since
    <3> DEFINE k == n - since
    <3>1. k \in 1 .. m - since /\ since + k = n
      BY <2>2
    <3> HIDE DEF k
    <3>2. grown[Len(log) + k] = n /\ Len(log) + k \in 1 .. Len(grown)
      BY <1>2, <3>1
    <3> QED
      BY <1>2, <3>2 DEF ToSet
  <2> QED
    BY <2>1, <2>2
<1>5. new = <<>> <=> since = m
  BY <1>1
<1>6. since # m => Last(new) = m
  BY <1>1 DEF Last
<1>7. ASSUME log = UpTo(since) PROVE grown = UpTo(m)
  <2>1. Len(log) = since /\ \A k \in 1 .. since : log[k] = k
    BY <1>7 DEF UpTo
  <2>2. Len(grown) = m
    BY <1>2, <2>1
  <2>3. ASSUME NEW k \in 1 .. m PROVE grown[k] = k
    <3>1. CASE k <= since
      BY <1>2, <2>1, <3>1
    <3>2. CASE k > since
      <4>1. k - since \in 1 .. m - since /\ since + (k - since) = k
        BY <3>2
      <4> QED
        BY <1>2, <2>1, <4>1
    <3> QED
      BY <3>1, <3>2
  <2>4. grown = [k \in 1 .. m |-> grown[k]]
    BY <1>2, <2>2
  <2> QED
    BY <2>3, <2>4 DEF UpTo
<1> QED
  BY <1>2, <1>3, <1>4, <1>5, <1>6, <1>7 DEF grown, new
\* What was pulled is kept: the log grows, and then the cursor moves.
LEMMA KeepKeeps ==
  ASSUME JournalInv, NEW a \in Authors, NEW i \in Slots(a), KeepEntries(a, i)
  PROVE  JournalInv'
<1> DEFINE s == syncs[a][i]
           log == converged[a] \o s.entries
           c == Pulled(a, s.entries)
           ss == [syncs[a] EXCEPT ![i] = Idle]
<1>1. /\ s \in Syncs /\ s.at = "log" /\ s.since \in Nat /\ pushed[a] \in Nat
      /\ remote \in Seq(Records) /\ Len(remote) \in Nat /\ cursor[a] \in Nat
      /\ converged[a] \in Seq(Nat) /\ syncs[a] \in [Slots(a) -> Syncs]
      /\ localCount[a] \in Nat
      /\ Fits(s, converged[a], remote)
      /\ Client(a, pushed[a], remote, cursor[a], converged[a], syncs[a], journalDoubt)
  BY JournalFacts DEF KeepEntries, Syncs, Client
<1>2. PICK m \in s.since .. Len(remote) : s.entries = Between(s.since, m)
  BY <1>1 DEF Fits
<1>3. 1 .. s.since \subseteq ToSet(converged[a]) /\ m \in Nat /\ s.since <= m
  BY <1>1, <1>2 DEF Fits
<1>4. /\ converged' = [converged EXCEPT ![a] = log]
      /\ cursor' = [cursor EXCEPT ![a] = c]
      /\ syncs' = [syncs EXCEPT ![a] = ss]
      /\ localCount' = [localCount EXCEPT ![a] = localCount[a]]
      /\ pushed' = [pushed EXCEPT ![a] = pushed[a]]
      /\ remote' = remote /\ journalDoubt' = journalDoubt
  BY DEF KeepEntries, Goes, JournalInv, JournalTypes
<1>5. /\ log \in Seq(Nat) /\ ToSet(converged[a]) \subseteq ToSet(log)
      /\ 1 .. m \subseteq ToSet(log)
      /\ c = IF s.since = m THEN cursor[a] ELSE m
      /\ converged[a] = UpTo(s.since) => log = UpTo(m)
  <2>1. PICK was \in Seq(Nat) : was = converged[a]
    BY <1>1
  <2>2. PICK since \in Nat : since = s.since
    BY <1>1
  <2>3. PICK n \in Nat : n = m
    BY <1>3
  <2>4. since <= n /\ 1 .. since \subseteq ToSet(was)
    BY <1>3, <2>1, <2>2, <2>3
  <2> DEFINE new == Between(since, n)
  <2>5. /\ was \o new \in Seq(Nat) /\ ToSet(was) \subseteq ToSet(was \o new)
        /\ 1 .. n \subseteq ToSet(was \o new)
        /\ new = <<>> <=> since = n
        /\ since # n => Last(new) = n
        /\ was = UpTo(since) => was \o new = UpTo(n)
    BY <2>4, EntriesFollow
  <2>6. s.entries = new
    BY <1>2, <2>2, <2>3
  <2> HIDE DEF new, s
  <2>7. c = IF since = n THEN cursor[a] ELSE n
    BY <2>5, <2>6 DEF Pulled
  <2>8. log = was \o new
    BY <2>1, <2>6
  <2> HIDE DEF log, c
  <2> QED
    BY <2>1, <2>2, <2>3, <2>5, <2>7, <2>8
<1>6. /\ Idle \in Syncs /\ Idle.at = "idle" /\ ss \in [Slots(a) -> Syncs]
      /\ ss[i] = Idle /\ \A j \in Slots(a) \ {i} : ss[j] = syncs[a][j]
  BY <1>1 DEF Idle, Syncs, SyncSteps
<1> HIDE DEF s, log, c
<1>7. /\ c \in Nat /\ c <= Len(remote) /\ 1 .. c \subseteq ToSet(log)
  BY <1>1, <1>2, <1>3, <1>5 DEF Client
<1>8. \A j \in Slots(a) : Fits(ss[j], log, remote)
  <2> SUFFICES ASSUME NEW j \in Slots(a) PROVE Fits(ss[j], log, remote)
    OBVIOUS
  <2>1. CASE j = i
    BY <1>6, <2>1 DEF Fits
  <2>2. CASE j # i
    <3>1. Fits(syncs[a][j], converged[a], remote) /\ ss[j] = syncs[a][j]
      BY <1>1, <1>6, <2>2 DEF Client
    <3> HIDE DEF ss
    <3> QED
      BY <1>5, <3>1 DEF Fits
  <2> QED
    BY <2>1, <2>2
<1>9. ASSUME a \notin journalDoubt
      PROVE  Sure(a, pushed[a], remote, c, log, ss)
  <2>1. /\ s.since = cursor[a] /\ Numbers(remote, a) = 1 .. pushed[a]
        /\ Sure(a, pushed[a], remote, cursor[a], converged[a], syncs[a])
        /\ NumbersRise(remote, a) /\ converged[a] = UpTo(cursor[a])
        /\ syncs[a][i].at # "idle"
    BY <1>1, <1>9, SureFacts DEF s
  <2>2. log = UpTo(c)
    BY <1>5, <2>1
  <2> HIDE DEF ss
  <2> QED
    BY <1>1, <1>6, <2>1, <2>2, OneSync DEF ss
<1> HIDE DEF ss
<1>10. Client(a, pushed[a], remote, c, log, ss, journalDoubt')
  BY <1>4, <1>7, <1>8, <1>9 DEF Client
<1> QED
  BY <1>1, <1>4, <1>5, <1>6, <1>7, <1>10, OneClientMoves

\* A tail goes to the remote: its records, after those there.
Listed(a, since, tail) == [k \in 1 .. tail |-> Written(a, since + k)]

\* The remote after such a push.
Grows(r, r2, a, since, tail) == r2 = r \o Listed(a, since, tail)

\* Another client's records stay where they are; this one's go on in order.
LEMMA RemoteGrows ==
  ASSUME NEW a \in Authors, NEW r \in Seq(Records), NEW since \in Nat, NEW tail \in Nat,
         NEW r2, Grows(r, r2, a, since, tail)
  PROVE  /\ r2 \in Seq(Records) /\ Len(r) <= Len(r2)
         /\ \A b \in Authors \ {a} : Numbers(r2, b) = Numbers(r, b)
         /\ \A b \in Authors \ {a} : NumbersRise(r, b) => NumbersRise(r2, b)
         /\ Numbers(r, a) = 1 .. since =>
              Numbers(r2, a) = 1 .. since + tail /\ (NumbersRise(r, a) => NumbersRise(r2, a))
<1> DEFINE new == Listed(a, since, tail)
<1>1. \A k \in 1 .. tail : /\ Written(a, since + k) \in Records
                          /\ Written(a, since + k).author = a
                          /\ Written(a, since + k).n = since + k
  BY DEF Written, Records
<1>2. /\ new \in Seq(Records) /\ Len(new) = tail
      /\ \A k \in 1 .. tail : new[k].author = a /\ new[k].n = since + k
  <2>1. \A k \in 1 .. tail : new[k] = Written(a, since + k)
    BY DEF Listed
  <2>2. new \in [1 .. tail -> Records]
    BY <1>1 DEF Listed
  <2> HIDE DEF new
  <2>3. new \in Seq(Records) /\ Len(new) = tail
    BY <2>2
  <2> QED
    BY <1>1, <2>1, <2>3
<1> HIDE DEF new
<1>3. /\ r2 \in Seq(Records) /\ Len(r) \in Nat /\ Len(r2) = Len(r) + tail
      /\ \A k \in 1 .. Len(r) : r2[k] = r[k]
      /\ \A k \in 1 .. Len(r2) : k > Len(r) => r2[k].author = a /\ r2[k].n = since + (k - Len(r))
  <2>1. r2 = r \o new
    BY DEF new, Grows
  <2>2. /\ r2 \in Seq(Records) /\ Len(r2) = Len(r) + tail /\ Len(r) \in Nat
        /\ \A k \in 1 .. Len(r) : r2[k] = r[k]
        /\ \A k \in 1 .. Len(r2) : k > Len(r) => r2[k] = new[k - Len(r)]
    <3>1. /\ r \o new \in Seq(Records) /\ Len(r \o new) = Len(r) + Len(new)
          /\ \A k \in 1 .. Len(r) + Len(new) :
               (r \o new)[k] = IF k <= Len(r) THEN r[k] ELSE new[k - Len(r)]
      BY <1>2, ConcatProperties
    <3>2. Len(r) \in Nat /\ Len(new) = tail
      BY <1>2
    <3> QED
      BY <2>1, <3>1, <3>2
  <2>3. ASSUME NEW k \in 1 .. Len(r2), k > Len(r)
        PROVE  r2[k].author = a /\ r2[k].n = since + (k - Len(r))
    <3>1. k - Len(r) \in 1 .. tail /\ r2[k] = new[k - Len(r)]
      BY <2>2, <2>3
    <3> QED
      BY <1>2, <3>1
  <2> QED
    BY <2>2, <2>3
<1>4. DOMAIN r = 1 .. Len(r) /\ DOMAIN r2 = 1 .. Len(r2)
  BY <1>3
<1>5. \A k \in 1 .. Len(r) : r[k].n \in Nat
  <2>1. \A k \in 1 .. Len(r) : r[k] \in Records
    OBVIOUS
  <2> QED
    BY <2>1 DEF Records
<1>6. ASSUME NEW b \in Authors \ {a}
      PROVE  Numbers(r2, b) = Numbers(r, b) /\ (NumbersRise(r, b) => NumbersRise(r2, b))
  <2>1. \A k \in 1 .. Len(r2) : r2[k].author = b => k \in 1 .. Len(r)
    BY <1>3
  <2>2. Numbers(r2, b) = Numbers(r, b)
    <3>1. ASSUME NEW n \in Numbers(r2, b) PROVE n \in Numbers(r, b)
      <4>1. PICK k \in 1 .. Len(r2) : r2[k].author = b /\ r2[k].n = n
        BY <1>4 DEF Numbers
      <4>2. k \in 1 .. Len(r) /\ r[k].author = b /\ r[k].n = n
        BY <1>3, <2>1, <4>1
      <4> QED
        BY <1>4, <4>2 DEF Numbers
    <3>2. ASSUME NEW n \in Numbers(r, b) PROVE n \in Numbers(r2, b)
      <4>1. PICK k \in 1 .. Len(r) : r[k].author = b /\ r[k].n = n
        BY <1>4 DEF Numbers
      <4>2. k \in 1 .. Len(r2) /\ r2[k].author = b /\ r2[k].n = n
        BY <1>3, <4>1
      <4> QED
        BY <1>4, <4>2 DEF Numbers
    <3> QED
      BY <3>1, <3>2
  <2>3. ASSUME NumbersRise(r, b) PROVE NumbersRise(r2, b)
    BY <1>3, <1>4, <2>1, <2>3 DEF NumbersRise
  <2> QED
    BY <2>2, <2>3
<1>7. ASSUME Numbers(r, a) = 1 .. since
      PROVE  Numbers(r2, a) = 1 .. since + tail
  <2>1. ASSUME NEW n \in Numbers(r2, a) PROVE n \in 1 .. since + tail
    <3>1. PICK k \in 1 .. Len(r2) : r2[k].author = a /\ r2[k].n = n
      BY <1>4 DEF Numbers
    <3>2. CASE k <= Len(r)
      <4>1. k \in 1 .. Len(r) /\ r[k].author = a /\ r[k].n = n
        BY <1>3, <3>1, <3>2
      <4>2. n \in Numbers(r, a)
        BY <1>4, <4>1 DEF Numbers
      <4> QED
        BY <1>7, <4>2
    <3>3. CASE k > Len(r)
      BY <1>3, <3>1, <3>3
    <3> QED
      BY <1>3, <3>2, <3>3
  <2>2. ASSUME NEW n \in 1 .. since + tail PROVE n \in Numbers(r2, a)
    <3>1. CASE n <= since
      <4>1. n \in Numbers(r, a)
        BY <1>7, <3>1
      <4>2. PICK k \in 1 .. Len(r) : r[k].author = a /\ r[k].n = n
        BY <1>4, <4>1 DEF Numbers
      <4>3. k \in 1 .. Len(r2) /\ r2[k].author = a /\ r2[k].n = n
        BY <1>3, <4>2
      <4> QED
        BY <1>4, <4>3 DEF Numbers
    <3>2. CASE n > since
      <4> DEFINE k == Len(r) + (n - since)
      <4>1. k \in 1 .. Len(r2) /\ k > Len(r) /\ since + (k - Len(r)) = n
        BY <1>3, <3>2
      <4> HIDE DEF k
      <4>2. r2[k].author = a /\ r2[k].n = n
        BY <1>3, <4>1
      <4> QED
        BY <1>4, <4>1, <4>2 DEF Numbers
    <3> QED
      BY <3>1, <3>2
  <2> QED
    BY <2>1, <2>2
<1>8. ASSUME Numbers(r, a) = 1 .. since, NumbersRise(r, a) PROVE NumbersRise(r2, a)
  <2> SUFFICES ASSUME NEW i \in 1 .. Len(r2), NEW j \in 1 .. Len(r2), i < j,
                      r2[i].author = a, r2[j].author = a
               PROVE  r2[i].n < r2[j].n
    BY <1>4 DEF NumbersRise
  <2>1. CASE j <= Len(r)
    <3>1. i \in 1 .. Len(r) /\ j \in 1 .. Len(r)
      BY <1>3, <2>1
    <3> QED
      BY <1>3, <1>4, <1>8, <3>1 DEF NumbersRise
  <2>2. CASE j > Len(r) /\ i <= Len(r)
    <3>1. i \in 1 .. Len(r) /\ r2[i] = r[i]
      BY <1>3, <2>2
    <3>2. r[i].n \in Numbers(r, a)
      BY <1>4, <3>1 DEF Numbers
    <3>3. r2[i].n <= since /\ r2[i].n \in Nat
      BY <1>8, <3>1, <3>2
    <3>4. r2[j].n = since + (j - Len(r))
      BY <1>3, <2>2
    <3> QED
      BY <1>3, <2>2, <3>3, <3>4
  <2>3. CASE i > Len(r)
    <3>1. r2[i].n = since + (i - Len(r))
      BY <1>3, <2>3
    <3>2. j > Len(r)
      BY <1>3, <2>3
    <3>3. r2[j].n = since + (j - Len(r))
      BY <1>3, <3>2
    <3> QED
      BY <1>3, <3>1, <3>3
  <2> QED
    BY <1>3, <2>1, <2>2, <2>3
<1> QED
  BY <1>3, <1>6, <1>7, <1>8
\* The tail of a sync is on the remote; its answer is heard, or is lost.
LEMMA PushKeeps ==
  ASSUME JournalInv, NEW a \in Authors, NEW i \in Slots(a), Push(a, i)
  PROVE  JournalInv'
<1>1. /\ syncs[a][i] \in Syncs /\ syncs[a][i].at = "push"
      /\ syncs[a][i].since \in Nat /\ syncs[a][i].tail \in Nat
      /\ syncs[a] \in [Slots(a) -> Syncs] /\ remote \in Seq(Records)
  BY JournalFacts DEF Push, Syncs
<1>2. PICK since \in Nat : since = syncs[a][i].since
  BY <1>1
<1>3. PICK tail \in Nat : tail = syncs[a][i].tail
  BY <1>1
<1>4. /\ remote' = remote \o Listed(a, since, tail)
      /\ UNCHANGED <<localCount, pushed, cursor, converged>>
      /\ journalDoubt' \subseteq journalDoubt \union {a}
      /\ journalDoubt \subseteq journalDoubt'
  BY <1>2, <1>3 DEF Push, Listed
<1>5. PICK to \in Syncs :
        /\ Goes(a, i, to)
        /\ to.at \in {"idle", "count"}
        /\ to.at = "count" => to.tail = tail
        /\ to.at = "idle" => a \in journalDoubt'
  <2>1. CASE Goes(a, i, Idle) /\ journalDoubt' = journalDoubt \union {a}
    <3>1. Idle \in Syncs /\ Idle.at = "idle"
      BY DEF Idle, Syncs, SyncSteps
    <3> QED
      BY <2>1, <3>1
  <2>2. CASE Goes(a, i, [syncs[a][i] EXCEPT !.at = "count"])
    <3> DEFINE to == [syncs[a][i] EXCEPT !.at = "count"]
    <3>1. to \in Syncs /\ to.at = "count" /\ to.tail = tail
      BY <1>1, <1>3 DEF Syncs, SyncSteps
    <3> QED
      BY <2>2, <3>1
  <2> QED
    BY <2>1, <2>2 DEF Push
<1>6. /\ remote' \in Seq(Records) /\ Len(remote) <= Len(remote')
      /\ \A b \in Authors \ {a} : Numbers(remote', b) = Numbers(remote, b)
      /\ \A b \in Authors \ {a} : NumbersRise(remote, b) => NumbersRise(remote', b)
      /\ Numbers(remote, a) = 1 .. since =>
           /\ Numbers(remote', a) = 1 .. since + tail
           /\ NumbersRise(remote, a) => NumbersRise(remote', a)
  <2>1. remote \in Seq(Records) /\ Grows(remote, remote', a, since, tail)
    BY <1>1, <1>4 DEF Grows
  <2> QED
    BY <2>1, RemoteGrows
<1> DEFINE ss == [syncs[a] EXCEPT ![i] = to]
<1>7. /\ ss \in [Slots(a) -> Syncs] /\ ss[i] = to
      /\ \A j \in Slots(a) \ {i} : ss[j] = syncs[a][j]
      /\ syncs' = [syncs EXCEPT ![a] = ss]
  BY <1>1, <1>5 DEF Goes
<1>8. DOMAIN syncs = Authors /\ Len(remote) \in Nat /\ Len(remote') \in Nat
  BY <1>1, <1>6 DEF JournalInv, JournalTypes
<1>9. ASSUME NEW b \in Authors, NEW log, NEW s \in Syncs, Fits(s, log, remote)
      PROVE  Fits(s, log, remote')
  <2>1. s.at \in {"pull", "log"} => s.since <= Len(remote')
    BY <1>6, <1>8, <1>9 DEF Fits, Syncs
  <2>2. s.at = "log" =>
          \E m \in s.since .. Len(remote') : s.entries = Between(s.since, m)
    BY <1>6, <1>8, <1>9 DEF Fits
  <2> QED
    BY <1>9, <2>1, <2>2 DEF Fits
<1>10. a \notin journalDoubt' =>
         Sure(a, pushed[a], remote', cursor[a], converged[a], ss)
  <2> SUFFICES ASSUME a \notin journalDoubt'
               PROVE  Sure(a, pushed[a], remote', cursor[a], converged[a], ss)
    OBVIOUS
  <2>1. /\ since = pushed[a] /\ Numbers(remote, a) = 1 .. since
        /\ Sure(a, pushed[a], remote, cursor[a], converged[a], syncs[a])
        /\ NumbersRise(remote, a) /\ converged[a] = UpTo(cursor[a])
    BY <1>1, <1>2, <1>4, SureFacts
  <2>2. /\ to.at = "count" /\ Numbers(remote', a) = 1 .. pushed[a] + to.tail
        /\ NumbersRise(remote', a)
    BY <1>5, <1>6, <2>1
  <2> QED
    BY <1>1, <2>1, <2>2, OneSync
<1> HIDE DEF ss
<1>11. Client(a, pushed[a], remote', cursor[a], converged[a], ss, journalDoubt')
  <2>1. Client(a, pushed[a], remote, cursor[a], converged[a], syncs[a], journalDoubt)
    BY JournalFacts
  <2>2. /\ 1 .. cursor[a] \subseteq ToSet(converged[a]) /\ cursor[a] <= Len(remote')
        /\ \A j \in Slots(a) \ {i} : Fits(ss[j], converged[a], remote')
    <3>1. cursor[a] \in Nat
      BY JournalFacts
    <3> QED
      BY <1>6, <1>7, <1>8, <1>9, <2>1, <3>1 DEF Client
  <2>3. Fits(ss[i], converged[a], remote')
    BY <1>5, <1>7 DEF Fits
  <2> QED
    BY <1>10, <2>2, <2>3 DEF Client
<1>12. ASSUME NEW b \in Authors \ {a}
       PROVE  Client(b, pushed[b], remote', cursor[b], converged[b], syncs[b],
                     journalDoubt')
  <2>1. Client(b, pushed[b], remote, cursor[b], converged[b], syncs[b], journalDoubt)
    BY JournalFacts
  <2>2. /\ 1 .. cursor[b] \subseteq ToSet(converged[b]) /\ cursor[b] <= Len(remote')
        /\ \A j \in Slots(b) : Fits(syncs[b][j], converged[b], remote')
    <3>1. cursor[b] \in Nat
      BY JournalFacts
    <3>2. \A j \in Slots(b) : syncs[b][j] \in Syncs
      BY JournalFacts
    <3> QED
      BY <1>6, <1>8, <1>9, <2>1, <3>1, <3>2 DEF Client
  <2>3. b \notin journalDoubt' =>
          Sure(b, pushed[b], remote', cursor[b], converged[b], syncs[b])
    BY <1>4, <1>6, <2>1 DEF Client, Sure
  <2> QED
    BY <2>2, <2>3 DEF Client
<1>13. ASSUME NEW b \in Authors
       PROVE  Client(b, pushed'[b], remote', cursor'[b], converged'[b], syncs'[b],
                     journalDoubt')
  <2>1. CASE b = a
    <3>1. syncs'[b] = ss
      BY <1>7, <1>8, <2>1
    <3> QED
      BY <1>4, <1>11, <2>1, <3>1
  <2>2. CASE b # a
    <3>1. syncs'[b] = syncs[b]
      BY <1>7, <1>8, <2>2
    <3> QED
      BY <1>4, <1>12, <2>2, <3>1
  <2> QED
    BY <2>1, <2>2
<1>14. JournalTypes'
  <2>1. \A b \in Authors : syncs'[b] \in [Slots(b) -> Syncs]
    BY <1>7, <1>8 DEF JournalInv, JournalTypes
  <2>2. DOMAIN syncs' = Authors
    BY <1>7, <1>8
  <2> QED
    BY <1>4, <1>6, <2>1, <2>2 DEF JournalInv, JournalTypes
<1> QED
  BY <1>13, <1>14 DEF JournalInv

\* Every step keeps the invariant.
LEMMA JournalStep == JournalInv /\ [JournalNext]_journalVars => JournalInv'
<1> SUFFICES ASSUME JournalInv, [JournalNext]_journalVars PROVE JournalInv'
  OBVIOUS
<1>1. CASE UNCHANGED journalVars
  BY <1>1 DEF journalVars, JournalInv, JournalTypes
<1>2. ASSUME NEW a \in Authors, AppendRecord(a) PROVE JournalInv'
  BY <1>2, EntriesAppend
<1>3. ASSUME NEW a \in Authors, NEW i \in Slots(a),
             \/ BeginSync(a, i) \/ Push(a, i) \/ CountPush(a, i)
             \/ Pull(a, i) \/ KeepEntries(a, i) \/ Refuse(a, i)
      PROVE  JournalInv'
  BY <1>3, BeginKeeps, PushKeeps, CountKeeps, PullKeeps, KeepKeeps, RefuseKeeps
<1> QED
  BY <1>1, <1>2, <1>3 DEF JournalNext

\* As many records of a client, at least, as it has numbers on the remote.
LEMMA NumbersFit ==
  ASSUME NEW r \in Seq(Records), NEW a \in Authors, NEW n \in Nat,
         Numbers(r, a) = 1 .. n
  PROVE  n <= Len(r)
<1> DEFINE own == {j \in 1 .. Len(r) : r[j].author = a}
           f == [j \in own |-> r[j].n]
<1>1. Len(r) \in Nat /\ DOMAIN r = 1 .. Len(r)
  OBVIOUS
<1>2. IsFiniteSet(1 .. Len(r)) /\ Cardinality(1 .. Len(r)) = Len(r)
  <2>1. PICK m \in Nat : m = Len(r)
    BY <1>1
  <2>2. IsFiniteSet(1 .. m) /\ Cardinality(1 .. m) = m
    BY FS_Interval
  <2> QED
    BY <2>1, <2>2
<1>3. /\ IsFiniteSet(own) /\ Cardinality(own) \in Nat
      /\ Cardinality(own) <= Len(r)
  <2>1. own \in SUBSET (1 .. Len(r))
    OBVIOUS
  <2> HIDE DEF own
  <2>2. IsFiniteSet(own) /\ Cardinality(own) <= Cardinality(1 .. Len(r))
    BY <1>2, <2>1, FS_Subset
  <2> QED
    BY <1>2, <2>2, FS_CardinalityType
<1>4. \A j \in own : r[j].n \in 1 .. n
  BY <1>1 DEF Numbers
<1>5. \A k \in 1 .. n : \E j \in own : r[j].n = k
  BY <1>1 DEF Numbers
<1> HIDE DEF own
<1>6. f \in Surjection(own, 1 .. n)
  BY <1>4, <1>5 DEF Surjection
<1> HIDE DEF f
<1>7. Cardinality(1 .. n) <= Cardinality(own)
  BY <1>3, <1>6, FS_Surjection
<1>8. Cardinality(1 .. n) = n
  BY FS_Interval
<1> QED
  BY <1>1, <1>3, <1>7, <1>8

\* The invariant says what JournalsConverge does.
LEMMA JournalInvConverges == JournalInv => JournalsConverge
<1> SUFFICES ASSUME JournalInv, NEW a \in Authors
             PROVE  /\ 1 .. cursor[a] \subseteq ToSet(converged[a])
                    /\ a \notin journalDoubt =>
                         /\ \E n \in pushed[a] .. Len(remote) : OwnNumbers(a) = 1 .. n
                         /\ \A i, j \in OwnSeqs(a) : i < j => remote[i].n < remote[j].n
                         /\ converged[a] = UpTo(Len(converged[a]))
  BY DEF JournalsConverge
<1>1. 1 .. cursor[a] \subseteq ToSet(converged[a])
  BY JournalFacts DEF Client
<1> SUFFICES ASSUME a \notin journalDoubt
             PROVE  /\ \E n \in pushed[a] .. Len(remote) : OwnNumbers(a) = 1 .. n
                    /\ \A i, j \in OwnSeqs(a) : i < j => remote[i].n < remote[j].n
                    /\ converged[a] = UpTo(Len(converged[a]))
  BY <1>1
<1>2. /\ Sure(a, pushed[a], remote, cursor[a], converged[a], syncs[a])
      /\ NumbersRise(remote, a) /\ converged[a] = UpTo(cursor[a])
      /\ pushed[a] \in Nat /\ cursor[a] \in Nat /\ syncs[a] \in [Slots(a) -> Syncs]
      /\ remote \in Seq(Records) /\ Len(remote) \in Nat
  BY SureFacts, JournalFacts
<1>3. converged[a] = UpTo(Len(converged[a]))
  <2>1. Len(UpTo(cursor[a])) = cursor[a]
    BY <1>2 DEF UpTo
  <2> QED
    BY <1>2, <2>1
<1>4. \A i, j \in OwnSeqs(a) : i < j => remote[i].n < remote[j].n
  BY <1>2 DEF NumbersRise, OwnSeqs
<1>5. PICK n \in Nat : pushed[a] <= n /\ Numbers(remote, a) = 1 .. n
  <2>1. CASE \A i \in Slots(a) : syncs[a][i].at # "count"
    BY <1>2, <2>1 DEF Sure
  <2>2. ASSUME NEW i \in Slots(a), syncs[a][i].at = "count"
        PROVE  \E n \in Nat : pushed[a] <= n /\ Numbers(remote, a) = 1 .. n
    <3>1. syncs[a][i].tail \in Nat
      BY <1>2 DEF Syncs
    <3>2. Numbers(remote, a) = 1 .. pushed[a] + syncs[a][i].tail
      BY <1>2, <2>2 DEF Sure
    <3> QED
      BY <1>2, <3>1, <3>2
  <2> QED
    BY <2>1, <2>2
<1>6. OwnNumbers(a) = Numbers(remote, a)
  BY DEF OwnNumbers, OwnSeqs, Numbers
<1>7. n <= Len(remote)
  BY <1>2, <1>5, <1>6, NumbersFit
<1> QED
  BY <1>2, <1>3, <1>4, <1>5, <1>6, <1>7

(* The clients converge on the remote's order, whatever appends, syncs that *)
(* overlap, refusals and lost answers the journals see (remote.ts).        *)
THEOREM JournalsStayConverged == JournalSpec => []JournalsConverge
<1>1. JournalSpec => []JournalInv
  BY JournalStarts, JournalStep, PTL DEF JournalSpec
<1> QED
  BY <1>1, JournalInvConverges, PTL

-----------------------------------------------------------------------------
(* The bridge.  While the run is up and its observers told, a page that is *)
(* open has its question on the way, or was last told the run's State.     *)

\* What a surface sends; what it shows.
Asking == [does : {"hydrate", "dispatch"}, from : Surface]
\* A page and the State it shows.
Frames == [open : BOOLEAN, state : Nat]

\* The types.
BridgeTypes ==
  /\ worker \in {"down", "booting", "up"} /\ hostState \in Nat \ {0}
  /\ untold \in BOOLEAN /\ line \in Nat /\ asked \in Seq(Asking)
  /\ sent \in [Surface -> Seq(Nat)] /\ shown \in [Surface -> Frames]

\* The question of a page is on its way.
Asks(s, msgs) == \E i \in DOMAIN msgs : msgs[i].does = "hydrate" /\ msgs[i].from = s

\* The last State on the way to a page, or the one it shows if there is none.
Told(msgs, seen, of) ==
  \/ seen = of /\ \A i \in DOMAIN msgs : msgs[i] = 0
  \/ \E i \in DOMAIN msgs :
       /\ msgs[i] = of
       /\ \A j \in DOMAIN msgs : j > i => msgs[j] = 0

\* While the run is up and its observers told, an open page is asking, or is
\* about to show its State.
BridgeInv ==
  /\ BridgeTypes
  /\ untold => worker = "up"
  /\ worker = "up" /\ ~untold =>
       \A s \in Surface :
         shown[s].open => Asks(s, asked) \/ Told(sent[s], shown[s].state, hostState)

\* A State that is sent is the last one sent.
LEMMA TellsLast ==
  ASSUME NEW msgs \in Seq(Nat), NEW of \in Nat, NEW seen
  PROVE  Append(msgs, of) \in Seq(Nat) /\ Told(Append(msgs, of), seen, of)
<1>1. /\ Append(msgs, of) \in Seq(Nat) /\ Len(msgs) \in Nat
      /\ Len(Append(msgs, of)) = Len(msgs) + 1
      /\ Append(msgs, of)[Len(msgs) + 1] = of
  OBVIOUS
<1> DEFINE m == Append(msgs, of)
<1>2. Len(msgs) + 1 \in DOMAIN m /\ \A j \in DOMAIN m : ~(j > Len(msgs) + 1)
  BY <1>1
<1> HIDE DEF m
<1>3. m[Len(msgs) + 1] = of
  BY <1>1 DEF m
<1>4. Told(m, seen, of)
  BY <1>2, <1>3 DEF Told
<1> QED
  BY <1>1, <1>4 DEF m

\* A page that hears the first message shows it, or nothing new if it is null.
LEMMA HearsFirst ==
  ASSUME NEW msgs \in Seq(Nat), msgs # <<>>, NEW seen \in Nat, NEW of \in Nat \ {0},
         Told(msgs, seen, of)
  PROVE  Told(Tail(msgs), IF Head(msgs) = 0 THEN seen ELSE Head(msgs), of)
<1>1. /\ Len(msgs) \in Nat \ {0} /\ Head(msgs) = msgs[1]
      /\ Tail(msgs) \in Seq(Nat) /\ Len(Tail(msgs)) = Len(msgs) - 1
      /\ \A i \in 1 .. Len(msgs) - 1 : Tail(msgs)[i] = msgs[i + 1]
      /\ DOMAIN msgs = 1 .. Len(msgs)
  OBVIOUS
<1>2. DOMAIN Tail(msgs) = 1 .. Len(msgs) - 1
  BY <1>1
<1> DEFINE t == Tail(msgs)
<1> HIDE DEF t
<1>3. PICK n \in Nat \ {0} : n = Len(msgs)
  BY <1>1
<1>4. /\ DOMAIN t = 1 .. n - 1 /\ DOMAIN msgs = 1 .. n
      /\ \A i \in 1 .. n - 1 : t[i] = msgs[i + 1]
  BY <1>1, <1>2, <1>3 DEF t
<1>5. CASE seen = of /\ \A i \in DOMAIN msgs : msgs[i] = 0
  <2>1. Head(msgs) = 0
    <3>1. 1 \in DOMAIN msgs
      BY <1>4
    <3> QED
      BY <1>1, <1>5, <3>1
  <2>2. ASSUME NEW i \in DOMAIN t PROVE t[i] = 0
    <3>1. i \in 1 .. n - 1 /\ i + 1 \in DOMAIN msgs
      BY <1>4
    <3> QED
      BY <1>4, <1>5, <3>1
  <2> QED
    BY <1>5, <2>1, <2>2 DEF Told, t
<1>6. ASSUME NEW i \in DOMAIN msgs, msgs[i] = of,
             \A j \in DOMAIN msgs : j > i => msgs[j] = 0
      PROVE  Told(t, IF Head(msgs) = 0 THEN seen ELSE Head(msgs), of)
  <2>1. CASE i = 1
    <3>1. Head(msgs) = of
      BY <1>1, <1>6, <2>1
    <3>2. ASSUME NEW k \in DOMAIN t PROVE t[k] = 0
      <4>1. k \in 1 .. n - 1
        BY <1>4
      <4>2. k + 1 \in 1 .. n /\ k + 1 > 1 /\ t[k] = msgs[k + 1]
        BY <1>4, <4>1
      <4> QED
        BY <1>4, <1>6, <2>1, <4>2
    <3> QED
      BY <3>1, <3>2 DEF Told
  <2>2. CASE i # 1
    <3>1. i \in 2 .. n /\ i - 1 \in 1 .. n - 1 /\ (i - 1) + 1 = i
      BY <1>4, <2>2
    <3>2. t[i - 1] = of /\ i - 1 \in DOMAIN t
      BY <1>4, <1>6, <3>1
    <3>3. ASSUME NEW k \in 1 .. n - 1, k > i - 1 PROVE t[k] = 0
      <4>1. k + 1 \in 1 .. n /\ k + 1 > i
        BY <3>1, <3>3
      <4>2. t[k] = msgs[k + 1]
        BY <1>4
      <4> QED
        BY <1>4, <1>6, <4>1, <4>2
    <3> QED
      BY <1>4, <3>2, <3>3 DEF Told
  <2> QED
    BY <2>1, <2>2
<1> QED
  BY <1>5, <1>6 DEF Told, t

\* A question stays on its way behind what is taken, and before what comes.
LEMMA StillAsks ==
  ASSUME NEW msgs \in Seq(Asking), NEW s \in Surface, Asks(s, msgs)
  PROVE  /\ \A m \in Asking : Asks(s, Append(msgs, m))
         /\ msgs # <<>> /\ ~(Head(msgs).does = "hydrate" /\ Head(msgs).from = s)
            => Asks(s, Tail(msgs))
<1>1. PICK i \in 1 .. Len(msgs) : msgs[i].does = "hydrate" /\ msgs[i].from = s
  BY DEF Asks
<1>2. Len(msgs) \in Nat
  OBVIOUS
<1>3. ASSUME NEW m \in Asking PROVE Asks(s, Append(msgs, m))
  <2>1. i \in DOMAIN Append(msgs, m) /\ Append(msgs, m)[i] = msgs[i]
    OBVIOUS
  <2> QED
    BY <1>1, <2>1 DEF Asks
<1>4. ASSUME msgs # <<>>, ~(Head(msgs).does = "hydrate" /\ Head(msgs).from = s)
      PROVE  Asks(s, Tail(msgs))
  <2>1. Head(msgs) = msgs[1]
    BY <1>4
  <2>2. i # 1
    BY <1>1, <1>4, <2>1
  <2>3. i - 1 \in 1 .. Len(msgs) - 1 /\ (i - 1) + 1 = i
    BY <1>2, <2>2
  <2>4. /\ Len(Tail(msgs)) = Len(msgs) - 1 /\ DOMAIN Tail(msgs) = 1 .. Len(msgs) - 1
        /\ \A k \in 1 .. Len(msgs) - 1 : Tail(msgs)[k] = msgs[k + 1]
    BY <1>4
  <2>5. i - 1 \in DOMAIN Tail(msgs) /\ Tail(msgs)[i - 1] = msgs[i]
    BY <2>3, <2>4
  <2> QED
    BY <1>1, <2>5 DEF Asks
<1> QED
  BY <1>3, <1>4

\* A page that goes takes no question of another with it.
LEMMA OthersAsk ==
  ASSUME NEW msgs \in Seq(Asking), NEW S, NEW s \in Surface, Asks(s, msgs),
         \A i \in DOMAIN msgs : msgs[i].from = s => msgs[i] \in S
  PROVE  Asks(s, Kept(msgs, S))
<1> DEFINE kept == Kept(msgs, S)
<1> HIDE DEF kept
<1>1. kept \in Seq(Asking) /\ \E h : Picks(h, kept, msgs, Len(msgs), S)
  BY KeptPicks DEF kept
<1>2. PICK h : Picks(h, kept, msgs, Len(msgs), S)
  BY <1>1
<1>3. PICK k \in 1 .. Len(msgs) :
        msgs[k].does = "hydrate" /\ msgs[k].from = s /\ msgs[k] \in S
  BY DEF Asks
<1>4. PICK i \in 1 .. Len(kept) : h[i] = k
  BY <1>2, <1>3 DEF Picks
<1>5. i \in DOMAIN kept /\ kept[i] = msgs[k]
  BY <1>1, <1>2, <1>4 DEF Picks
<1> QED
  BY <1>3, <1>5 DEF Asks, kept

\* It holds at the start.
LEMMA BridgeStarts == BridgeInit => BridgeInv
<1> SUFFICES ASSUME BridgeInit PROVE BridgeInv
  OBVIOUS
<1>1. Shut \in Frames /\ <<>> \in Seq(Nat) /\ <<>> \in Seq(Asking)
  BY DEF Frames, Shut
<1>2. BridgeTypes
  <2>1. sent \in [Surface -> Seq(Nat)] /\ shown \in [Surface -> Frames]
    BY <1>1 DEF BridgeInit
  <2>2. asked \in Seq(Asking)
    BY <1>1 DEF BridgeInit
  <2>3. worker \in {"down", "booting", "up"} /\ untold \in BOOLEAN
    BY Zenon DEF BridgeInit
  <2>4. hostState \in Nat \ {0} /\ line \in Nat
    BY DEF BridgeInit
  <2> QED
    BY <2>1, <2>2, <2>3, <2>4 DEF BridgeTypes
<1>3. \A s \in Surface : ~shown[s].open
  BY DEF BridgeInit, Shut
<1> QED
  BY <1>2, <1>3 DEF BridgeInv, BridgeInit

\* Every step keeps it.
LEMMA BridgeStep == BridgeInv /\ [BridgeNext]_bridgeVars => BridgeInv'
<1> SUFFICES ASSUME BridgeInv, [BridgeNext]_bridgeVars PROVE BridgeInv'
  OBVIOUS
<1>1. /\ worker \in {"down", "booting", "up"} /\ hostState \in Nat \ {0}
      /\ untold \in BOOLEAN /\ line \in Nat /\ asked \in Seq(Asking)
      /\ sent \in [Surface -> Seq(Nat)] /\ shown \in [Surface -> Frames]
      /\ untold => worker = "up"
  BY DEF BridgeInv, BridgeTypes
<1>2. ASSUME worker = "up", ~untold, NEW s \in Surface, shown[s].open
      PROVE  Asks(s, asked) \/ Told(sent[s], shown[s].state, hostState)
  BY <1>2 DEF BridgeInv
<1>3. CASE UNCHANGED bridgeVars
  BY <1>3 DEF bridgeVars, BridgeInv, BridgeTypes
<1>4. ASSUME NEW s \in Surface, OpenSurface(s) PROVE BridgeInv'
  <2> DEFINE m == [does |-> "hydrate", from |-> s]
  <2>1. /\ asked' = Append(asked, m) /\ shown' = [shown EXCEPT ![s] = Showing(0)]
        /\ UNCHANGED <<worker, hostState, untold, line, sent>>
    BY <1>4 DEF OpenSurface, FirstAsks
  <2>2. m \in Asking /\ m.does = "hydrate" /\ m.from = s
    BY DEF Asking
  <2> HIDE DEF m
  <2>3. Showing(0) \in Frames
    BY DEF Showing, Frames
  <2>4. asked' \in Seq(Asking)
    BY <1>1, <2>1, <2>2
  <2>5. BridgeTypes'
    BY <1>1, <2>1, <2>3, <2>4 DEF BridgeTypes
  <2>6. Asks(s, asked')
    <3>1. Len(asked) + 1 \in DOMAIN asked' /\ asked'[Len(asked) + 1] = m
      BY <1>1, <2>1, <2>2
    <3> QED
      BY <2>2, <3>1 DEF Asks
  <2>7. ASSUME worker' = "up", ~untold', NEW o \in Surface, shown'[o].open, o # s
        PROVE  Asks(o, asked') \/ Told(sent'[o], shown'[o].state, hostState')
    <3>1. shown'[o] = shown[o] /\ shown[o].open /\ sent'[o] = sent[o]
      BY <1>1, <2>1, <2>7
    <3>2. Asks(o, asked) \/ Told(sent[o], shown[o].state, hostState)
      BY <1>2, <2>1, <2>7, <3>1
    <3>3. Asks(o, asked) => Asks(o, asked')
      BY <1>1, <2>1, <2>2, StillAsks
    <3> QED
      BY <2>1, <3>1, <3>2, <3>3
  <2> QED
    BY <1>1, <2>1, <2>5, <2>6, <2>7 DEF BridgeInv
<1>5. ASSUME NEW s \in Surface, ShutSurface(s) PROVE BridgeInv'
  <2> DEFINE S == {m \in ToSet(asked) : m.from # s \/ m.does = "dispatch"}
  <2>1. /\ asked' = Kept(asked, S) /\ shown' = [shown EXCEPT ![s] = Shut]
        /\ sent' = [sent EXCEPT ![s] = <<>>]
        /\ UNCHANGED <<worker, hostState, untold, line>>
    BY <1>5 DEF ShutSurface
  <2>2. \A i \in DOMAIN asked : asked[i].from # s => asked[i] \in S
    BY DEF ToSet
  <2> HIDE DEF S
  <2>3. asked' \in Seq(Asking)
    BY <1>1, <2>1, KeptPicks
  <2>4. Shut \in Frames /\ ~Shut.open /\ <<>> \in Seq(Nat)
    BY DEF Shut, Frames
  <2>5. BridgeTypes'
    BY <1>1, <2>1, <2>3, <2>4 DEF BridgeTypes
  <2>6. ASSUME worker' = "up", ~untold', NEW o \in Surface, shown'[o].open
        PROVE  Asks(o, asked') \/ Told(sent'[o], shown'[o].state, hostState')
    <3>1. o # s
      BY <1>1, <2>1, <2>4, <2>6
    <3>2. shown'[o] = shown[o] /\ shown[o].open /\ sent'[o] = sent[o]
      BY <1>1, <2>1, <2>6, <3>1
    <3>3. Asks(o, asked) \/ Told(sent[o], shown[o].state, hostState)
      BY <1>2, <2>1, <2>6, <3>2
    <3>4. \A i \in DOMAIN asked : asked[i].from = o => asked[i] \in S
      BY <2>2, <3>1
    <3>5. Asks(o, asked) => Asks(o, asked')
      BY <1>1, <2>1, <3>4, OthersAsk
    <3> QED
      BY <2>1, <3>2, <3>3, <3>5
  <2> QED
    BY <1>1, <2>1, <2>5, <2>6 DEF BridgeInv
<1>6. ASSUME NEW s \in Surface, SurfaceDispatches(s) PROVE BridgeInv'
  <2> DEFINE m == [does |-> "dispatch", from |-> s]
  <2>1. /\ asked' = Append(asked, m)
        /\ UNCHANGED <<worker, hostState, untold, line, sent, shown>>
    BY <1>6 DEF SurfaceDispatches
  <2>2. m \in Asking
    BY DEF Asking
  <2> HIDE DEF m
  <2>3. asked' \in Seq(Asking)
    BY <1>1, <2>1, <2>2
  <2>4. BridgeTypes'
    BY <1>1, <2>1, <2>3 DEF BridgeTypes
  <2>5. \A o \in Surface : Asks(o, asked) => Asks(o, asked')
    BY <1>1, <2>1, <2>2, StillAsks
  <2> QED
    BY <1>1, <1>2, <2>1, <2>4, <2>5 DEF BridgeInv
<1>7. ASSUME NEW s \in Surface, SurfaceHears(s) PROVE BridgeInv'
  <2> DEFINE seen == IF Head(sent[s]) = 0 THEN shown[s].state ELSE Head(sent[s])
             frame == [shown[s] EXCEPT !.state = seen]
  <2>1. /\ sent[s] # <<>> /\ sent' = [sent EXCEPT ![s] = Tail(sent[s])]
        /\ shown' = [shown EXCEPT ![s] = frame]
        /\ UNCHANGED <<worker, hostState, untold, line, asked>>
    BY <1>1, <1>7 DEF SurfaceHears
  <2>2. shown[s] \in Frames /\ sent[s] \in Seq(Nat) /\ shown[s].state \in Nat
    BY <1>1 DEF Frames
  <2>3. seen \in Nat /\ Tail(sent[s]) \in Seq(Nat)
    BY <2>1, <2>2
  <2>4. Told(sent[s], shown[s].state, hostState) => Told(Tail(sent[s]), seen, hostState)
    BY <1>1, <2>1, <2>2, HearsFirst
  <2> HIDE DEF seen
  <2>5. frame \in Frames /\ frame.state = seen /\ frame.open = shown[s].open
    BY <2>2, <2>3 DEF Frames
  <2> HIDE DEF frame
  <2>6. BridgeTypes'
    BY <1>1, <2>1, <2>3, <2>5 DEF BridgeTypes
  <2>7. ASSUME worker' = "up", ~untold', NEW o \in Surface, shown'[o].open
        PROVE  Asks(o, asked') \/ Told(sent'[o], shown'[o].state, hostState')
    <3>1. CASE o = s
      <4>1. shown'[o] = frame /\ sent'[o] = Tail(sent[s]) /\ shown[s].open
        BY <1>1, <2>1, <2>5, <2>7, <3>1
      <4>2. Asks(s, asked) \/ Told(sent[s], shown[s].state, hostState)
        BY <1>2, <2>1, <2>7, <4>1
      <4> QED
        BY <2>1, <2>4, <2>5, <3>1, <4>1, <4>2
    <3>2. CASE o # s
      <4>1. shown'[o] = shown[o] /\ sent'[o] = sent[o] /\ shown[o].open
        BY <1>1, <2>1, <2>7, <3>2
      <4> QED
        BY <1>2, <2>1, <2>7, <4>1
    <3> QED
      BY <3>1, <3>2
  <2> QED
    BY <1>1, <2>1, <2>6, <2>7 DEF BridgeInv
<1>8. CASE AnswerHydrate
  <2>1. /\ asked # <<>> /\ Head(asked).does = "hydrate" /\ asked' = Tail(asked)
        /\ UNCHANGED <<worker, hostState, untold, line, shown>>
        /\ sent' = IF worker = "down" THEN sent
                   ELSE [sent EXCEPT ![Head(asked).from] =
                           Append(@, IF worker = "up" THEN hostState ELSE 0)]
    BY <1>8 DEF AnswerHydrate
  <2>2. asked' \in Seq(Asking) /\ Head(asked) \in Asking
    BY <1>1, <2>1
  <2>3. PICK s \in Surface : s = Head(asked).from
    BY <2>2 DEF Asking
  <2>4. \A n \in Nat : Append(sent[s], n) \in Seq(Nat)
    BY <1>1
  <2>5. BridgeTypes'
    <3>1. sent' \in [Surface -> Seq(Nat)]
      BY <1>1, <2>1, <2>3, <2>4
    <3> QED
      BY <1>1, <2>1, <2>2, <3>1 DEF BridgeTypes
  <2>6. ASSUME worker = "up", ~untold, NEW o \in Surface, shown[o].open
        PROVE  Asks(o, asked') \/ Told(sent'[o], shown[o].state, hostState)
    <3>1. CASE o = s
      <4>1. sent'[o] = Append(sent[s], hostState)
        BY <1>1, <2>1, <2>3, <2>6, <3>1
      <4>2. sent[s] \in Seq(Nat) /\ hostState \in Nat
        BY <1>1
      <4> QED
        BY <4>1, <4>2, TellsLast
    <3>2. CASE o # s
      <4>1. sent'[o] = sent[o]
        BY <1>1, <2>1, <2>3, <2>6, <3>2
      <4>2. Asks(o, asked) => Asks(o, asked')
        BY <1>1, <2>1, <2>3, <3>2, StillAsks
      <4> QED
        BY <1>2, <2>6, <4>1, <4>2
    <3> QED
      BY <3>1, <3>2
  <2> QED
    BY <1>1, <2>1, <2>5, <2>6 DEF BridgeInv
<1>9. CASE TakeDispatch
  <2>1. /\ asked # <<>> /\ Head(asked).does = "dispatch" /\ asked' = Tail(asked)
        /\ UNCHANGED <<worker, hostState, untold, sent, shown>>
        /\ line' \in {line, line + 1}
    BY <1>9 DEF TakeDispatch
  <2>2. asked' \in Seq(Asking)
    BY <1>1, <2>1
  <2>3. BridgeTypes'
    BY <1>1, <2>1, <2>2 DEF BridgeTypes
  <2>4. \A o \in Surface : Asks(o, asked) => Asks(o, asked')
    BY <1>1, <2>1, StillAsks
  <2> QED
    BY <1>1, <1>2, <2>1, <2>3, <2>4 DEF BridgeInv
<1>10. CASE FoldMsg
  <2>1. /\ worker = "up" /\ hostState' = hostState + 1 /\ untold' = TRUE
        /\ line' \in {line, line - 1} /\ (line' = line - 1 => line > 0 \/ line' = line)
        /\ UNCHANGED <<worker, asked, sent, shown>>
    BY <1>1, <1>10 DEF FoldMsg
  <2>2. line' \in Nat
    BY <1>1, <2>1
  <2> QED
    BY <1>1, <2>1, <2>2 DEF BridgeInv, BridgeTypes
<1>11. CASE StopWorker
  BY <1>1, <1>11 DEF StopWorker, BridgeInv, BridgeTypes
<1>12. CASE StartWorker
  BY <1>1, <1>12 DEF StartWorker, BridgeInv, BridgeTypes
<1>13. ASSUME Broadcast(hostState), UNCHANGED <<hostState, line, asked, shown>>,
              worker' \in {"down", "booting", "up"}, untold' = FALSE
       PROVE  BridgeInv'
  <2>1. \A s \in Surface :
          sent'[s] = IF shown[s].open THEN Append(sent[s], hostState) ELSE sent[s]
    BY <1>13 DEF Broadcast
  <2>2. \A s \in Surface : sent[s] \in Seq(Nat) /\ Append(sent[s], hostState) \in Seq(Nat)
    BY <1>1
  <2>3. sent' \in [Surface -> Seq(Nat)]
    BY <1>13, <2>2 DEF Broadcast
  <2>4. BridgeTypes'
    BY <1>1, <1>13, <2>3 DEF BridgeTypes
  <2>5. ASSUME NEW s \in Surface, shown[s].open
        PROVE  Told(sent'[s], shown[s].state, hostState)
    <3>1. sent'[s] = Append(sent[s], hostState) /\ hostState \in Nat
      BY <1>1, <2>1, <2>5
    <3> QED
      BY <2>2, <3>1, TellsLast
  <2> QED
    BY <1>13, <2>4, <2>5 DEF BridgeInv
<1>14. CASE Observe
  BY <1>1, <1>13, <1>14 DEF Observe
<1>15. CASE Booted
  <2>1. untold = FALSE
    BY <1>1, <1>15 DEF Booted
  <2> QED
    BY <1>13, <1>15, <2>1 DEF Booted, BootFrame
<1> QED
  BY <1>3, <1>4, <1>5, <1>6, <1>7, <1>8, <1>9, <1>10, <1>11, <1>12, <1>14, <1>15
     DEF BridgeNext

(* A surface that heard everything shows the run's State, whatever stops,  *)
(* starts, opened and shut pages went before (bridge.ts).                  *)
THEOREM SurfacesStayCurrent == BridgeSpec => []SurfaceIsCurrent
<1>1. BridgeInv => SurfaceIsCurrent
  <2> SUFFICES ASSUME BridgeInv, NEW s \in Surface,
                      shown[s].open, worker = "up", ~untold, sent[s] = <<>>,
                      \A i \in DOMAIN asked : asked[i].from = s => asked[i].does = "dispatch"
               PROVE  shown[s].state = hostState
    BY DEF SurfaceIsCurrent
  <2>1. ~Asks(s, asked)
    BY DEF Asks
  <2>2. Told(sent[s], shown[s].state, hostState)
    BY <2>1 DEF BridgeInv
  <2> QED
    BY <2>2 DEF Told
<1>2. BridgeSpec => []BridgeInv
  BY BridgeStarts, BridgeStep, PTL DEF BridgeSpec
<1> QED
  BY <1>1, <1>2, PTL

-----------------------------------------------------------------------------
(* The round trips a Durable Object owes.  A log is looked at as the set   *)
(* of its events (Outstanding), except for the markers, where the order    *)
(* counts.  A re-issue is one fold, through states that fit the log.       *)

\* What the log may hold.
LogTypes == {"effect_owed", "effect_confirmed", "effect_applied", "effect_forgotten"}
\* The events the ledger may hold.
OweEvents == [type : LogTypes, id : Nat, call : OweCalls]

\* The memory of the gateway; the states a re-issue goes through.
OweGates == [counter : Nat, ids : [OweCalls -> Nat], pending : SUBSET OweCalls]
Issues == [log : Seq(OweEvents), gate : OweGates, sent : SUBSET OweCalls]

\* A delivery of a call that is owed and that nobody confirmed.
Outstanding(evs, n, c) ==
  /\ Owed(n, c) \in evs
  /\ \A e \in evs : e.type = "effect_confirmed" => e.id # n

\* The gateway knows the log: its counter is past every id, and a call it has
\* an id of is owed under that id, which no other call has.
GateFits(log, mem) ==
  /\ \A e \in ToSet(log) : e.id <= mem.counter
  /\ \A c \in mem.pending : mem.ids[c] # 0
  /\ \A c \in OweCalls : mem.ids[c] # 0 => Outstanding(ToSet(log), mem.ids[c], c)
  /\ \A c, d \in OweCalls : mem.ids[c] # 0 /\ mem.ids[c] = mem.ids[d] => c = d

\* The types.
OweTypes ==
  /\ oweLog \in Seq(OweEvents) /\ oweGate \in OweGates
  /\ oweWriting \in [OweCalls -> Nat] /\ oweWrites \in [OweCalls -> Nat]
  /\ oweReplies \subseteq OweCalls
  /\ oweRun \in [OweCalls -> {"unasked", "waiting", "answered", "gave_up"}]

\* The invariant of the ledger: who waits is pending.
LedgerInv ==
  /\ OweTypes /\ GateFits(oweLog, oweGate)
  /\ \A c \in OweCalls : oweRun[c] = "waiting" => c \in oweGate.pending

\* What keeps the writes of a call to one: none was begun before the call was
\* asked for, and one that was made is marked for as long as the call is owed.
WriteFits(c) ==
  /\ oweRun[c] = "unasked" =>
       oweWriting[c] = 0 /\ oweWrites[c] = 0 /\ c \notin OwedCalls(oweLog)
  /\ oweWriting[c] + oweWrites[c] <= 1
  /\ oweWrites[c] = 1 => c \in FoldApplied(oweLog) \/ c \notin OwedCalls(oweLog)

\* The invariant of the writes, where no call is asked for again.
WriteInv == LedgerInv /\ \A c \in OweCalls : WriteFits(c)

-----------------------------------------------------------------------------

\* The events of a log with one more.
LEMMA OweLogGrows ==
  ASSUME NEW log \in Seq(OweEvents), NEW e \in OweEvents, NEW more, more = Append(log, e)
  PROVE  /\ more \in Seq(OweEvents) /\ ToSet(more) = ToSet(log) \union {e}
         /\ ToSet(log) \subseteq OweEvents
<1>1. PICK n \in Nat : n = Len(log)
  OBVIOUS
<1>2. /\ more \in Seq(OweEvents) /\ Len(more) = n + 1 /\ more[n + 1] = e
      /\ \A i \in 1 .. n : more[i] = log[i]
      /\ DOMAIN more = 1 .. n + 1 /\ DOMAIN log = 1 .. n
  BY <1>1
<1>3. /\ \A i \in 1 .. n + 1 : i = n + 1 \/ i \in 1 .. n
      /\ n + 1 \in 1 .. n + 1 /\ \A i \in 1 .. n : i \in 1 .. n + 1
  OBVIOUS
<1>4. ToSet(more) = ToSet(log) \union {e}
  BY <1>2, <1>3 DEF ToSet
<1>5. ToSet(log) \subseteq OweEvents
  BY <1>1, <1>2 DEF ToSet
<1> QED
  BY <1>1, <1>2, <1>4, <1>5

\* What survives in the ledger.
LEMMA SurvivorsAre ==
  ASSUME NEW log \in Seq(OweEvents)
  PROVE  /\ FoldLedger(log) \in Seq(OweEvents)
         /\ \A e : e \in ToSet(FoldLedger(log)) <=>
              /\ e \in ToSet(log) /\ e.type = "effect_owed"
              /\ \A f \in ToSet(log) : f.type = "effect_confirmed" => f.id # e.id
<1> DEFINE S == {e \in ToSet(log) :
                   /\ e.type = "effect_owed"
                   /\ \A f \in ToSet(log) : f.type = "effect_confirmed" => f.id # e.id}
<1>1. PICK led : led = FoldLedger(log)
  OBVIOUS
<1>2. led = Kept(log, S)
  BY <1>1 DEF FoldLedger
<1>3. \A e : e \in S <=> /\ e \in ToSet(log) /\ e.type = "effect_owed"
                         /\ \A f \in ToSet(log) : f.type = "effect_confirmed" => f.id # e.id
  OBVIOUS
<1> HIDE DEF S
<1>4. led \in Seq(OweEvents) /\ \E h : Picks(h, led, log, Len(log), S)
  BY <1>2, KeptPicks
<1>5. PICK h : Picks(h, led, log, Len(log), S)
  BY <1>4
<1>6. /\ \A i \in 1 .. Len(led) :
           h[i] \in 1 .. Len(log) /\ led[i] = log[h[i]] /\ log[h[i]] \in S
      /\ \A k \in 1 .. Len(log) : log[k] \in S => \E i \in 1 .. Len(led) : h[i] = k
  BY <1>5 DEF Picks
<1>7. DOMAIN led = 1 .. Len(led) /\ DOMAIN log = 1 .. Len(log)
  BY <1>4
<1>8. ASSUME NEW e \in ToSet(led) PROVE e \in S
  BY <1>6, <1>7 DEF ToSet
<1>9. ASSUME NEW e \in S PROVE e \in ToSet(led)
  <2>1. PICK k \in 1 .. Len(log) : log[k] = e
    BY <1>3, <1>7 DEF ToSet
  <2>2. PICK i \in 1 .. Len(led) : h[i] = k
    BY <1>6, <2>1
  <2>3. led[i] = e
    BY <1>6, <2>1, <2>2
  <2> QED
    BY <1>7, <2>3 DEF ToSet
<1> QED
  BY <1>1, <1>3, <1>4, <1>8, <1>9

\* A call is owed if some delivery of it is.
LEMMA OwedCallsAre ==
  ASSUME NEW log \in Seq(OweEvents)
  PROVE  /\ OwedCalls(log) \subseteq OweCalls
         /\ \A c : c \in OwedCalls(log) <=> \E n \in Nat : Outstanding(ToSet(log), n, c)
<1>1. ToSet(log) \subseteq OweEvents
  <2>1. DOMAIN log = 1 .. Len(log)
    OBVIOUS
  <2> QED
    BY <2>1 DEF ToSet
<1>2. \A e \in OweEvents : e.type = "effect_owed" => e = Owed(e.id, e.call)
  BY DEF OweEvents, Owed
<1>3. \A n, c : Owed(n, c).type = "effect_owed" /\ Owed(n, c).id = n /\ Owed(n, c).call = c
  BY DEF Owed
<1>4. ASSUME NEW c \in OwedCalls(log)
      PROVE  c \in OweCalls /\ \E n \in Nat : Outstanding(ToSet(log), n, c)
  <2>1. PICK e \in ToSet(FoldLedger(log)) : c = e.call
    BY <1>4 DEF OwedCalls
  <2>2. /\ e \in ToSet(log) /\ e.type = "effect_owed"
        /\ \A f \in ToSet(log) : f.type = "effect_confirmed" => f.id # e.id
    BY SurvivorsAre
  <2>3. e.id \in Nat /\ e.call \in OweCalls /\ e = Owed(e.id, e.call)
    BY <1>1, <1>2, <2>2 DEF OweEvents
  <2>4. PICK n \in Nat : n = e.id
    BY <2>3
  <2>5. Outstanding(ToSet(log), n, c)
    BY <2>1, <2>2, <2>3, <2>4 DEF Outstanding
  <2> QED
    BY <2>1, <2>3, <2>5
<1>5. ASSUME NEW c, NEW n \in Nat, Outstanding(ToSet(log), n, c)
      PROVE  c \in OwedCalls(log)
  <2>1. PICK e : e = Owed(n, c)
    OBVIOUS
  <2>2. /\ e \in ToSet(log) /\ e.type = "effect_owed"
        /\ \A f \in ToSet(log) : f.type = "effect_confirmed" => f.id # e.id
        /\ e.call = c
    BY <1>3, <1>5, <2>1 DEF Outstanding
  <2>3. e \in ToSet(FoldLedger(log))
    BY <2>2, SurvivorsAre
  <2> QED
    BY <2>2, <2>3 DEF OwedCalls
<1> QED
  BY <1>4, <1>5

\* A marker stays until it is forgotten, and one that is recorded is there.
LEMMA MarkersStay ==
  ASSUME NEW log \in Seq(OweEvents), NEW e \in OweEvents, NEW more, more = Append(log, e)
  PROVE  /\ \A c \in FoldApplied(log) : e # Forgotten(c) => c \in FoldApplied(more)
         /\ \A c \in OweCalls : e = Marked(c) => c \in FoldApplied(more)
<1>1. PICK n \in Nat : n = Len(log)
  OBVIOUS
<1>2. /\ more \in Seq(OweEvents) /\ Len(more) = n + 1 /\ more[n + 1] = e
      /\ \A i \in 1 .. n : more[i] = log[i]
      /\ DOMAIN more = 1 .. n + 1 /\ DOMAIN log = 1 .. n
  BY <1>1
<1>3. ASSUME NEW c \in FoldApplied(log), e # Forgotten(c) PROVE c \in FoldApplied(more)
  <2>1. c \in OweCalls
    BY DEF FoldApplied
  <2>2. PICK i \in 1 .. n : /\ log[i] = Marked(c)
                            /\ \A j \in i + 1 .. n : log[j] # Forgotten(c)
    BY <1>1, <1>2 DEF FoldApplied
  <2>3. i \in 1 .. n + 1 /\ more[i] = Marked(c)
    BY <1>2, <2>2
  <2>4. \A j \in i + 1 .. n + 1 : more[j] # Forgotten(c)
    <3> TAKE j \in i + 1 .. n + 1
    <3>1. CASE j = n + 1
      BY <1>2, <1>3, <3>1
    <3>2. CASE j \in i + 1 .. n
      <4>1. j \in 1 .. n
        BY <3>2
      <4> QED
        BY <1>2, <2>2, <3>2, <4>1
    <3>3. j = n + 1 \/ j \in i + 1 .. n
      OBVIOUS
    <3> QED
      BY <3>1, <3>2, <3>3
  <2> QED
    BY <1>2, <2>1, <2>3, <2>4 DEF FoldApplied
<1>4. ASSUME NEW c \in OweCalls, e = Marked(c) PROVE c \in FoldApplied(more)
  <2>1. n + 1 \in 1 .. n + 1 /\ more[n + 1] = Marked(c)
    BY <1>2, <1>4
  <2>2. \A j \in (n + 1) + 1 .. n + 1 : more[j] # Forgotten(c)
    OBVIOUS
  <2> QED
    BY <1>2, <2>1, <2>2 DEF FoldApplied
<1> QED
  BY <1>3, <1>4

\* A set of places that is not empty has a last one.
LEMMA LastPlace ==
  ASSUME NEW n \in Nat, NEW T \in SUBSET (1 .. n), T # {}
  PROVE  Max(T) \in T
<1> DEFINE U == {k \in 0 .. n : n - k \in T}
<1>1. U \subseteq Nat /\ \A t \in T : n - t \in U
  <2>1. \A t \in T : t \in 1 .. n /\ n - t \in 0 .. n /\ n - (n - t) = t
    OBVIOUS
  <2> QED
    BY <2>1
<1>2. PICK x \in U : \A y \in U : x <= y
  BY <1>1, NatLeast
<1>3. n - x \in T /\ \A t \in T : n - x >= t
  <2>1. n - x \in T /\ x \in 0 .. n
    OBVIOUS
  <2>2. \A t \in T : x <= n - t /\ t \in 1 .. n
    BY <1>1, <1>2
  <2> QED
    BY <2>1, <2>2
<1>4. Max(T) = CHOOSE y \in T : \A t \in T : y >= t
  BY DEF Max
<1> QED
  BY <1>3, <1>4

\* The recorder counts on from the largest id: none is past it.
LEMMA LastIdIsLast ==
  ASSUME NEW log \in Seq(OweEvents)
  PROVE  LastId(log) \in Nat /\ \A e \in ToSet(log) : e.id <= LastId(log)
<1> DEFINE S == DOMAIN log
           more(i, m) == IF log[i].id > m THEN log[i].id ELSE m
           pick == [T \in (SUBSET S) \ {{}} |-> Max(T)]
           G == [p \in S \X Nat |-> more(p[1], p[2])]
           iter == CHOOSE iter : iter =
                     [T \in SUBSET S |-> IF T = {} THEN 0
                        ELSE more(Max(T), iter[T \ {Max(T)}])]
<1>1. LastId(log) = iter[S]
  BY DEF LastId, FoldLeft, MapThenFoldSet
<1>2. PICK n \in Nat : n = Len(log)
  OBVIOUS
<1>3. S = 1 .. n /\ IsFiniteSet(S)
  <2>1. S = 1 .. n
    BY <1>2
  <2> QED
    BY <2>1, FS_Interval
<1>4. \A i \in S, m \in Nat : more(i, m) \in Nat /\ more(i, m) >= m /\ more(i, m) >= log[i].id
  <2>1. \A i \in S : log[i] \in OweEvents
    BY <1>2, <1>3
  <2>2. \A i \in S : log[i].id \in Nat
    BY <2>1 DEF OweEvents
  <2> HIDE DEF S
  <2> QED
    BY <2>2
<1> HIDE DEF more
<1>19. \A i \in S : log[i].id \in Nat
  <2>1. \A i \in S : log[i] \in OweEvents
    BY <1>2, <1>3
  <2> QED
    BY <2>1 DEF OweEvents
<1>5. \A i \in S, m \in Nat : G[<<i, m>>] = more(i, m)
  BY <1>4
<1>6. G \in [S \X Nat -> Nat]
  BY <1>4
<1>7. \A T \in SUBSET S : T # {} => Max(T) \in T
  BY <1>3, LastPlace
<1>8. \A T \in SUBSET S : T # {} => pick[T] = Max(T)
  OBVIOUS
<1>9. \A T \in SUBSET S : T # {} => pick[T] \in T
  BY <1>7, <1>8
<1>10. pick \in [(SUBSET S) \ {{}} -> S]
  BY <1>7
<1> HIDE DEF G, pick, S
<1>11. Foldings(S, Nat, 0, pick, G) # {}
  BY <1>3, <1>6, <1>9, <1>10, FoldExists
<1>12. PICK f \in [SUBSET S -> Nat] : \A T \in SUBSET S :
         f[T] = IF T = {} THEN 0 ELSE G[pick[T], f[T \ {pick[T]}]]
  BY <1>11 DEF Foldings
<1>13. \A T \in SUBSET S : T # {} => f[T] = more(Max(T), f[T \ {Max(T)}])
  <2> SUFFICES ASSUME NEW T \in SUBSET S, T # {}
               PROVE  f[T] = more(Max(T), f[T \ {Max(T)}])
    OBVIOUS
  <2>1. pick[T] \in S /\ f[T \ {pick[T]}] \in Nat
    BY <1>9
  <2>2. f[T] = more(pick[T], f[T \ {pick[T]}])
    BY <1>5, <1>12, <2>1
  <2> QED
    BY <1>8, <2>2
<1>14. f = [T \in SUBSET S |-> IF T = {} THEN 0 ELSE more(Max(T), f[T \ {Max(T)}])]
  BY <1>12, <1>13
<1>15. iter = [T \in SUBSET S |-> IF T = {} THEN 0
                 ELSE more(Max(T), iter[T \ {Max(T)}])]
  BY <1>14
<1> HIDE DEF iter
<1> DEFINE P == {T \in SUBSET S : /\ iter[T] \in Nat
                                  /\ \A i \in T : log[i].id <= iter[T]}
<1>16. {} \in P
  BY <1>15
<1>17. \A T \in SUBSET S : T # {} => \E x \in T : T \ {x} \in P => T \in P
  <2> SUFFICES ASSUME NEW T \in SUBSET S, T # {}
               PROVE  \E x \in T : T \ {x} \in P => T \in P
    OBVIOUS
  <2>1. Max(T) \in T
    BY <1>7
  <2>2. PICK x \in T : x = Max(T)
    BY <2>1
  <2>3. iter[T] = more(x, iter[T \ {x}])
    BY <1>15, <2>2
  <2>4. ASSUME T \ {x} \in P PROVE T \in P
    <3>1. PICK m \in Nat : m = iter[T \ {x}]
      BY <2>4
    <3>2. x \in S /\ \A i \in T : i # x => log[i].id <= m
      BY <2>4, <3>1
    <3>3. iter[T] \in Nat /\ iter[T] >= m /\ iter[T] >= log[x].id
      BY <1>4, <2>3, <3>1, <3>2
    <3>4. \A i \in T : i \in S /\ log[i].id \in Nat
      BY <1>19
    <3>5. \A i \in T : log[i].id <= iter[T]
      <4> TAKE i \in T
      <4>1. PICK a \in Nat, b \in Nat : a = log[i].id /\ b = iter[T]
        BY <3>3, <3>4
      <4>2. i # x => a <= m
        BY <3>2, <4>1
      <4>3. i = x => b >= a
        BY <3>3, <4>1
      <4>4. b >= m
        BY <3>3, <4>1
      <4> QED
        BY <4>1, <4>2, <4>3, <4>4
    <3> QED
      BY <3>3, <3>5
  <2> QED
    BY <2>4
<1> HIDE DEF P
<1>18. S \in P
  <2>1. \A T \in SUBSET S : T \in P
    BY <1>3, <1>16, <1>17, SubsetInduction
  <2> QED
    BY <2>1
<1>20. iter[S] \in Nat /\ \A i \in S : log[i].id <= iter[S]
  BY <1>18 DEF P
<1> QED
  BY <1>1, <1>20 DEF S, ToSet

\* The states of a re-issue that fit their log.
Fitting == {g \in Issues : GateFits(g.log, g.gate)}

\* A log with a delivery more.
Owing(log, n, c) == Append(log, Owed(n + 1, c))

\* A delivery under an id past all others is owed beside the others.
LEMMA OwingOne ==
  ASSUME NEW log \in Seq(OweEvents), NEW n \in Nat, \A e \in ToSet(log) : e.id <= n,
         NEW c \in OweCalls, NEW more, more = Owing(log, n, c)
  PROVE  /\ more \in Seq(OweEvents) /\ \A e \in ToSet(more) : e.id <= n + 1
         /\ \A m \in Nat : \A d : Outstanding(ToSet(more), m, d) <=>
              Outstanding(ToSet(log), m, d) \/ (m = n + 1 /\ d = c)
         /\ \A d : d \in OwedCalls(more) <=> d \in OwedCalls(log) \/ d = c
         /\ FoldApplied(log) \subseteq FoldApplied(more)
<1>1. PICK e : e = Owed(n + 1, c)
  OBVIOUS
<1>2. /\ e \in OweEvents /\ e.type = "effect_owed" /\ e.id = n + 1
      /\ \A m, d : e = Owed(m, d) <=> m = n + 1 /\ d = c
      /\ \A d : e # Forgotten(d)
  BY <1>1 DEF OweEvents, LogTypes, Owed, Forgotten
<1>3. more = Append(log, e)
  BY <1>1 DEF Owing
<1>4. /\ more \in Seq(OweEvents) /\ ToSet(more) = ToSet(log) \union {e}
      /\ ToSet(log) \subseteq OweEvents
  BY <1>2, <1>3, OweLogGrows
<1>5. \A f \in ToSet(log) : f.id \in Nat
  BY <1>4 DEF OweEvents
<1>6. \A f \in ToSet(more) : f.id <= n + 1
  BY <1>2, <1>4, <1>5
<1>7. \A m \in Nat : \A d : Outstanding(ToSet(more), m, d) <=>
        Outstanding(ToSet(log), m, d) \/ (m = n + 1 /\ d = c)
  <2>1. \A f \in ToSet(log) : f.id # n + 1
    BY <1>5
  <2> QED
    BY <1>2, <1>4, <2>1 DEF Outstanding
<1>8. ASSUME NEW d PROVE d \in OwedCalls(more) <=> d \in OwedCalls(log) \/ d = c
  <2>1. d \in OwedCalls(more) <=> \E m \in Nat : Outstanding(ToSet(more), m, d)
    BY <1>4, OwedCallsAre
  <2>2. d \in OwedCalls(log) <=> \E m \in Nat : Outstanding(ToSet(log), m, d)
    BY OwedCallsAre
  <2>3. n + 1 \in Nat
    OBVIOUS
  <2> QED
    BY <1>7, <2>1, <2>2, <2>3
<1>9. FoldApplied(log) \subseteq FoldApplied(more)
  BY <1>2, <1>3, MarkersStay
<1> QED
  BY <1>4, <1>6, <1>7, <1>8, <1>9

\* A state of a re-issue, of its parts.
Issue(log, n, ids, pending, outs) ==
  [log |-> log, gate |-> [counter |-> n, ids |-> ids, pending |-> pending],
   sent |-> outs]

\* The parts of a state of the re-issue.
LEMMA IssueParts ==
  ASSUME NEW g \in Issues
  PROVE  \E log \in Seq(OweEvents), n \in Nat, ids \in [OweCalls -> Nat],
            pending \in SUBSET OweCalls, outs \in SUBSET OweCalls :
           g = Issue(log, n, ids, pending, outs)
BY DEF Issues, OweGates, Issue

\* A call that is awaited is owed under an id the gateway has.
LEMMA OwesOnce ==
  ASSUME NEW g \in Fitting, NEW c \in OweCalls, NEW h, h = Owes(g, c)
  PROVE  /\ h \in Fitting /\ h.gate.ids[c] # 0
         /\ h.gate.pending = g.gate.pending /\ h.sent = g.sent
         /\ \A d : d \in OwedCalls(h.log) <=> d \in OwedCalls(g.log) \/ d = c
         /\ FoldApplied(g.log) \subseteq FoldApplied(h.log)
<1>1. PICK log \in Seq(OweEvents), n \in Nat, ids \in [OweCalls -> Nat],
           pending \in SUBSET OweCalls, outs \in SUBSET OweCalls :
        g = Issue(log, n, ids, pending, outs)
  BY IssueParts DEF Fitting
<1>5. /\ g.log = log /\ g.gate.counter = n /\ g.gate.ids = ids
      /\ g.gate.pending = pending /\ g.sent = outs
  BY <1>1 DEF Issue
<1>2. /\ \A e \in ToSet(log) : e.id <= n
      /\ \A d \in pending : ids[d] # 0
      /\ \A d \in OweCalls : ids[d] # 0 => Outstanding(ToSet(log), ids[d], d)
      /\ \A d, o \in OweCalls : ids[d] # 0 /\ ids[d] = ids[o] => d = o
  BY <1>5 DEF Fitting, GateFits
<1>3. CASE ids[c] # 0
  <2>1. h = g
    BY <1>5, <1>3 DEF Owes
  <2>2. c \in OwedCalls(log)
    <3>1. ids[c] \in Nat /\ Outstanding(ToSet(log), ids[c], c)
      BY <1>2, <1>3
    <3> QED
      BY <3>1, OwedCallsAre
  <2> QED
    BY <1>5, <1>3, <2>1, <2>2
<1>4. CASE ids[c] = 0
  <2>1. PICK more : more = Owing(log, n, c)
    OBVIOUS
  <2>2. PICK ids2 : ids2 = [ids EXCEPT ![c] = n + 1]
    OBVIOUS
  <2>12. PICK one : one = [g EXCEPT !.gate.counter = n + 1]
    OBVIOUS
  <2>13. one = Issue(log, n + 1, ids, pending, outs)
    BY <1>1, <2>12 DEF Issue
  <2>14. PICK two : two = [one EXCEPT !.gate.ids[c] = n + 1]
    OBVIOUS
  <2>15. two = Issue(log, n + 1, ids2, pending, outs)
    BY <2>2, <2>13, <2>14 DEF Issue
  <2>16. h = [two EXCEPT !.log = more]
    <3>1. two.log = log
      BY <2>15 DEF Issue
    <3> QED
      BY <1>4, <1>5, <2>1, <2>12, <2>14, <3>1 DEF Owes, Owing
  <2>17. h = Issue(more, n + 1, ids2, pending, outs)
    BY <2>15, <2>16 DEF Issue
  <2>3. /\ h.log = more /\ h.gate.counter = n + 1 /\ h.gate.ids = ids2
        /\ h.gate.pending = pending /\ h.sent = outs
    BY <2>17 DEF Issue
  <2>4. /\ more \in Seq(OweEvents) /\ \A e \in ToSet(more) : e.id <= n + 1
        /\ \A m \in Nat : \A d : Outstanding(ToSet(more), m, d) <=>
             Outstanding(ToSet(log), m, d) \/ (m = n + 1 /\ d = c)
        /\ \A d : d \in OwedCalls(more) <=> d \in OwedCalls(log) \/ d = c
        /\ FoldApplied(log) \subseteq FoldApplied(more)
    BY <1>2, <2>1, OwingOne
  <2>5. /\ ids2 \in [OweCalls -> Nat] /\ ids2[c] = n + 1 /\ n + 1 # 0
        /\ \A d \in OweCalls : d # c => ids2[d] = ids[d]
    BY <2>2
  <2>6. h \in Issues
    BY <2>17, <2>4, <2>5 DEF Issue, Issues, OweGates
  <2>7. \A d \in OweCalls : ids2[d] # 0 => Outstanding(ToSet(more), ids2[d], d)
    BY <1>2, <2>4, <2>5
  <2>8. \A d \in OweCalls : d # c => ids2[d] # n + 1
    <3> SUFFICES ASSUME NEW d \in OweCalls, d # c, ids[d] = n + 1 PROVE FALSE
      BY <2>5
    <3>1. Owed(n + 1, d) \in ToSet(log)
      BY <1>2 DEF Outstanding
    <3>2. Owed(n + 1, d).id = n + 1
      BY DEF Owed
    <3> QED
      BY <1>2, <3>1, <3>2
  <2>9. \A d, o \in OweCalls : ids2[d] # 0 /\ ids2[d] = ids2[o] => d = o
    BY <1>2, <2>5, <2>8
  <2>10. \A d \in pending : ids2[d] # 0
    BY <1>2, <2>5
  <2>11. GateFits(h.log, h.gate)
    BY <2>3, <2>4, <2>7, <2>9, <2>10 DEF GateFits
  <2> QED
    BY <1>5, <2>3, <2>4, <2>5, <2>6, <2>11 DEF Fitting
<1> QED
  BY <1>3, <1>4

\* A call is awaited: it is owed, and sent unless it was pending.
LEMMA AwaitsOne ==
  ASSUME NEW g \in Fitting, NEW c \in OweCalls, NEW h, h = AwaitCall(g, c)
  PROVE  /\ h \in Fitting
         /\ h.gate.pending = g.gate.pending \union {c}
         /\ h.sent \subseteq g.sent \union {c}
         /\ c \in g.gate.pending => h.sent = g.sent
         /\ \A d : d \in OwedCalls(h.log) <=> d \in OwedCalls(g.log) \/ d = c
         /\ FoldApplied(g.log) \subseteq FoldApplied(h.log)
<1>1. PICK o : o = Owes(g, c)
  OBVIOUS
<1>2. /\ o \in Fitting /\ o.gate.ids[c] # 0
      /\ o.gate.pending = g.gate.pending /\ o.sent = g.sent
  BY <1>1, OwesOnce
<1>6. /\ \A d : d \in OwedCalls(o.log) <=> d \in OwedCalls(g.log) \/ d = c
      /\ FoldApplied(g.log) \subseteq FoldApplied(o.log)
  BY <1>1, OwesOnce
<1>3. h = IF c \in g.gate.pending THEN o
          ELSE [o EXCEPT !.gate.pending = @ \union {c}, !.sent = @ \union {c}]
  BY <1>1 DEF AwaitCall
<1>4. CASE c \in g.gate.pending
  <2>1. h = o /\ g.gate.pending = g.gate.pending \union {c}
    BY <1>3, <1>4
  <2> QED
    BY <1>2, <1>6, <1>4, <2>1
<1>5. CASE c \notin g.gate.pending
  <2>1. PICK log \in Seq(OweEvents), n \in Nat, ids \in [OweCalls -> Nat],
             pending \in SUBSET OweCalls, outs \in SUBSET OweCalls :
          o = Issue(log, n, ids, pending, outs)
    BY <1>2, IssueParts DEF Fitting
  <2>5. /\ o.log = log /\ o.gate.counter = n /\ o.gate.ids = ids
        /\ o.gate.pending = pending /\ o.sent = outs
    BY <2>1 DEF Issue
  <2>6. PICK one : one = [o EXCEPT !.gate.pending = pending \union {c}]
    OBVIOUS
  <2>7. one = Issue(log, n, ids, pending \union {c}, outs)
    BY <2>1, <2>6 DEF Issue
  <2>8. h = [one EXCEPT !.sent = outs \union {c}]
    <3>1. one.sent = outs
      BY <2>7 DEF Issue
    <3> QED
      BY <1>3, <1>5, <2>5, <2>6, <3>1
  <2>9. h = Issue(log, n, ids, pending \union {c}, outs \union {c})
    BY <2>7, <2>8 DEF Issue
  <2>2. /\ h.log = log /\ h.gate.counter = n /\ h.gate.ids = ids
        /\ h.gate.pending = pending \union {c} /\ h.sent = outs \union {c}
    BY <2>9 DEF Issue
  <2>3. h \in Issues
    BY <2>9 DEF Issue, Issues, OweGates
  <2>4. GateFits(h.log, h.gate)
    BY <1>2, <2>5, <2>2 DEF Fitting, GateFits
  <2> QED
    BY <1>2, <1>5, <1>6, <2>5, <2>2, <2>3, <2>4 DEF Fitting
<1> QED
  BY <1>4, <1>5

\* The states of the re-issue of a log: nothing is owed that was not, and
\* nothing is sent that was not owed.
ReissueOf(log) ==
  {g \in Fitting : /\ g.sent \subseteq OwedCalls(log)
                   /\ \A d : d \in OwedCalls(g.log) <=> d \in OwedCalls(log)
                   /\ FoldApplied(log) \subseteq FoldApplied(g.log)}

\* One survivor awaited keeps to it.
LEMMA SurvivorAwaited ==
  ASSUME NEW log, NEW g \in ReissueOf(log), NEW c \in OweCalls, c \in OwedCalls(log),
         NEW h, h = AwaitCall(g, c)
  PROVE  h \in ReissueOf(log) /\ h.gate.pending = g.gate.pending \union {c}
<1>1. g \in Fitting
  BY DEF ReissueOf
<1>2. h \in Fitting /\ h.gate.pending = g.gate.pending \union {c}
  BY <1>1, AwaitsOne
<1>5. h.sent \subseteq g.sent \union {c}
  BY <1>1, AwaitsOne
<1>3. \A d : d \in OwedCalls(h.log) <=> d \in OwedCalls(g.log) \/ d = c
  BY <1>1, AwaitsOne
<1>4. FoldApplied(g.log) \subseteq FoldApplied(h.log)
  BY <1>1, AwaitsOne
<1> QED
  BY <1>2, <1>3, <1>4, <1>5 DEF ReissueOf

\* A re-issue: what it leaves fits its log, and has every survivor pending.
LEMMA ReissueFits ==
  ASSUME NEW log \in Seq(OweEvents), NEW again, again = Reissued(log)
  PROVE  again \in ReissueOf(log) /\ OwedCalls(log) \subseteq again.gate.pending
<1>1. PICK led : led = FoldLedger(log)
  OBVIOUS
<1> DEFINE S == DOMAIN led
           X == ReissueOf(log)
           base == [log |-> log, gate |-> Gate0(log), sent |-> {}]
           next(i, x) == AwaitCall(x, led[i].call)
           pick == [T \in (SUBSET S) \ {{}} |-> Max(T)]
           G == [p \in S \X X |-> next(p[1], p[2])]
           iter == CHOOSE iter : iter =
                     [T \in SUBSET S |-> IF T = {} THEN base
                        ELSE next(Max(T), iter[T \ {Max(T)}])]
<1>2. again = iter[S]
  BY <1>1 DEF Reissued, FoldLeft, MapThenFoldSet
<1>3. led \in Seq(OweEvents)
  BY <1>1, SurvivorsAre
<1>4. PICK n \in Nat : n = Len(led)
  BY <1>3
<1>5. S = 1 .. n /\ IsFiniteSet(S)
  <2>1. S = 1 .. n
    BY <1>3, <1>4
  <2> QED
    BY <2>1, FS_Interval
<1>6. /\ \A i \in S : led[i].call \in OweCalls /\ led[i].call \in OwedCalls(log)
      /\ \A c \in OwedCalls(log) : \E i \in S : led[i].call = c
  <2>1. \A i \in S : led[i] \in OweEvents
    BY <1>3, <1>4, <1>5
  <2>2. OwedCalls(log) = {led[i].call : i \in S}
    BY <1>1 DEF OwedCalls, ToSet
  <2> QED
    BY <2>1, <2>2 DEF OweEvents
<1>7. base \in X
  <2>1. PICK m \in Nat : m = LastId(log) /\ \A e \in ToSet(log) : e.id <= m
    BY LastIdIsLast
  <2>2. base = Issue(log, m, NoIds, {}, {})
    BY <2>1 DEF Gate0, Issue
  <2>3. /\ base.log = log /\ base.gate.counter = m /\ base.gate.ids = NoIds
        /\ base.gate.pending = {} /\ base.sent = {}
    BY <2>2 DEF Issue
  <2>4. base \in Issues
    BY <2>2 DEF Issue, Issues, OweGates, NoIds
  <2>5. GateFits(base.log, base.gate)
    BY <2>1, <2>3 DEF GateFits, NoIds
  <2> QED
    BY <2>3, <2>4, <2>5 DEF ReissueOf, Fitting
<1>8. \A i \in S, x \in X : /\ next(i, x) \in X
                            /\ next(i, x).gate.pending = x.gate.pending \union {led[i].call}
  <2> TAKE i \in S, x \in X
  <2>1. PICK c \in OweCalls : c = led[i].call /\ c \in OwedCalls(log)
    BY <1>6
  <2>2. PICK h : h = next(i, x)
    OBVIOUS
  <2>3. h = AwaitCall(x, c)
    BY <2>1, <2>2
  <2>4. h \in ReissueOf(log) /\ h.gate.pending = x.gate.pending \union {c}
    BY <2>1, <2>3, SurvivorAwaited
  <2> QED
    BY <2>1, <2>2, <2>4
<1> HIDE DEF next, base, X
<1>9. \A i \in S, x \in X : G[<<i, x>>] = next(i, x)
  BY <1>8
<1>10. G \in [S \X X -> X]
  BY <1>8
<1>11. \A T \in SUBSET S : T # {} => Max(T) \in T
  BY <1>5, LastPlace
<1>12. \A T \in SUBSET S : T # {} => pick[T] = Max(T)
  OBVIOUS
<1>13. \A T \in SUBSET S : T # {} => pick[T] \in T
  BY <1>11, <1>12
<1>14. pick \in [(SUBSET S) \ {{}} -> S]
  BY <1>11
<1> HIDE DEF G, pick, S
<1>15. Foldings(S, X, base, pick, G) # {}
  BY <1>5, <1>7, <1>10, <1>13, <1>14, FoldExists
<1>16. PICK f \in [SUBSET S -> X] : \A T \in SUBSET S :
         f[T] = IF T = {} THEN base ELSE G[pick[T], f[T \ {pick[T]}]]
  BY <1>15 DEF Foldings
<1>17. \A T \in SUBSET S : T # {} => f[T] = next(Max(T), f[T \ {Max(T)}])
  <2> SUFFICES ASSUME NEW T \in SUBSET S, T # {}
               PROVE  f[T] = next(Max(T), f[T \ {Max(T)}])
    OBVIOUS
  <2>1. pick[T] \in S /\ f[T \ {pick[T]}] \in X
    BY <1>13
  <2>2. f[T] = next(pick[T], f[T \ {pick[T]}])
    BY <1>9, <1>16, <2>1
  <2> QED
    BY <1>12, <2>2
<1>18. f = [T \in SUBSET S |-> IF T = {} THEN base ELSE next(Max(T), f[T \ {Max(T)}])]
  BY <1>16, <1>17
<1>19. iter = [T \in SUBSET S |-> IF T = {} THEN base
                 ELSE next(Max(T), iter[T \ {Max(T)}])]
  BY <1>18
<1> HIDE DEF iter
<1> DEFINE P == {T \in SUBSET S : /\ iter[T] \in X
                                  /\ \A i \in T : led[i].call \in iter[T].gate.pending}
<1>20. {} \in P
  BY <1>7, <1>19
<1>21. \A T \in SUBSET S : T # {} => \E x \in T : T \ {x} \in P => T \in P
  <2> SUFFICES ASSUME NEW T \in SUBSET S, T # {}
               PROVE  \E x \in T : T \ {x} \in P => T \in P
    OBVIOUS
  <2>1. Max(T) \in T
    BY <1>11
  <2>2. PICK x \in T : x = Max(T)
    BY <2>1
  <2>3. iter[T] = next(x, iter[T \ {x}])
    BY <1>19, <2>2
  <2>4. ASSUME T \ {x} \in P PROVE T \in P
    <3>1. PICK was \in X : was = iter[T \ {x}]
      BY <2>4
    <3>2. x \in S /\ \A i \in T : i # x => led[i].call \in was.gate.pending
      BY <2>4, <3>1
    <3>3. /\ iter[T] \in X
          /\ iter[T].gate.pending = was.gate.pending \union {led[x].call}
      BY <1>8, <2>3, <3>1, <3>2
    <3>4. \A i \in T : led[i].call \in iter[T].gate.pending
      BY <3>2, <3>3
    <3> QED
      BY <3>3, <3>4
  <2> QED
    BY <2>4
<1> HIDE DEF P
<1>22. S \in P
  <2>1. \A T \in SUBSET S : T \in P
    BY <1>5, <1>20, <1>21, SubsetInduction
  <2> QED
    BY <2>1
<1>23. iter[S] \in X /\ \A i \in S : led[i].call \in iter[S].gate.pending
  BY <1>22 DEF P
<1> QED
  BY <1>2, <1>6, <1>23 DEF X

-----------------------------------------------------------------------------

\* The invariants at the start.
LEMMA OweStarts == OweInit => WriteInv
<1> SUFFICES ASSUME OweInit PROVE WriteInv
  OBVIOUS
<1>1. <<>> \in Seq(OweEvents) /\ ToSet(<<>>) = {}
  BY DEF ToSet
<1>2. PICK n \in Nat : n = LastId(<<>>)
  BY <1>1, LastIdIsLast
<1>3. /\ oweGate = [counter |-> n, ids |-> NoIds, pending |-> {}] /\ oweLog = <<>>
      /\ oweRun = [c \in OweCalls |-> "unasked"] /\ oweReplies = {}
      /\ oweWriting = [c \in OweCalls |-> 0] /\ oweWrites = [c \in OweCalls |-> 0]
  BY <1>2 DEF OweInit, Gate0
<1>4. OweTypes
  BY <1>1, <1>3 DEF OweTypes, OweGates, NoIds
<1>5. GateFits(oweLog, oweGate)
  BY <1>1, <1>3 DEF GateFits, NoIds
<1>6. LedgerInv
  BY <1>3, <1>4, <1>5 DEF LedgerInv
<1>7. OwedCalls(oweLog) = {}
  BY <1>1, <1>3, OwedCallsAre DEF Outstanding
<1> QED
  BY <1>3, <1>6, <1>7 DEF WriteInv, WriteFits

\* What the gateway knows as it stands is a state a call may be awaited in.
LEMMA NowFits ==
  ASSUME LedgerInv, NEW g, g = Now(oweLog)
  PROVE  g \in Fitting /\ g.log = oweLog /\ g.gate = oweGate /\ g.sent = {}
<1>1. g.log = oweLog /\ g.gate = oweGate /\ g.sent = {}
  BY DEF Now
<1>2. g \in Issues
  BY DEF Now, LedgerInv, OweTypes, Issues
<1> QED
  BY <1>1, <1>2 DEF Fitting, LedgerInv

\* A call is awaited: it is owed and pending, and begins to be written at most
\* where it was not pending.
LEMMA AwaitDoes ==
  ASSUME LedgerInv, NEW c \in OweCalls, Await(c)
  PROVE  /\ LedgerInv'
         /\ \A d : d \in OwedCalls(oweLog') <=> d \in OwedCalls(oweLog) \/ d = c
         /\ FoldApplied(oweLog) \subseteq FoldApplied(oweLog')
         /\ \A d \in OweCalls :
              \/ oweWriting'[d] = oweWriting[d]
              \/ d = c /\ c \notin oweGate.pending /\ oweWriting'[d] = oweWriting[d] + 1
         /\ oweRun' = [oweRun EXCEPT ![c] = "waiting"] /\ oweWrites' = oweWrites
<1>1. PICK was : was = Now(oweLog)
  OBVIOUS
<1>2. PICK g : g = AwaitCall(was, c)
  OBVIOUS
<1>3. was \in Fitting /\ was.log = oweLog /\ was.gate = oweGate /\ was.sent = {}
  BY <1>1, NowFits
<1>4. g \in Fitting /\ g.gate.pending = was.gate.pending \union {c}
  BY <1>2, <1>3, AwaitsOne
<1>5. g.sent \subseteq was.sent \union {c}
  BY <1>2, <1>3, AwaitsOne
<1>6. c \in was.gate.pending => g.sent = was.sent
  BY <1>2, <1>3, AwaitsOne
<1>7. \A d : d \in OwedCalls(g.log) <=> d \in OwedCalls(was.log) \/ d = c
  BY <1>2, <1>3, AwaitsOne
<1>8. FoldApplied(was.log) \subseteq FoldApplied(g.log)
  BY <1>2, <1>3, AwaitsOne
<1>9. /\ oweLog' = g.log /\ oweGate' = g.gate
      /\ oweRun' = [oweRun EXCEPT ![c] = "waiting"] /\ oweWrites' = oweWrites
      /\ oweWriting' = [d \in OweCalls |-> oweWriting[d]
                         + (IF d \in g.sent \ FoldApplied(oweLog) THEN 1 ELSE 0)]
      /\ oweReplies' = oweReplies \union (g.sent \intersect FoldApplied(oweLog))
  BY <1>1, <1>2 DEF Await, Sends
<1>10. OweTypes
  BY DEF LedgerInv
<1>11. oweWriting' \in [OweCalls -> Nat] /\ oweReplies' \subseteq OweCalls
  <2>1. \A d \in OweCalls : oweWriting[d] \in Nat
    BY <1>10 DEF OweTypes
  <2>2. FoldApplied(oweLog) \subseteq OweCalls
    BY DEF FoldApplied
  <2>3. oweReplies' \subseteq OweCalls
    BY <1>9, <1>10, <2>2 DEF OweTypes
  <2> QED
    BY <1>9, <2>1, <2>3
<1>12. OweTypes'
  BY <1>4, <1>9, <1>10, <1>11 DEF OweTypes, Fitting, Issues
<1>13. ASSUME NEW d \in OweCalls, oweRun'[d] = "waiting" PROVE d \in oweGate'.pending
  <2>1. d = c \/ oweRun[d] = "waiting"
    BY <1>9, <1>10, <1>13 DEF OweTypes
  <2>2. d = c \/ d \in oweGate.pending
    BY <2>1 DEF LedgerInv
  <2> QED
    BY <1>3, <1>4, <1>9, <2>2
<1>14. LedgerInv'
  BY <1>4, <1>9, <1>12, <1>13 DEF LedgerInv, Fitting
<1>15. ASSUME NEW d \in OweCalls
       PROVE  \/ oweWriting'[d] = oweWriting[d]
              \/ d = c /\ c \notin oweGate.pending /\ oweWriting'[d] = oweWriting[d] + 1
  <2>1. oweWriting[d] \in Nat
    BY <1>10 DEF OweTypes
  <2>2. CASE d \in g.sent \ FoldApplied(oweLog)
    BY <1>3, <1>5, <1>6, <1>9, <2>2
  <2>3. CASE d \notin g.sent \ FoldApplied(oweLog)
    BY <1>9, <2>1, <2>3
  <2> QED
    BY <2>2, <2>3
<1> QED
  BY <1>3, <1>7, <1>8, <1>9, <1>14, <1>15

\* ... and, where no call is asked for again, at most once.
LEMMA AwaitWrites ==
  ASSUME WriteInv, ~OweAgain, NEW c \in OweCalls, Await(c)
  PROVE  WriteInv'
<1>1. LedgerInv /\ LedgerInv'
  BY AwaitDoes DEF WriteInv
<1>2. /\ \A d : d \in OwedCalls(oweLog') <=> d \in OwedCalls(oweLog) \/ d = c
      /\ FoldApplied(oweLog) \subseteq FoldApplied(oweLog')
  BY <1>1, AwaitDoes
<1>3. \A d \in OweCalls :
        \/ oweWriting'[d] = oweWriting[d]
        \/ d = c /\ c \notin oweGate.pending /\ oweWriting'[d] = oweWriting[d] + 1
  BY <1>1, AwaitDoes
<1>4. oweRun' = [oweRun EXCEPT ![c] = "waiting"] /\ oweWrites' = oweWrites
  BY DEF Await
<1>5. \/ oweRun[c] = "unasked"
      \/ oweRun[c] = "waiting" /\ c \in oweGate.pending
  <2>1. oweRun[c] = "unasked" \/ oweRun[c] = "waiting"
    BY DEF Await
  <2> QED
    BY <1>1, <2>1 DEF LedgerInv
<1>6. oweRun'[c] = "waiting" /\ \A d \in OweCalls : d # c => oweRun'[d] = oweRun[d]
  BY <1>1, <1>4 DEF LedgerInv, OweTypes
<1>7. ASSUME NEW d \in OweCalls PROVE WriteFits(d)'
  <2>1. WriteFits(d) /\ oweWriting[d] \in Nat /\ oweWrites[d] \in Nat
    BY <1>1 DEF WriteInv, LedgerInv, OweTypes
  <2>2. CASE d # c
    BY <1>2, <1>3, <1>4, <1>6, <2>1, <2>2 DEF WriteFits
  <2>3. CASE d = c /\ oweRun[c] = "unasked"
    BY <1>2, <1>3, <1>4, <1>6, <2>1, <2>3 DEF WriteFits
  <2>4. CASE d = c /\ oweRun[c] = "waiting" /\ c \in oweGate.pending
    <3>1. c \in OwedCalls(oweLog)
      <4>1. /\ oweGate.ids[c] # 0 /\ oweGate.ids[c] \in Nat
            /\ Outstanding(ToSet(oweLog), oweGate.ids[c], c) /\ oweLog \in Seq(OweEvents)
        BY <1>1, <2>4 DEF LedgerInv, GateFits, OweTypes, OweGates
      <4> QED
        BY <4>1, OwedCallsAre
    <3> QED
      BY <1>2, <1>3, <1>4, <1>6, <2>1, <2>4, <3>1 DEF WriteFits
  <2> QED
    BY <1>5, <2>2, <2>3, <2>4
<1> QED
  BY <1>1, <1>7 DEF WriteInv

\* An event that owes nothing: what is owed after it was owed before it, and a
\* delivery it does not confirm is owed still.
LEMMA OtherEvent ==
  ASSUME NEW log \in Seq(OweEvents), NEW e \in OweEvents, e.type # "effect_owed",
         NEW more, more = Append(log, e)
  PROVE  /\ \A d \in OwedCalls(more) : d \in OwedCalls(log)
         /\ \A m \in Nat : \A d :
              /\ Outstanding(ToSet(log), m, d)
              /\ e.type = "effect_confirmed" => e.id # m
              => Outstanding(ToSet(more), m, d)
<1>1. more \in Seq(OweEvents) /\ ToSet(more) = ToSet(log) \union {e}
  BY OweLogGrows
<1>2. \A m, d : e # Owed(m, d)
  BY DEF Owed
<1>3. ASSUME NEW d \in OwedCalls(more) PROVE d \in OwedCalls(log)
  <2>1. PICK m \in Nat : Outstanding(ToSet(more), m, d)
    BY <1>1, OwedCallsAre
  <2>2. Outstanding(ToSet(log), m, d)
    BY <1>1, <1>2, <2>1 DEF Outstanding
  <2> QED
    BY <2>2, OwedCallsAre
<1>4. ASSUME NEW m \in Nat, NEW d, Outstanding(ToSet(log), m, d),
             e.type = "effect_confirmed" => e.id # m
      PROVE  Outstanding(ToSet(more), m, d)
  BY <1>1, <1>4 DEF Outstanding
<1> QED
  BY <1>3, <1>4

\* The log once a delivery is confirmed and the marker is pruned.
OweSettled(log, n, c) == IF n = 0 THEN log ELSE Pruned(Append(log, Confirmed(n, c)), c)

\* A call that is settled leaves the ledger as it should be.
LEMMA SettledFits ==
  ASSUME NEW log \in Seq(OweEvents), NEW n \in Nat, NEW c \in OweCalls,
         NEW more, more = OweSettled(log, n, c)
  PROVE  /\ more \in Seq(OweEvents)
         /\ \A e \in ToSet(more) : e \in ToSet(log) \/ e.id <= n
         /\ \A m \in Nat : m # 0 /\ m # n =>
              \A d : Outstanding(ToSet(log), m, d) => Outstanding(ToSet(more), m, d)
         /\ \A d \in OwedCalls(more) : d \in OwedCalls(log)
         /\ \A d \in FoldApplied(log) : d \in FoldApplied(more) \/ d \notin OwedCalls(more)
<1>1. CASE n = 0
  BY <1>1 DEF OweSettled
<1>2. CASE n # 0
  <2>1. PICK e : e = Confirmed(n, c)
    OBVIOUS
  <2>2. /\ e \in OweEvents /\ e.type = "effect_confirmed" /\ e.id = n
        /\ \A d : e # Forgotten(d)
    BY <2>1 DEF Confirmed, OweEvents, LogTypes, Forgotten
  <2>3. PICK mid : mid = Append(log, e)
    OBVIOUS
  <2>4. mid \in Seq(OweEvents) /\ ToSet(mid) = ToSet(log) \union {e}
    BY <2>2, <2>3, OweLogGrows
  <2>5. \A d \in OwedCalls(mid) : d \in OwedCalls(log)
    BY <2>2, <2>3, OtherEvent
  <2>6. \A m \in Nat : m # n =>
          \A d : Outstanding(ToSet(log), m, d) => Outstanding(ToSet(mid), m, d)
    BY <2>2, <2>3, OtherEvent
  <2>7. \A d \in FoldApplied(log) : d \in FoldApplied(mid)
    BY <2>2, <2>3, MarkersStay
  <2>8. more = IF c \in FoldApplied(mid) /\ c \notin OwedCalls(mid)
                 THEN Append(mid, Forgotten(c)) ELSE mid
    BY <1>2, <2>1, <2>3 DEF OweSettled, Pruned
  <2>9. CASE more = mid
    <3>1. \A g \in ToSet(mid) : g \in ToSet(log) \/ g.id <= n
      BY <2>2, <2>4
    <3> QED
      BY <2>4, <2>5, <2>6, <2>7, <2>9, <3>1
  <2>10. CASE more = Append(mid, Forgotten(c)) /\ c \notin OwedCalls(mid)
    <3>1. PICK f : f = Forgotten(c)
      OBVIOUS
    <3>2. /\ f \in OweEvents /\ f.type = "effect_forgotten" /\ f.id = 0
          /\ \A d : f = Forgotten(d) => d = c
      BY <3>1 DEF Forgotten, OweEvents, LogTypes
    <3>3. PICK fin : fin = Append(mid, f)
      OBVIOUS
    <3>11. f \in OweEvents
      BY <3>2
    <3>4. fin \in Seq(OweEvents) /\ ToSet(fin) = ToSet(mid) \union {f}
      <4>1. mid \in Seq(OweEvents)
        BY <2>4
      <4> QED
        BY <3>3, <3>11, <4>1, OweLogGrows
    <3>5. \A d \in OwedCalls(fin) : d \in OwedCalls(mid)
      BY <2>4, <3>2, <3>3, OtherEvent
    <3>6. \A m \in Nat : \A d : Outstanding(ToSet(mid), m, d) => Outstanding(ToSet(fin), m, d)
      BY <3>2, <3>4 DEF Outstanding
    <3>7. \A d \in FoldApplied(mid) : f # Forgotten(d) => d \in FoldApplied(fin)
      BY <2>4, <3>2, <3>3, MarkersStay
    <3>8. \A d \in FoldApplied(log) : d \in FoldApplied(fin) \/ d \notin OwedCalls(fin)
      BY <2>7, <2>10, <3>2, <3>5, <3>7
    <3>9. \A g \in ToSet(fin) : g \in ToSet(log) \/ g.id <= n
      BY <2>2, <2>4, <3>2, <3>4
    <3>10. more = fin
      BY <2>10, <3>1, <3>3
    <3> QED
      BY <2>5, <2>6, <3>4, <3>5, <3>6, <3>8, <3>9, <3>10
  <2> QED
    BY <2>8, <2>9, <2>10
<1> QED
  BY <1>1, <1>2

\* The gateway once it has no id of a call and does not wait for it.
GateLeaves(mem, c) == [mem EXCEPT !.ids[c] = 0, !.pending = @ \ {c}]

LEMMA GateLeft ==
  ASSUME NEW mem \in OweGates, NEW c \in OweCalls, NEW left, left = GateLeaves(mem, c)
  PROVE  /\ left \in OweGates /\ left.counter = mem.counter
         /\ left.pending = mem.pending \ {c}
         /\ left.ids[c] = 0 /\ \A d \in OweCalls : d # c => left.ids[d] = mem.ids[d]
<1>1. PICK n \in Nat, ids \in [OweCalls -> Nat], pending \in SUBSET OweCalls :
        mem = [counter |-> n, ids |-> ids, pending |-> pending]
  BY DEF OweGates
<1>2. PICK ids2 : ids2 = [ids EXCEPT ![c] = 0]
  OBVIOUS
<1>3. [mem EXCEPT !.ids[c] = 0] = [counter |-> n, ids |-> ids2, pending |-> pending]
  BY <1>1, <1>2
<1>4. left = [counter |-> n, ids |-> ids2, pending |-> pending \ {c}]
  BY <1>3 DEF GateLeaves
<1>5. /\ ids2 \in [OweCalls -> Nat] /\ ids2[c] = 0
      /\ \A d \in OweCalls : d # c => ids2[d] = ids[d]
  BY <1>2
<1>6. left.counter = n /\ left.ids = ids2 /\ left.pending = pending \ {c}
  BY <1>4
<1>7. left \in OweGates
  BY <1>4, <1>5 DEF OweGates
<1> QED
  BY <1>1, <1>5, <1>6, <1>7

\* A call is confirmed, and leaves the gateway.
LEMMA ConfirmFits ==
  ASSUME LedgerInv, NEW c \in OweCalls, Confirms(c), oweGate' = GateLeaves(oweGate, c)
  PROVE  /\ oweLog' \in Seq(OweEvents) /\ oweGate' \in OweGates /\ GateFits(oweLog', oweGate')
         /\ oweGate'.pending = oweGate.pending \ {c}
         /\ \A d \in OwedCalls(oweLog') : d \in OwedCalls(oweLog)
         /\ \A d \in FoldApplied(oweLog) :
              d \in FoldApplied(oweLog') \/ d \notin OwedCalls(oweLog')
<1>1. PICK mem \in OweGates : mem = oweGate
  BY DEF LedgerInv, OweTypes
<1>2. PICK left : left = oweGate'
  OBVIOUS
<1>3. /\ left \in OweGates /\ left.counter = mem.counter
      /\ left.pending = mem.pending \ {c}
      /\ left.ids[c] = 0 /\ \A d \in OweCalls : d # c => left.ids[d] = mem.ids[d]
  BY <1>1, <1>2, GateLeft
<1>4. mem.counter \in Nat /\ mem.ids \in [OweCalls -> Nat] /\ mem.pending \subseteq OweCalls
  BY DEF OweGates
<1>5. PICK n \in Nat : n = mem.ids[c]
  BY <1>4
<1>6. PICK more : more = oweLog'
  OBVIOUS
<1>7. more = OweSettled(oweLog, n, c)
  BY <1>1, <1>5, <1>6 DEF Confirms, OweSettled
<1>8. oweLog \in Seq(OweEvents)
  BY DEF LedgerInv, OweTypes
<1>9. more \in Seq(OweEvents) /\ \A e \in ToSet(more) : e \in ToSet(oweLog) \/ e.id <= n
  BY <1>7, <1>8, SettledFits
<1>10. \A m \in Nat : m # 0 /\ m # n =>
         \A d : Outstanding(ToSet(oweLog), m, d) => Outstanding(ToSet(more), m, d)
  BY <1>7, <1>8, SettledFits
<1>11. \A d \in OwedCalls(more) : d \in OwedCalls(oweLog)
  BY <1>7, <1>8, SettledFits
<1>12. \A d \in FoldApplied(oweLog) : d \in FoldApplied(more) \/ d \notin OwedCalls(more)
  BY <1>7, <1>8, SettledFits
<1>13. /\ \A e \in ToSet(oweLog) : e.id <= mem.counter
       /\ \A d \in mem.pending : mem.ids[d] # 0
       /\ \A d \in OweCalls : mem.ids[d] # 0 => Outstanding(ToSet(oweLog), mem.ids[d], d)
       /\ \A d, o \in OweCalls : mem.ids[d] # 0 /\ mem.ids[d] = mem.ids[o] => d = o
  BY <1>1 DEF LedgerInv, GateFits
<1>14. n <= mem.counter
  <2>1. CASE n = 0
    BY <1>4, <2>1
  <2>2. CASE n # 0
    <3>1. Owed(n, c) \in ToSet(oweLog) /\ Owed(n, c).id = n
      BY <1>5, <1>13, <2>2 DEF Outstanding, Owed
    <3> QED
      BY <1>13, <3>1
  <2> QED
    BY <2>1, <2>2
<1>15. \A e \in ToSet(more) : e.id <= left.counter
  <2> TAKE e \in ToSet(more)
  <2>1. e \in OweEvents
    <3>1. DOMAIN more = 1 .. Len(more)
      BY <1>9
    <3> QED
      BY <1>9, <3>1 DEF ToSet
  <2>2. PICK i \in Nat : i = e.id
    BY <2>1 DEF OweEvents
  <2>3. i <= mem.counter
    BY <1>4, <1>9, <1>13, <1>14, <2>2
  <2> QED
    BY <1>3, <2>2, <2>3
<1>16. \A d \in OweCalls : left.ids[d] # 0 => Outstanding(ToSet(more), left.ids[d], d)
  <2> SUFFICES ASSUME NEW d \in OweCalls, left.ids[d] # 0
               PROVE  Outstanding(ToSet(more), left.ids[d], d)
    OBVIOUS
  <2>1. PICK m \in Nat : m = left.ids[d]
    BY <1>3, <1>4
  <2>2. d # c /\ m = mem.ids[d] /\ m # 0 /\ m # n
    BY <1>3, <1>5, <1>13, <2>1
  <2>3. Outstanding(ToSet(oweLog), m, d)
    BY <1>13, <2>2
  <2> QED
    BY <1>10, <2>1, <2>2, <2>3
<1>17. \A d, o \in OweCalls : left.ids[d] # 0 /\ left.ids[d] = left.ids[o] => d = o
  BY <1>3, <1>13
<1>18. \A d \in left.pending : left.ids[d] # 0
  BY <1>3, <1>4, <1>13
<1>19. GateFits(more, left)
  BY <1>15, <1>16, <1>17, <1>18 DEF GateFits
<1> QED
  BY <1>1, <1>2, <1>3, <1>6, <1>9, <1>11, <1>12, <1>19

\* A step that begins no write, counts none, and leaves owed or unmarked only
\* what was keeps the writes of a call to one.
LEMMA WritesRest ==
  ASSUME WriteInv, LedgerInv', oweWriting' = oweWriting, oweWrites' = oweWrites,
         \A d \in OweCalls : oweRun'[d] = "unasked" => oweRun[d] = "unasked",
         \A d \in OwedCalls(oweLog') : d \in OwedCalls(oweLog),
         \A d \in FoldApplied(oweLog) :
           d \in FoldApplied(oweLog') \/ d \notin OwedCalls(oweLog')
  PROVE  WriteInv'
BY DEF WriteInv, WriteFits

-----------------------------------------------------------------------------

\* A write ends, and is marked.
LEMMA WriteEndsKeeps ==
  ASSUME LedgerInv, NEW c \in OweCalls, WriteEnds(c)
  PROVE  LedgerInv' /\ (WriteInv => WriteInv')
<1>1. /\ oweWriting[c] > 0
      /\ oweWriting' = [oweWriting EXCEPT ![c] = oweWriting[c] - 1]
      /\ oweWrites' = [oweWrites EXCEPT ![c] = oweWrites[c] + 1]
      /\ oweReplies' = oweReplies \union {c} /\ oweGate' = oweGate /\ oweRun' = oweRun
      /\ oweLog' = Append(oweLog, Marked(c))
  BY DEF WriteEnds
<1>2. OweTypes /\ oweLog \in Seq(OweEvents) /\ GateFits(oweLog, oweGate) /\ oweGate \in OweGates
  BY DEF LedgerInv, OweTypes
<1>3. PICK e : e = Marked(c)
  OBVIOUS
<1>4. /\ e \in OweEvents /\ e.type = "effect_applied" /\ e.id = 0
      /\ \A d : e # Forgotten(d)
  BY <1>3 DEF Marked, OweEvents, LogTypes, Forgotten
<1>5. PICK more : more = Append(oweLog, e)
  OBVIOUS
<1>6. oweLog' = more
  BY <1>1, <1>3, <1>5
<1>7. more \in Seq(OweEvents) /\ ToSet(more) = ToSet(oweLog) \union {e}
  <2>1. oweLog \in Seq(OweEvents) /\ e \in OweEvents
    BY <1>2, <1>4
  <2> QED
    BY <1>5, <2>1, OweLogGrows
<1>8. \A d \in OwedCalls(more) : d \in OwedCalls(oweLog)
  BY <1>2, <1>4, <1>5, OtherEvent
<1>9. \A d \in FoldApplied(oweLog) : d \in FoldApplied(more)
  BY <1>2, <1>4, <1>5, MarkersStay
<1>10. c \in FoldApplied(more)
  BY <1>2, <1>3, <1>4, <1>5, MarkersStay
<1>11. \A m \in Nat : \A d : Outstanding(ToSet(oweLog), m, d) => Outstanding(ToSet(more), m, d)
  BY <1>4, <1>7 DEF Outstanding
<1>12. GateFits(more, oweGate)
  <2>1. oweGate.counter \in Nat /\ oweGate.ids \in [OweCalls -> Nat]
    BY <1>2 DEF OweGates
  <2>2. \A f \in ToSet(more) : f.id <= oweGate.counter
    BY <1>2, <1>4, <1>7, <2>1 DEF GateFits
  <2> QED
    BY <1>2, <1>11, <2>1, <2>2 DEF GateFits
<1>13. /\ oweWriting'[c] = oweWriting[c] - 1 /\ oweWrites'[c] = oweWrites[c] + 1
       /\ oweWriting[c] \in Nat /\ oweWrites[c] \in Nat
       /\ \A d \in OweCalls : d # c => /\ oweWriting'[d] = oweWriting[d]
                                       /\ oweWrites'[d] = oweWrites[d]
       /\ oweWriting' \in [OweCalls -> Nat] /\ oweWrites' \in [OweCalls -> Nat]
  BY <1>1, <1>2 DEF OweTypes
<1>14. OweTypes'
  BY <1>1, <1>2, <1>6, <1>7, <1>13 DEF OweTypes
<1>15. LedgerInv'
  BY <1>1, <1>6, <1>12, <1>14 DEF LedgerInv
<1>16. ASSUME WriteInv, NEW d \in OweCalls PROVE WriteFits(d)'
  <2>1. WriteFits(d)
    BY <1>16 DEF WriteInv
  <2>2. CASE d = c
    BY <1>1, <1>6, <1>10, <1>13, <2>1, <2>2 DEF WriteFits
  <2>3. CASE d # c
    BY <1>1, <1>6, <1>8, <1>9, <1>13, <2>1, <2>3 DEF WriteFits
  <2> QED
    BY <2>2, <2>3
<1> QED
  BY <1>15, <1>16 DEF WriteInv

\* A call is settled.
LEMMA SettleKeeps ==
  ASSUME LedgerInv, NEW c \in OweCalls, Settle(c)
  PROVE  LedgerInv' /\ (WriteInv => WriteInv')
<1>1. /\ Confirms(c) /\ oweGate' = GateLeaves(oweGate, c) /\ oweReplies' = oweReplies \ {c}
      /\ oweRun' = [oweRun EXCEPT ![c] =
                      IF c \in oweGate.pending THEN "answered" ELSE oweRun[c]]
      /\ oweWriting' = oweWriting /\ oweWrites' = oweWrites
  BY DEF Settle, GateLeaves
<1>2. /\ oweLog' \in Seq(OweEvents) /\ oweGate' \in OweGates /\ GateFits(oweLog', oweGate')
      /\ oweGate'.pending = oweGate.pending \ {c}
  BY <1>1, ConfirmFits
<1>3. \A d \in OwedCalls(oweLog') : d \in OwedCalls(oweLog)
  BY <1>1, ConfirmFits
<1>4. \A d \in FoldApplied(oweLog) : d \in FoldApplied(oweLog') \/ d \notin OwedCalls(oweLog')
  BY <1>1, ConfirmFits
<1>5. OweTypes /\ \A d \in OweCalls : oweRun[d] = "waiting" => d \in oweGate.pending
  BY DEF LedgerInv
<1>6. /\ oweRun' \in [OweCalls -> {"unasked", "waiting", "answered", "gave_up"}]
      /\ \A d \in OweCalls : d # c => oweRun'[d] = oweRun[d]
      /\ oweRun'[c] \in {"answered", oweRun[c]}
      /\ c \in oweGate.pending => oweRun'[c] = "answered"
  BY <1>1, <1>5 DEF OweTypes
<1>7. OweTypes'
  BY <1>1, <1>2, <1>5, <1>6 DEF OweTypes
<1>8. \A d \in OweCalls : oweRun'[d] = "waiting" => d \in oweGate'.pending
  <2> SUFFICES ASSUME NEW d \in OweCalls, oweRun'[d] = "waiting"
               PROVE  d \in oweGate'.pending
    OBVIOUS
  <2>1. d # c
    BY <1>5, <1>6
  <2> QED
    BY <1>2, <1>5, <1>6, <2>1
<1>9. LedgerInv'
  BY <1>2, <1>7, <1>8 DEF LedgerInv
<1>10. \A d \in OweCalls : oweRun'[d] = "unasked" => oweRun[d] = "unasked"
  BY <1>6
<1> QED
  BY <1>1, <1>3, <1>4, <1>9, <1>10, WritesRest

\* The transport fails under a call.
LEMMA FailKeeps ==
  ASSUME LedgerInv, NEW c \in OweCalls, Fail(c)
  PROVE  LedgerInv' /\ (WriteInv => WriteInv')
<1>1. /\ Confirms(c) /\ oweGate' = GateLeaves(oweGate, c) /\ oweReplies' = oweReplies
      /\ oweRun' = [oweRun EXCEPT ![c] = "gave_up"]
      /\ oweWriting' = oweWriting /\ oweWrites' = oweWrites
  BY DEF Fail, GateLeaves
<1>2. /\ oweLog' \in Seq(OweEvents) /\ oweGate' \in OweGates /\ GateFits(oweLog', oweGate')
      /\ oweGate'.pending = oweGate.pending \ {c}
  BY <1>1, ConfirmFits
<1>3. \A d \in OwedCalls(oweLog') : d \in OwedCalls(oweLog)
  BY <1>1, ConfirmFits
<1>4. \A d \in FoldApplied(oweLog) : d \in FoldApplied(oweLog') \/ d \notin OwedCalls(oweLog')
  BY <1>1, ConfirmFits
<1>5. OweTypes /\ \A d \in OweCalls : oweRun[d] = "waiting" => d \in oweGate.pending
  BY DEF LedgerInv
<1>6. /\ oweRun' \in [OweCalls -> {"unasked", "waiting", "answered", "gave_up"}]
      /\ \A d \in OweCalls : d # c => oweRun'[d] = oweRun[d]
      /\ oweRun'[c] = "gave_up"
  BY <1>1, <1>5 DEF OweTypes
<1>7. OweTypes'
  BY <1>1, <1>2, <1>5, <1>6 DEF OweTypes
<1>8. \A d \in OweCalls : oweRun'[d] = "waiting" => d \in oweGate'.pending
  BY <1>2, <1>5, <1>6
<1>9. LedgerInv'
  BY <1>2, <1>7, <1>8 DEF LedgerInv
<1>10. \A d \in OweCalls : oweRun'[d] = "unasked" => oweRun[d] = "unasked"
  BY <1>6
<1> QED
  BY <1>1, <1>3, <1>4, <1>9, <1>10, WritesRest

\* The gateway gives a call up at its deadline, and keeps its id.
LEMMA DeadlineKeeps ==
  ASSUME LedgerInv, NEW c \in OweCalls, Deadline(c)
  PROVE  LedgerInv' /\ (WriteInv => WriteInv')
<1>1. /\ oweGate' = [oweGate EXCEPT !.pending = oweGate.pending \ {c}]
      /\ oweReplies' = oweReplies /\ oweLog' = oweLog
      /\ oweRun' = [oweRun EXCEPT ![c] = "gave_up"]
      /\ oweWriting' = oweWriting /\ oweWrites' = oweWrites
  BY DEF Deadline
<1>2. /\ OweTypes /\ oweGate \in OweGates /\ GateFits(oweLog, oweGate)
      /\ \A d \in OweCalls : oweRun[d] = "waiting" => d \in oweGate.pending
  BY DEF LedgerInv, OweTypes
<1>3. /\ oweGate' \in OweGates /\ oweGate'.pending = oweGate.pending \ {c}
      /\ oweGate'.ids = oweGate.ids /\ oweGate'.counter = oweGate.counter
  BY <1>1, <1>2 DEF OweGates
<1>4. GateFits(oweLog', oweGate')
  BY <1>1, <1>2, <1>3 DEF GateFits
<1>5. /\ oweRun' \in [OweCalls -> {"unasked", "waiting", "answered", "gave_up"}]
      /\ \A d \in OweCalls : d # c => oweRun'[d] = oweRun[d]
      /\ oweRun'[c] = "gave_up"
  BY <1>1, <1>2 DEF OweTypes
<1>6. OweTypes'
  BY <1>1, <1>2, <1>3, <1>5 DEF OweTypes
<1>7. LedgerInv'
  BY <1>2, <1>3, <1>4, <1>5, <1>6 DEF LedgerInv
<1>8. \A d \in OweCalls : oweRun'[d] = "unasked" => oweRun[d] = "unasked"
  BY <1>5
<1> QED
  BY <1>1, <1>7, <1>8, WritesRest

\* The isolate goes, and comes back with a re-issue of its log.
LEMMA OweEvictKeeps ==
  ASSUME LedgerInv, EvictGateway
  PROVE  LedgerInv' /\ (WriteInv => WriteInv')
<1>1. PICK g : g = Reissued(oweLog)
  OBVIOUS
<1>2. /\ oweLog' = g.log /\ oweGate' = g.gate /\ oweRun' = oweRun /\ oweWrites' = oweWrites
      /\ oweWriting' = [c \in OweCalls |->
            NoIds[c] + (IF c \in g.sent \ FoldApplied(oweLog) THEN 1 ELSE 0)]
      /\ oweReplies' = {} \union (g.sent \intersect FoldApplied(oweLog))
  BY <1>1 DEF EvictGateway, Sends
<1>3. OweTypes /\ oweLog \in Seq(OweEvents)
  BY DEF LedgerInv, OweTypes
<1>4. g \in ReissueOf(oweLog) /\ OwedCalls(oweLog) \subseteq g.gate.pending
  BY <1>1, <1>3, ReissueFits
<1>5. g \in Issues /\ GateFits(g.log, g.gate)
  BY <1>4 DEF ReissueOf, Fitting
<1>6. /\ g.sent \subseteq OwedCalls(oweLog)
      /\ \A d : d \in OwedCalls(g.log) <=> d \in OwedCalls(oweLog)
      /\ FoldApplied(oweLog) \subseteq FoldApplied(g.log)
  BY <1>4 DEF ReissueOf
<1>7. \A c \in OweCalls : oweWriting'[c] = IF c \in g.sent \ FoldApplied(oweLog) THEN 1 ELSE 0
  BY <1>2 DEF NoIds
<1>8. oweWriting' \in [OweCalls -> Nat] /\ oweReplies' \subseteq OweCalls
  <2>1. \A c \in OweCalls :
          NoIds[c] + (IF c \in g.sent \ FoldApplied(oweLog) THEN 1 ELSE 0) \in Nat
    BY DEF NoIds
  <2>2. g.sent \subseteq OweCalls
    BY <1>5 DEF Issues
  <2> QED
    BY <1>2, <2>1, <2>2
<1>9. OweTypes'
  BY <1>2, <1>3, <1>5, <1>8 DEF OweTypes, Issues
<1>10. ASSUME NEW c \in OweCalls, oweRun'[c] = "waiting" PROVE c \in oweGate'.pending
  <2>1. c \in oweGate.pending
    BY <1>2, <1>10 DEF LedgerInv
  <2>2. /\ oweGate.ids[c] # 0 /\ oweGate.ids[c] \in Nat
        /\ Outstanding(ToSet(oweLog), oweGate.ids[c], c)
    BY <1>3, <2>1 DEF LedgerInv, GateFits, OweTypes, OweGates
  <2>3. c \in OwedCalls(oweLog)
    BY <1>3, <2>2, OwedCallsAre
  <2> QED
    BY <1>2, <1>4, <2>3
<1>11. LedgerInv'
  BY <1>2, <1>5, <1>9, <1>10 DEF LedgerInv
<1>12. ASSUME WriteInv, NEW c \in OweCalls PROVE WriteFits(c)'
  <2>1. WriteFits(c) /\ oweWrites[c] \in Nat /\ oweWriting[c] \in Nat
    BY <1>3, <1>12 DEF WriteInv, OweTypes
  <2>2. CASE c \in g.sent \ FoldApplied(oweLog)
    <3>1. c \in OwedCalls(oweLog) /\ oweWrites[c] # 1 /\ oweRun[c] # "unasked"
      BY <1>6, <2>1, <2>2 DEF WriteFits
    <3>2. oweWrites[c] = 0 /\ oweWriting'[c] = 1
      BY <1>7, <2>1, <2>2, <3>1 DEF WriteFits
    <3> QED
      BY <1>2, <3>1, <3>2 DEF WriteFits
  <2>3. CASE c \notin g.sent \ FoldApplied(oweLog)
    <3>1. oweWriting'[c] = 0
      BY <1>7, <2>3
    <3>2. oweWrites[c] <= 1
      BY <2>1 DEF WriteFits
    <3> QED
      BY <1>2, <1>6, <2>1, <3>1, <3>2 DEF WriteFits
  <2> QED
    BY <2>2, <2>3
<1> QED
  BY <1>11, <1>12 DEF WriteInv

\* Every step keeps the invariants.
LEMMA LedgerStep == LedgerInv /\ [OweNext]_oweVars => LedgerInv'
<1> SUFFICES ASSUME LedgerInv, [OweNext]_oweVars PROVE LedgerInv'
  OBVIOUS
<1>1. CASE UNCHANGED oweVars
  BY <1>1 DEF oweVars, LedgerInv, OweTypes, GateFits, Outstanding
<1>2. ASSUME NEW c \in OweCalls,
             Await(c) \/ WriteEnds(c) \/ Settle(c) \/ Fail(c) \/ Deadline(c)
      PROVE  LedgerInv'
  BY <1>2, AwaitDoes, WriteEndsKeeps, SettleKeeps, FailKeeps, DeadlineKeeps
<1>3. CASE EvictGateway
  BY <1>3, OweEvictKeeps
<1> QED
  BY <1>1, <1>2, <1>3 DEF OweNext

\* Every step keeps the invariant of the writes.
LEMMA WriteStep == WriteInv /\ ~OweAgain /\ [OweNext]_oweVars => WriteInv'
<1> SUFFICES ASSUME WriteInv, ~OweAgain, [OweNext]_oweVars PROVE WriteInv'
  OBVIOUS
<1>1. CASE UNCHANGED oweVars
  <2>1. LedgerInv'
    BY <1>1, LedgerStep DEF WriteInv
  <2> QED
    BY <1>1, <2>1 DEF oweVars, WriteInv, WriteFits
<1>2. ASSUME NEW c \in OweCalls, Await(c) PROVE WriteInv'
  BY <1>2, AwaitWrites
<1>3. ASSUME NEW c \in OweCalls, WriteEnds(c) \/ Settle(c) \/ Fail(c) \/ Deadline(c)
      PROVE  WriteInv'
  <2>1. LedgerInv
    BY DEF WriteInv
  <2> QED
    BY <1>3, <2>1, WriteEndsKeeps, SettleKeeps, FailKeeps, DeadlineKeeps
<1>4. CASE EvictGateway
  BY <1>4, OweEvictKeeps DEF WriteInv
<1> QED
  BY <1>1, <1>2, <1>3, <1>4 DEF OweNext

\* What the invariants say: of what is owed, and of the writes.
LEMMA LedgerInvOwed == LedgerInv => UnansweredIsOwed
<1> SUFFICES ASSUME LedgerInv, NEW c \in OweCalls, c \in oweGate.pending
             PROVE  c \in OwedCalls(oweLog)
  BY DEF UnansweredIsOwed, LedgerInv
<1>1. /\ oweGate.ids[c] # 0 /\ oweGate.ids[c] \in Nat /\ oweLog \in Seq(OweEvents)
      /\ Outstanding(ToSet(oweLog), oweGate.ids[c], c)
  BY DEF LedgerInv, GateFits, OweTypes, OweGates
<1> QED
  BY <1>1, OwedCallsAre

\* With it, no write takes effect twice.
LEMMA WriteInvOnce == WriteInv => EffectivelyOnce
<1> SUFFICES ASSUME WriteInv, NEW c \in OweCalls PROVE oweWrites[c] <= 1
  BY DEF EffectivelyOnce
<1>1. oweWriting[c] \in Nat /\ oweWrites[c] \in Nat /\ WriteFits(c)
  BY DEF WriteInv, LedgerInv, OweTypes
<1> QED
  BY <1>1 DEF WriteFits

\* What a run waits for is owed in the log, over any calls, timeouts and
\* evictions, and whether or not it asks for a call again.
THEOREM UnansweredStaysOwed == OweSpec => []UnansweredIsOwed
<1>1. OweSpec => []LedgerInv
  BY OweStarts, LedgerStep, PTL DEF OweSpec, WriteInv
<1> QED
  BY <1>1, LedgerInvOwed, PTL

\* The re-fire and the guard together: a write is made and marked once, where
\* the run does not ask again for what it gave up.
THEOREM WritesStayOnce == ASSUME ~OweAgain PROVE OweSpec => []EffectivelyOnce
<1>1. OweInit => WriteInv
  BY OweStarts
<1>2. WriteInv /\ [OweNext]_oweVars => WriteInv'
  BY WriteStep
<1>3. OweSpec => []WriteInv
  BY <1>1, <1>2, PTL DEF OweSpec
<1> QED
  BY <1>3, WriteInvOnce, PTL
=============================================================================
