---------------------------- MODULE JournalSync ----------------------------
(***************************************************************************)
(* makeSyncClient (packages/tea/src/internal/journal/remote.ts): clients   *)
(* that append to a local journal and sync it with one remote journal, for *)
(* one stream.  A sync lists the local tail and pushes it; the answer in,  *)
(* it counts the tail and reads the cursor, and pulls; the entries in, it  *)
(* extends the converged log and moves the cursor.  The awaits between let *)
(* two syncs of one client overlap; a request may be refused, and the      *)
(* answer of a push be lost.  The local journal and the cursor store are   *)
(* the default ones, in memory: they answer what they held when asked.     *)
(* A record is its author and its place in the author's journal.           *)
(***************************************************************************)
EXTENDS SequencesExt, Integers

CONSTANTS
  Authors,           \* the clients
  Hasty,             \* the clients that may start a sync while one is open
  JournalMaxAppends, \* bound: appends of all clients
  JournalMaxPushes,  \* bound: records on the remote
  JournalMaxLog      \* bound: entries a client has pulled

ASSUME JournalAssumption ==
  /\ Hasty \subseteq Authors
  /\ {JournalMaxAppends, JournalMaxPushes, JournalMaxLog} \subseteq Nat

VARIABLES
  localCount,   \* records in each client's local journal
  pushed,       \* how many of them each client counts as pushed
  remote,       \* the remote journal; the seq of a record is its index
  cursor,       \* the last seq each client has pulled
  converged,    \* the log each client has pulled, as seqs
  syncs,        \* the open syncs of each client, by slot
  journalDoubt  \* history: clients whose syncs overlapped or lost an answer

journalVars == <<localCount, pushed, remote, cursor, converged, syncs, journalDoubt>>

Slots(a) == IF a \in Hasty THEN 1 .. 2 ELSE {1}
Idle == [at |-> "idle", tail |-> 0, since |-> 0, entries |-> <<>>]
Written(a, n) == [author |-> a, n |-> n]

JournalInit ==
  /\ localCount = [a \in Authors |-> 0] /\ pushed = [a \in Authors |-> 0]
  /\ remote = <<>>
  /\ cursor = [a \in Authors |-> 0]
  /\ converged = [a \in Authors |-> <<>>]
  /\ syncs = [a \in Authors |-> [i \in Slots(a) |-> Idle]]
  /\ journalDoubt = {}

Syncing(a) == {i \in Slots(a) : syncs[a][i].at # "idle"}
Goes(a, i, to) == syncs' = [syncs EXCEPT ![a][i] = to]

-----------------------------------------------------------------------------

AppendRecord(a) ==
  /\ SumFunction(localCount) < JournalMaxAppends
  /\ localCount' = [localCount EXCEPT ![a] = @ + 1]
  /\ UNCHANGED <<pushed, remote, cursor, converged, syncs, journalDoubt>>

\* unpushed(): the records after the pushed ones, none if it counts too many.
Tail0(a) == IF pushed[a] < localCount[a] THEN localCount[a] - pushed[a] ELSE 0

BeginSync(a, i) ==
  /\ syncs[a][i].at = "idle"
  /\ Goes(a, i, [Idle EXCEPT !.at = IF Tail0(a) > 0 THEN "push" ELSE "count",
                             !.tail = Tail0(a), !.since = pushed[a]])
  /\ journalDoubt' = IF Syncing(a) = {} THEN journalDoubt
                       ELSE journalDoubt \union {a}
  /\ UNCHANGED <<localCount, pushed, remote, cursor, converged>>

\* The remote takes the tail the sync listed, and gives it the next seqs.
Push(a, i) ==
  LET s == syncs[a][i]
  IN /\ s.at = "push"
     /\ Len(remote) + s.tail <= JournalMaxPushes
     /\ remote' = remote \o [k \in 1 .. s.tail |-> Written(a, s.since + k)]
     /\ \/ Goes(a, i, [s EXCEPT !.at = "count"]) /\ UNCHANGED journalDoubt
        \/ Goes(a, i, Idle) /\ journalDoubt' = journalDoubt \union {a}
     /\ UNCHANGED <<localCount, pushed, cursor, converged>>

MutCount(a, i) == localCount[a]
Count(a, i) == pushed[a] + syncs[a][i].tail

\* The push resolved, or there was none: its records are counted, and the cursor
\* read.
CountPush(a, i) ==
  /\ syncs[a][i].at = "count"
  /\ pushed' = [pushed EXCEPT ![a] = Count(a, i)]
  /\ Goes(a, i, [Idle EXCEPT !.at = "pull", !.since = cursor[a]])
  /\ UNCHANGED <<localCount, remote, cursor, converged, journalDoubt>>

Pull(a, i) ==
  LET since == syncs[a][i].since
  IN /\ syncs[a][i].at = "pull"
     /\ Goes(a, i, [syncs[a][i] EXCEPT
                      !.at = "log",
                      !.entries = [k \in 1 .. Len(remote) - since |-> since + k]])
     /\ UNCHANGED <<localCount, pushed, remote, cursor, converged, journalDoubt>>

\* The log grows, and then the cursor moves; nothing to pull moves neither.
MutPulled(a, entries) == Len(remote)
Pulled(a, entries) == IF entries = <<>> THEN cursor[a] ELSE Last(entries)

KeepEntries(a, i) ==
  LET entries == syncs[a][i].entries
  IN /\ syncs[a][i].at = "log"
     /\ Len(converged[a]) + Len(entries) <= JournalMaxLog
     /\ converged' = [converged EXCEPT ![a] = @ \o entries]
     /\ cursor' = [cursor EXCEPT ![a] = Pulled(a, entries)]
     /\ Goes(a, i, Idle)
     /\ UNCHANGED <<localCount, pushed, remote, journalDoubt>>

\* A refused push or pull rejects the sync; what it did before stays done.
Refuse(a, i) ==
  /\ syncs[a][i].at \in {"push", "pull"}
  /\ Goes(a, i, Idle)
  /\ UNCHANGED <<localCount, pushed, remote, cursor, converged, journalDoubt>>

JournalNext ==
  \E a \in Authors :
    \/ AppendRecord(a)
    \/ \E i \in Slots(a) :
         \/ BeginSync(a, i) \/ Push(a, i) \/ CountPush(a, i)
         \/ Pull(a, i) \/ KeepEntries(a, i) \/ Refuse(a, i)

JournalSpec == JournalInit /\ [][JournalNext]_journalVars

-----------------------------------------------------------------------------

\* The seqs of the records of a client on the remote, and what it calls them.
OwnSeqs(a) == {seq \in DOMAIN remote : remote[seq].author = a}
OwnNumbers(a) == {remote[seq].n : seq \in OwnSeqs(a)}

UpTo(n) == [k \in 1 .. n |-> k]

(* Two clients "converge on the remote's order" (remote.ts:289): no record *)
(* below a cursor is missing from the log pulled, whatever syncs overlap   *)
(* or fail; and a client that syncs one at a time and hears every answer   *)
(* has each record on the remote once, in its own order, with all those it *)
(* counts as pushed there, and each seq of its log once, in order.         *)
JournalsConverge ==
  \A a \in Authors :
    /\ 1 .. cursor[a] \subseteq ToSet(converged[a])
    /\ a \notin journalDoubt =>
         /\ \E n \in pushed[a] .. Len(remote) : OwnNumbers(a) = 1 .. n
         /\ \A i, j \in OwnSeqs(a) : i < j => remote[i].n < remote[j].n
         /\ converged[a] = UpTo(Len(converged[a]))
=============================================================================
