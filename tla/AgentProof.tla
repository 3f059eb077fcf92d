----------------------------- MODULE AgentProof -----------------------------
(***************************************************************************)
(* The agent, for every value of its constants: AgentInv is inductive, and *)
(* from it the agent keeps its shape, every call of the conversation is    *)
(* answered once, a live run is never stuck, and the attempts of a tool    *)
(* keep to the budget of its policy.                                       *)
(***************************************************************************)
EXTENDS AgentRun, CallsProof

-----------------------------------------------------------------------------
(* Sequences that list a set, as the fan-out and the ladder keep them.     *)

\* The sequence lists the set: each of its members once.
Lists(q, S) == q \in Seq(AgentIds) /\ IsInjective(q) /\ ToSet(q) = S

\* What a prover needs of a list, with its length.
LEMMA ListIs ==
  ASSUME NEW q, NEW S
  PROVE  Lists(q, S) <=>
           /\ q \in Seq(AgentIds) /\ S \subseteq AgentIds
           /\ \A i, j \in 1 .. Len(q) : q[i] = q[j] => i = j
           /\ \A i \in 1 .. Len(q) : q[i] \in S
           /\ \A k \in S : \E i \in 1 .. Len(q) : q[i] = k
<1>1. CASE q \in Seq(AgentIds)
  <2>1. DOMAIN q = 1 .. Len(q) /\ \A i \in 1 .. Len(q) : q[i] \in AgentIds
    BY <1>1
  <2>2. ToSet(q) = {q[i] : i \in 1 .. Len(q)}
    BY <2>1 DEF ToSet
  <2>3. IsInjective(q) <=> \A i, j \in 1 .. Len(q) : q[i] = q[j] => i = j
    BY <2>1 DEF IsInjective
  <2> QED
    BY <1>1, <2>1, <2>2, <2>3 DEF Lists
<1> QED
  BY <1>1 DEF Lists

\* The first n places of a list, and those behind them.
LEMMA ListSplits ==
  ASSUME NEW q, NEW S, Lists(q, S), NEW n \in Nat, n <= Len(q),
         NEW a, a = SubSeq(q, 1, n), NEW b, b = SubSeq(q, n + 1, Len(q))
  PROVE  \E A \in SUBSET S :
           /\ Lists(a, A) /\ Lists(b, S \ A)
           /\ n > 0 => A # {}
           /\ n = Len(q) => A = S
<1>1. /\ q \in Seq(AgentIds) /\ S \subseteq AgentIds
      /\ \A i, j \in 1 .. Len(q) : q[i] = q[j] => i = j
      /\ \A i \in 1 .. Len(q) : q[i] \in S
      /\ \A k \in S : \E i \in 1 .. Len(q) : q[i] = k
  BY ListIs
<1>2. PICK m \in Nat : m = Len(q)
  BY <1>1
<1>3. /\ a \in Seq(AgentIds) /\ Len(a) = n
      /\ \A i \in 1 .. n : a[i] = q[i]
  BY <1>1, <1>2
<1>4. /\ b \in Seq(AgentIds) /\ Len(b) = m - n
      /\ \A i \in 1 .. m - n : b[i] = q[n + i]
  BY <1>1, <1>2
<1> DEFINE A == {q[i] : i \in 1 .. n}
<1>5. A \in SUBSET S
  BY <1>1, <1>2
<1>6. Lists(a, A)
  <2>1. \A i, j \in 1 .. n : a[i] = a[j] => i = j
    BY <1>1, <1>2, <1>3
  <2>2. \A i \in 1 .. n : a[i] \in A
    BY <1>3
  <2>3. \A k \in A : \E i \in 1 .. n : a[i] = k
    BY <1>3
  <2> HIDE DEF A
  <2> QED
    BY <1>1, <1>3, <1>5, <2>1, <2>2, <2>3, ListIs
<1>7. Lists(b, S \ A)
  <2>1. \A i \in 1 .. m - n : n + i \in 1 .. m
    BY <1>2
  <2>2. \A i, j \in 1 .. m - n : b[i] = b[j] => i = j
    <3> SUFFICES ASSUME NEW i \in 1 .. m - n, NEW j \in 1 .. m - n, b[i] = b[j]
                 PROVE  i = j
      OBVIOUS
    <3>1. PICK f \in 1 .. m : f = n + i
      BY <2>1
    <3>2. PICK g \in 1 .. m : g = n + j
      BY <2>1
    <3>3. q[f] = q[g]
      BY <1>4, <3>1, <3>2
    <3>4. f = g
      BY <1>1, <1>2, <3>3
    <3> QED
      BY <3>1, <3>2, <3>4
  <2>3. \A i \in 1 .. m - n : b[i] \in S \ A
    <3> SUFFICES ASSUME NEW i \in 1 .. m - n PROVE b[i] \in S \ A
      OBVIOUS
    <3>1. b[i] = q[n + i] /\ n + i \in 1 .. m /\ b[i] \in S
      BY <1>1, <1>2, <1>4, <2>1
    <3>2. \A j \in 1 .. n : q[j] # q[n + i]
      BY <1>1, <1>2, <3>1
    <3> QED
      BY <3>1, <3>2
  <2>4. \A k \in S \ A : \E i \in 1 .. m - n : b[i] = k
    <3> SUFFICES ASSUME NEW k \in S \ A PROVE \E i \in 1 .. m - n : b[i] = k
      OBVIOUS
    <3>1. PICK l \in 1 .. m : q[l] = k
      BY <1>1, <1>2
    <3>2. l \notin 1 .. n
      BY <3>1
    <3>3. l - n \in 1 .. m - n /\ n + (l - n) = l
      BY <3>2
    <3>4. b[l - n] = k
      BY <1>4, <3>1, <3>3
    <3> QED
      BY <3>3, <3>4
  <2> HIDE DEF A
  <2> QED
    BY <1>1, <1>4, <2>2, <2>3, <2>4, ListIs
<1>8. n > 0 => A # {}
  <2>1. n > 0 => q[1] \in A
    OBVIOUS
  <2> QED
    BY <2>1
<1>9. n = Len(q) => A = S
  BY <1>1
<1> HIDE DEF A
<1> QED
  BY <1>5, <1>6, <1>7, <1>8, <1>9

\* Two lists of different things, one behind the other.
LEMMA ListsJoin ==
  ASSUME NEW p, NEW A, Lists(p, A), NEW q, NEW B, Lists(q, B), A \intersect B = {},
         NEW pq, pq = p \o q
  PROVE  Lists(pq, A \union B)
<1>1. /\ p \in Seq(AgentIds) /\ A \subseteq AgentIds
      /\ \A i, j \in 1 .. Len(p) : p[i] = p[j] => i = j
      /\ \A i \in 1 .. Len(p) : p[i] \in A
      /\ \A k \in A : \E i \in 1 .. Len(p) : p[i] = k
  BY ListIs
<1>2. /\ q \in Seq(AgentIds) /\ B \subseteq AgentIds
      /\ \A i, j \in 1 .. Len(q) : q[i] = q[j] => i = j
      /\ \A i \in 1 .. Len(q) : q[i] \in B
      /\ \A k \in B : \E i \in 1 .. Len(q) : q[i] = k
  BY ListIs
<1>3. PICK m \in Nat : m = Len(p)
  BY <1>1
<1>4. PICK n \in Nat : n = Len(q)
  BY <1>2
<1>5. /\ pq \in Seq(AgentIds) /\ Len(pq) = m + n
      /\ \A i \in 1 .. m : pq[i] = p[i]
      /\ \A i \in 1 .. n : pq[m + i] = q[i]
  BY <1>1, <1>2, <1>3, <1>4
<1>6. \A i \in 1 .. m + n : i \in 1 .. m \/ (i - m \in 1 .. n /\ pq[i] = q[i - m])
  <2> SUFFICES ASSUME NEW i \in 1 .. m + n, i \notin 1 .. m
               PROVE  i - m \in 1 .. n /\ pq[i] = q[i - m]
    OBVIOUS
  <2>1. i - m \in 1 .. n /\ m + (i - m) = i
    OBVIOUS
  <2> QED
    BY <1>5, <2>1
<1>7. \A i \in 1 .. m : pq[i] \in A
  BY <1>1, <1>3, <1>5
<1>8. \A i \in 1 .. m + n : i \notin 1 .. m => pq[i] \in B
  BY <1>2, <1>4, <1>6
<1>9. \A i, j \in 1 .. m + n : pq[i] = pq[j] => i = j
  <2> SUFFICES ASSUME NEW i \in 1 .. m + n, NEW j \in 1 .. m + n, pq[i] = pq[j]
               PROVE  i = j
    OBVIOUS
  <2>1. CASE i \in 1 .. m /\ j \in 1 .. m
    <3>1. p[i] = p[j]
      BY <1>5, <2>1
    <3>2. \A f, g \in 1 .. m : p[f] = p[g] => f = g
      BY <1>1, <1>3
    <3> QED
      BY <2>1, <3>1, <3>2
  <2>2. CASE i \notin 1 .. m /\ j \notin 1 .. m
    <3>1. PICK f \in 1 .. n : f = i - m
      BY <1>6, <2>2
    <3>2. PICK g \in 1 .. n : g = j - m
      BY <1>6, <2>2
    <3>3. q[f] = q[g]
      BY <1>6, <2>2, <3>1, <3>2
    <3>4. f = g
      BY <1>2, <1>4, <3>3
    <3> QED
      BY <3>1, <3>2, <3>4
  <2>3. CASE i \in 1 .. m /\ j \notin 1 .. m
    <3>1. pq[i] \in A /\ pq[j] \in B
      BY <1>7, <1>8, <2>3
    <3> QED
      BY <3>1
  <2>4. CASE j \in 1 .. m /\ i \notin 1 .. m
    <3>1. pq[j] \in A /\ pq[i] \in B
      BY <1>7, <1>8, <2>4
    <3> QED
      BY <3>1
  <2> QED
    BY <2>1, <2>2, <2>3, <2>4
<1>10. \A k \in A \union B : \E i \in 1 .. m + n : pq[i] = k
  <2> SUFFICES ASSUME NEW k \in A \union B PROVE \E i \in 1 .. m + n : pq[i] = k
    OBVIOUS
  <2>1. CASE k \in A
    <3>1. PICK i \in 1 .. m : p[i] = k
      BY <1>1, <1>3, <2>1
    <3>2. i \in 1 .. m + n /\ pq[i] = k
      BY <1>5, <3>1
    <3> QED
      BY <3>2
  <2>2. CASE k \in B
    <3>1. PICK i \in 1 .. n : q[i] = k
      BY <1>2, <1>4, <2>2
    <3>2. m + i \in 1 .. m + n /\ pq[m + i] = k
      BY <1>5, <3>1
    <3> QED
      BY <3>2
  <2> QED
    BY <2>1, <2>2
<1>11. \A i \in 1 .. m + n : pq[i] \in A \union B
  BY <1>7, <1>8
<1> QED
  BY <1>1, <1>2, <1>5, <1>9, <1>10, <1>11, ListIs

\* A list without one of its members.
LEMMA ListLoses ==
  ASSUME NEW q, NEW S, Lists(q, S), NEW i \in DOMAIN q, NEW r, r = RemoveAt(q, i)
  PROVE  Lists(r, S \ {q[i]})
<1>1. /\ q \in Seq(AgentIds) /\ S \subseteq AgentIds
      /\ \A l, j \in 1 .. Len(q) : q[l] = q[j] => l = j
      /\ \A j \in 1 .. Len(q) : q[j] \in S
      /\ \A k \in S : \E j \in 1 .. Len(q) : q[j] = k
  BY ListIs
<1>2. PICK n \in Nat : n = Len(q)
  BY <1>1
<1>3. i \in 1 .. n
  BY <1>1, <1>2
<1>4. /\ r \in Seq(AgentIds) /\ Len(r) = n - 1
      /\ \A j \in 1 .. n - 1 : r[j] = IF j < i THEN q[j] ELSE q[j + 1]
  <2>1. PICK l \in Nat : l = i - 1
    BY <1>3
  <2>2. PICK m \in Nat : m = n - i
    BY <1>3
  <2>3. PICK a : a = SubSeq(q, 1, i - 1)
    OBVIOUS
  <2>4. PICK b : b = SubSeq(q, i + 1, n)
    OBVIOUS
  <2>5. /\ a \in Seq(AgentIds) /\ Len(a) = l /\ \A j \in 1 .. l : a[j] = q[j]
    BY <1>1, <1>2, <1>3, <2>1, <2>3
  <2>6. /\ b \in Seq(AgentIds) /\ Len(b) = m /\ \A j \in 1 .. m : b[j] = q[i + j]
    BY <1>1, <1>2, <1>3, <2>2, <2>4
  <2>7. r = Joined(a, b)
    BY <1>2, <2>3, <2>4 DEF RemoveAt, Joined
  <2>8. /\ r \in Seq(AgentIds) /\ Len(r) = l + m
        /\ \A j \in 1 .. l : r[j] = a[j]
        /\ \A j \in 1 .. m : r[l + j] = b[j]
    <3>1. /\ l \in Nat /\ m \in Nat /\ a \in Seq(AgentIds) /\ b \in Seq(AgentIds)
          /\ l = Len(a) /\ m = Len(b) /\ r = Joined(a, b)
      BY <2>1, <2>2, <2>5, <2>6, <2>7
    <3>2. r \in Seq(AgentIds) /\ Len(r) = l + m
      BY <3>1 DEF Joined
    <3>3. \A j \in 1 .. l : r[j] = a[j]
      BY <3>1 DEF Joined
    <3>4. \A j \in 1 .. m : r[l + j] = b[j]
      BY <3>1 DEF Joined
    <3> QED
      BY <3>2, <3>3, <3>4
  <2>9. l + m = n - 1 /\ i = l + 1
    BY <1>3, <2>1, <2>2
  <2>10. ASSUME NEW j \in 1 .. n - 1
         PROVE  r[j] = IF j < i THEN q[j] ELSE q[j + 1]
    <3>1. CASE j < i
      <4>1. j \in 1 .. l
        BY <2>9, <3>1
      <4> QED
        BY <2>5, <2>8, <3>1, <4>1
    <3>2. CASE ~(j < i)
      <4>1. j - l \in 1 .. m /\ l + (j - l) = j /\ i + (j - l) = j + 1
        BY <1>3, <2>1, <2>2, <3>2
      <4>2. PICK h \in 1 .. m : h = j - l
        BY <4>1
      <4>3. l + h = j /\ i + h = j + 1
        BY <4>1, <4>2
      <4>4. r[j] = b[h] /\ b[h] = q[j + 1]
        BY <2>6, <2>8, <4>2, <4>3
      <4> QED
        BY <3>2, <4>4
    <3> QED
      BY <3>1, <3>2
  <2> QED
    BY <2>8, <2>9, <2>10
<1>5. \A j \in 1 .. n - 1 : \E h \in 1 .. n : /\ h # i /\ r[j] = q[h]
                                             /\ h = IF j < i THEN j ELSE j + 1
  <2> SUFFICES ASSUME NEW j \in 1 .. n - 1
               PROVE  \E h \in 1 .. n : /\ h # i /\ r[j] = q[h]
                                       /\ h = IF j < i THEN j ELSE j + 1
    OBVIOUS
  <2>1. PICK h : h = IF j < i THEN j ELSE j + 1
    OBVIOUS
  <2>2. h \in 1 .. n /\ h # i
    BY <1>3, <2>1
  <2> QED
    BY <1>4, <2>1, <2>2
<1>6. \A j \in 1 .. n - 1 : r[j] \in S \ {q[i]}
  BY <1>1, <1>2, <1>3, <1>5
<1>7. \A j, l \in 1 .. n - 1 : r[j] = r[l] => j = l
  <2> SUFFICES ASSUME NEW j \in 1 .. n - 1, NEW l \in 1 .. n - 1, r[j] = r[l]
               PROVE  j = l
    OBVIOUS
  <2>1. PICK h \in 1 .. n : r[j] = q[h] /\ h = IF j < i THEN j ELSE j + 1
    BY <1>5
  <2>2. PICK g \in 1 .. n : r[l] = q[g] /\ g = IF l < i THEN l ELSE l + 1
    BY <1>5
  <2>3. h = g
    BY <1>1, <1>2, <2>1, <2>2
  <2> QED
    BY <1>3, <2>1, <2>2, <2>3
<1>8. \A k \in S \ {q[i]} : \E j \in 1 .. n - 1 : r[j] = k
  <2> SUFFICES ASSUME NEW k \in S \ {q[i]} PROVE \E j \in 1 .. n - 1 : r[j] = k
    OBVIOUS
  <2>1. PICK h \in 1 .. n : q[h] = k
    BY <1>1, <1>2
  <2>2. PICK j : j = IF h < i THEN h ELSE h - 1
    OBVIOUS
  <2>3. j \in 1 .. n - 1 /\ h = IF j < i THEN j ELSE j + 1
    BY <1>3, <2>1, <2>2
  <2>4. r[j] = k
    BY <1>4, <2>1, <2>3
  <2> QED
    BY <2>3, <2>4
<1>9. S \ {q[i]} \subseteq AgentIds
  BY <1>1
<1> QED
  BY <1>4, <1>6, <1>7, <1>8, <1>9, ListIs

\* What Kept keeps of a list.
LEMMA ListKept ==
  ASSUME NEW q, NEW S, Lists(q, S), NEW Q
  PROVE  Lists(Kept(q, Q), S \intersect Q)
<1>1. /\ q \in Seq(AgentIds) /\ S \subseteq AgentIds
      /\ \A l, j \in 1 .. Len(q) : q[l] = q[j] => l = j
      /\ \A j \in 1 .. Len(q) : q[j] \in S
      /\ \A k \in S : \E j \in 1 .. Len(q) : q[j] = k
  BY ListIs
<1>2. PICK r : r = Kept(q, Q)
  OBVIOUS
<1>3. PICK h : r \in Seq(AgentIds) /\ Picks(h, r, q, Len(q), Q)
  BY <1>1, <1>2, KeptPicks
<1>4. PICK n \in Nat : n = Len(q)
  BY <1>1
<1>5. PICK m \in Nat : m = Len(r)
  BY <1>3
<1>6. /\ h \in [1 .. m -> 1 .. n]
      /\ \A i \in 1 .. m : r[i] = q[h[i]] /\ q[h[i]] \in Q
      /\ \A i, j \in 1 .. m : i < j => h[i] < h[j]
      /\ \A k \in 1 .. n : q[k] \in Q => \E i \in 1 .. m : h[i] = k
  BY <1>3, <1>4, <1>5 DEF Picks
<1>7. \A i, j \in 1 .. m : r[i] = r[j] => i = j
  <2> SUFFICES ASSUME NEW i \in 1 .. m, NEW j \in 1 .. m, r[i] = r[j] PROVE i = j
    OBVIOUS
  <2>1. h[i] \in 1 .. n /\ h[j] \in 1 .. n /\ q[h[i]] = q[h[j]]
    BY <1>6
  <2>2. h[i] = h[j]
    BY <1>1, <1>4, <2>1
  <2>3. ~(h[i] < h[j]) /\ ~(h[j] < h[i])
    BY <2>1, <2>2
  <2> QED
    BY <1>6, <2>3
<1>8. \A i \in 1 .. m : r[i] \in S \intersect Q
  BY <1>1, <1>4, <1>6
<1>9. \A k \in S \intersect Q : \E i \in 1 .. m : r[i] = k
  <2> SUFFICES ASSUME NEW k \in S \intersect Q PROVE \E i \in 1 .. m : r[i] = k
    OBVIOUS
  <2>1. PICK l \in 1 .. n : q[l] = k
    BY <1>1, <1>4
  <2> QED
    BY <1>6, <2>1
<1>10. S \intersect Q \subseteq AgentIds
  BY <1>1
<1> QED
  BY <1>2, <1>3, <1>5, <1>7, <1>8, <1>9, <1>10, ListIs

\* A list is empty when what it lists is; its members are those it contains.
LEMMA ListFacts ==
  ASSUME NEW q, NEW S, Lists(q, S)
  PROVE  /\ q \in Seq(AgentIds) /\ S \subseteq AgentIds /\ Len(q) \in Nat
         /\ ToSet(q) = S /\ IsInjective(q) /\ DOMAIN q = 1 .. Len(q)
         /\ (q = <<>> <=> S = {}) /\ (Len(q) = 0 <=> S = {})
         /\ \A k : Contains(q, k) <=> k \in S
<1>1. /\ q \in Seq(AgentIds) /\ S \subseteq AgentIds
      /\ \A l, j \in 1 .. Len(q) : q[l] = q[j] => l = j
      /\ \A j \in 1 .. Len(q) : q[j] \in S
      /\ \A k \in S : \E j \in 1 .. Len(q) : q[j] = k
  BY ListIs
<1>2. DOMAIN q = 1 .. Len(q) /\ Len(q) \in Nat
  BY <1>1
<1>3. Len(q) = 0 <=> S = {}
  <2>1. Len(q) = 0 => S = {}
    BY <1>1
  <2>2. Len(q) # 0 => 1 \in 1 .. Len(q)
    BY <1>2
  <2> QED
    BY <1>1, <2>1, <2>2
<1>4. q = <<>> <=> Len(q) = 0
  BY <1>1
<1>5. \A k : Contains(q, k) <=> k \in S
  BY <1>1 DEF Contains
<1> QED
  BY <1>1, <1>2, <1>3, <1>4, <1>5 DEF Lists

-----------------------------------------------------------------------------
(* The slices of the agent: with nothing but a timeout and the retries, a  *)
(* verb does one of a few things to the call of its key.                   *)

\* A slice over the keys K.
AgentSlices(K) ==
  [circuit : Circuits, bucket : [tokens : Int, at : Int],
   retry : [K -> Nat], fresh : [K -> Int], calls : [K -> Calls]]

\* The verb leaves the call of k in this phase, with this count, and no other.
Puts(K, s, s2, k, phase, n) ==
  /\ s2 \in AgentSlices(K)
  /\ s2.calls[k].phase = phase /\ s2.retry[k] = n
  /\ \A j \in K \ {k} : /\ s2.calls[j].phase = s.calls[j].phase
                        /\ s2.retry[j] = s.retry[j]

\* A call written over another.
LEMMA CallPut ==
  ASSUME NEW K, NEW s \in AgentSlices(K), NEW k \in K, NEW call \in Calls,
         NEW s2, s2 = SetCall(s, k, call)
  PROVE  /\ Puts(K, s, s2, k, call.phase, s.retry[k])
         /\ s2.calls[k] = call
<1>1. s2 \in AgentSlices(K) /\ s2.retry = s.retry /\ s2.calls = [s.calls EXCEPT ![k] = call]
  BY DEF SetCall, AgentSlices
<1>2. s.calls \in [K -> Calls]
  BY DEF AgentSlices
<1> QED
  BY <1>1, <1>2 DEF Puts

\* The budgets an attempt may be given.
LEMMA AgentBudgets ==
  ASSUME NEW K, NEW s \in AgentSlices(K), NEW k \in K, NEW c, RetryOnly(c),
         NEW at \in Int
  PROVE  /\ Charge(c, s.calls[k], at) \in Budgets
         /\ FreshBudget(c, at) \in Budgets /\ FreshBudget(c, at).left = c.deadline
         /\ BudgetFor(c, s, k, at) \in Budgets
<1>1. s.calls[k] \in Calls
  BY DEF AgentSlices
<1>2. PICK b \in Calls : b = s.calls[k]
  BY <1>1
<1>3. b.left \in Int /\ b.since \in Int
  BY DEF Calls
<1>4. c.deadline \in Nat
  BY DEF RetryOnly, Bricks
<1>5. Charge(c, b, at) \in Budgets
  BY <1>3 DEF Charge, Budgets, MaxOf
<1>6. FreshBudget(c, at) \in Budgets /\ FreshBudget(c, at).left = c.deadline
  BY <1>4 DEF FreshBudget, Budgets
<1> QED
  BY <1>2, <1>5, <1>6 DEF BudgetFor

\* The gate of a slice that only has a timeout.
LEMMA AgentGate ==
  ASSUME NEW K, NEW s \in AgentSlices(K), NEW k \in K, NEW c, RetryOnly(c),
         NEW at \in Int, NEW d \in Int, NEW b \in Budgets,
         NEW r, r = Gate(c, s, k, at, b, d)
  PROVE  IF c.deadline > 0 /\ b.left <= 0
           THEN /\ r.run = {} /\ TimedOut(r.s, k)
                /\ Puts(K, s, r.s, k, "failed", s.retry[k])
           ELSE r.run = {k} /\ Puts(K, s, r.s, k, "running", s.retry[k])
<1>1. c.ttl = 0 /\ c.capacity = 0 /\ c.threshold = 0
  BY DEF RetryOnly
<1>2. /\ Failed("deadline_exceeded") \in Calls /\ Running(b) \in Calls
      /\ Failed("deadline_exceeded").phase = "failed" /\ Running(b).phase = "running"
      /\ Failed("deadline_exceeded").error = "deadline_exceeded"
  <2>1. "deadline_exceeded" \in CallErrors
    BY DEF CallErrors
  <2>2. Failed("deadline_exceeded").error = "deadline_exceeded"
    BY DEF Failed, NoCall
  <2>3. Running(b).phase = "running"
    BY DEF Running, NoCall
  <2> QED
    BY <2>1, <2>2, <2>3, CallTypes
<1>3. CASE c.deadline > 0 /\ b.left <= 0
  <2>1. r = Quiet(SetCall(s, k, Failed("deadline_exceeded")))
    BY <1>3 DEF Gate
  <2>2. r.run = {} /\ r.s = SetCall(s, k, Failed("deadline_exceeded"))
    BY <2>1 DEF Quiet
  <2>3. /\ Puts(K, s, r.s, k, "failed", s.retry[k])
        /\ r.s.calls[k] = Failed("deadline_exceeded")
    BY <1>2, <2>2, CallPut
  <2>4. TimedOut(r.s, k)
    BY <1>2, <2>3 DEF TimedOut
  <2> QED
    BY <1>3, <2>2, <2>3, <2>4
<1>4. CASE ~(c.deadline > 0 /\ b.left <= 0)
  <2>1. r = [s |-> SetCall(s, k, Running(b)), run |-> {k}]
    BY <1>1, <1>4 DEF Gate
  <2>2. r.run = {k} /\ r.s = SetCall(s, k, Running(b))
    BY <2>1
  <2>3. Puts(K, s, r.s, k, "running", s.retry[k])
    BY <1>2, <2>2, CallPut
  <2> QED
    BY <1>4, <2>2, <2>3
<1> QED
  BY <1>3, <1>4

\* An attempt runs the call, unless it is live and its time is over.
LEMMA AgentAttempt ==
  ASSUME NEW K, NEW s \in AgentSlices(K), NEW k \in K, NEW c, RetryOnly(c),
         NEW at \in Int, NEW d \in Int, NEW r, r = Attempt(c, s, k, at, d)
  PROVE  \/ r.run = {k} /\ Puts(K, s, r.s, k, "running", s.retry[k])
         \/ /\ r.run = {} /\ TimedOut(r.s, k) /\ c.deadline > 0
            /\ s.calls[k].phase \in LivePhases
            /\ Puts(K, s, r.s, k, "failed", s.retry[k])
<1>1. PICK b \in Budgets : b = BudgetFor(c, s, k, at)
  BY AgentBudgets
<1>2. r = Gate(c, s, k, at, b, d)
  BY <1>1 DEF Attempt
<1>3. s.calls[k].phase \notin LivePhases => b.left = c.deadline
  BY <1>1, AgentBudgets DEF BudgetFor
<1>4. c.deadline \in Nat
  BY DEF RetryOnly, Bricks
<1>5. s.calls[k].phase \notin LivePhases => ~(c.deadline > 0 /\ b.left <= 0)
  BY <1>3, <1>4
<1>6. IF c.deadline > 0 /\ b.left <= 0
           THEN /\ r.run = {} /\ TimedOut(r.s, k)
                /\ Puts(K, s, r.s, k, "failed", s.retry[k])
           ELSE r.run = {k} /\ Puts(K, s, r.s, k, "running", s.retry[k])
  BY <1>2, AgentGate
<1> QED
  BY <1>5, <1>6

\* A ring tries a waiting call again, ends a live one, or is out of date.
LEMMA AgentRing ==
  ASSUME NEW K, NEW s \in AgentSlices(K), NEW k \in K, NEW c, RetryOnly(c),
         NEW t, t.key = k, t.at \in Int, NEW d \in Int, NEW r, r = OnTimer(c, s, t, d)
  PROVE  \/ /\ r.run = {k} /\ s.calls[k].phase = "waiting_retry"
            /\ Puts(K, s, r.s, k, "running", s.retry[k])
         \/ /\ r.run = {} /\ TimedOut(r.s, k) /\ s.calls[k].phase \in LivePhases
            /\ t.kind = "deadline" \/ c.deadline > 0
            /\ Puts(K, s, r.s, k, "failed", s.retry[k])
         \/ r.run = {} /\ r.s = s
<1>1. CASE t.kind = "retry" /\ s.calls[k].phase = "waiting_retry"
  <2>1. PICK b \in Budgets : b = Charge(c, s.calls[k], t.at)
    BY AgentBudgets
  <2>4. PICK at \in Int : at = t.at
    OBVIOUS
  <2>2. r = Gate(c, s, k, at, b, d)
    BY <1>1, <2>1, <2>4 DEF OnTimer
  <2>3. IF c.deadline > 0 /\ b.left <= 0
           THEN /\ r.run = {} /\ TimedOut(r.s, k)
                /\ Puts(K, s, r.s, k, "failed", s.retry[k])
           ELSE r.run = {k} /\ Puts(K, s, r.s, k, "running", s.retry[k])
    BY <2>2, AgentGate
  <2> QED
    BY <1>1, <2>3 DEF LivePhases
<1>2. CASE t.kind = "deadline" /\ s.calls[k].phase \in LivePhases
  <2>1. r = Quiet(SetCall(s, k, Failed("deadline_exceeded")))
    BY <1>2 DEF OnTimer
  <2>2. r.run = {} /\ r.s = SetCall(s, k, Failed("deadline_exceeded"))
    BY <2>1 DEF Quiet
  <2>3. "deadline_exceeded" \in CallErrors
    BY DEF CallErrors
  <2>4. /\ Failed("deadline_exceeded") \in Calls
        /\ Failed("deadline_exceeded").phase = "failed"
        /\ Failed("deadline_exceeded").error = "deadline_exceeded"
    BY <2>3, CallTypes DEF Failed, NoCall
  <2>5. /\ Puts(K, s, r.s, k, "failed", s.retry[k])
        /\ r.s.calls[k] = Failed("deadline_exceeded")
    BY <2>2, <2>4, CallPut
  <2> QED
    BY <1>2, <2>2, <2>4, <2>5 DEF TimedOut
<1>3. CASE /\ ~(t.kind = "retry" /\ s.calls[k].phase = "waiting_retry")
           /\ ~(t.kind = "deadline" /\ s.calls[k].phase \in LivePhases)
  <2>1. r = Quiet(s)
    BY <1>3 DEF OnTimer
  <2> QED
    BY <2>1 DEF Quiet
<1> QED
  BY <1>1, <1>2, <1>3

\* A call that comes back.
LEMMA AgentSettleOk ==
  ASSUME NEW K, NEW s \in AgentSlices(K), NEW k \in K, NEW c, RetryOnly(c),
         NEW at \in Int, NEW s2, s2 = SettleOk(c, s, k, at)
  PROVE  Puts(K, s, s2, k, "succeeded", 0)
<1>1. c.ttl = 0 /\ c.threshold = 0
  BY DEF RetryOnly
<1>2. Succeeded \in Calls /\ Succeeded.phase = "succeeded"
  BY CallTypes DEF Succeeded, NoCall
<1>3. PICK s1 : s1 = SetCall(s, k, Succeeded)
  OBVIOUS
<1>4. Puts(K, s, s1, k, "succeeded", s.retry[k])
  BY <1>2, <1>3, CallPut
<1>5. s1 \in AgentSlices(K)
  BY <1>4 DEF Puts
<1>6. s2 = [s1 EXCEPT !.circuit = @, !.fresh[k] = @, !.retry[k] = 0]
  BY <1>1, <1>3 DEF SettleOk
<1>9. s1.circuit \in Circuits /\ s1.fresh \in [K -> Int] /\ s1.retry \in [K -> Nat]
  BY <1>5 DEF AgentSlices
<1>10. PICK f : f = [s1.fresh EXCEPT ![k] = s1.fresh[k]]
  OBVIOUS
<1>11. PICK n : n = [s1.retry EXCEPT ![k] = 0]
  OBVIOUS
<1>12. f \in [K -> Int] /\ n \in [K -> Nat]
  BY <1>9, <1>10, <1>11
<1>13. s2 = [s1 EXCEPT !.circuit = s1.circuit, !.fresh = f, !.retry = n]
  BY <1>5, <1>6, <1>10, <1>11 DEF AgentSlices
<1>7. /\ s2 \in AgentSlices(K) /\ s2.calls = s1.calls
      /\ s2.retry = [s1.retry EXCEPT ![k] = 0]
  BY <1>5, <1>9, <1>11, <1>12, <1>13 DEF AgentSlices
<1>8. s1.retry \in [K -> Nat]
  BY <1>5 DEF AgentSlices
<1> QED
  BY <1>4, <1>7, <1>8 DEF Puts

\* A call that fails waits to try again while there are attempts left.
LEMMA AgentSettleErr ==
  ASSUME NEW K, NEW s \in AgentSlices(K), NEW k \in K, NEW c, RetryOnly(c),
         NEW at \in Int, NEW d \in Int, NEW s2, s2 = SettleErr(c, s, k, at, d)
  PROVE  \/ /\ s.calls[k].phase = "running" /\ s.retry[k] + 1 < c.attempts
            /\ Puts(K, s, s2, k, "waiting_retry", s.retry[k] + 1)
         \/ \E n \in Nat : Puts(K, s, s2, k, "failed", n)
<1>1. c.threshold = 0 /\ c.attempts \in Nat
  BY DEF RetryOnly, Bricks
<1>2. "err" \in CallErrors
  BY DEF CallErrors
<1>3. Failed("err") \in Calls /\ Failed("err").phase = "failed"
  BY <1>2, CallTypes
<1>4. PICK b \in Budgets : b = BudgetFor(c, s, k, at)
  BY AgentBudgets
<1>5. PICK j : j = [s EXCEPT !.circuit = @]
  OBVIOUS
<1>6. j = s
  BY <1>5 DEF AgentSlices
<1>7. s2 = IF s.calls[k].phase = "running"
             THEN Backoff(c, s, k, "err", at, b, d)
             ELSE SetCall(s, k, Failed("err"))
  BY <1>1, <1>4, <1>5, <1>6 DEF SettleErr
<1>8. PICK s1 : s1 = [s EXCEPT !.retry[k] = @ + 1]
  OBVIOUS
<1>9. /\ s1 \in AgentSlices(K) /\ s1.calls = s.calls
      /\ s1.retry = [s.retry EXCEPT ![k] = @ + 1]
  BY <1>8 DEF AgentSlices
<1>10. s.retry \in [K -> Nat]
  BY DEF AgentSlices
<1>11. /\ s1.retry[k] = s.retry[k] + 1 /\ s.retry[k] \in Nat
       /\ \A i \in K \ {k} : s1.retry[i] = s.retry[i]
  BY <1>9, <1>10
<1>12. CASE s.calls[k].phase # "running" \/ c.attempts = 0
  <2>1. s2 = SetCall(s, k, Failed("err"))
    BY <1>7, <1>12 DEF Backoff
  <2>2. Puts(K, s, s2, k, "failed", s.retry[k])
    BY <1>3, <2>1, CallPut
  <2> QED
    BY <1>11, <2>2
<1>13. CASE s.calls[k].phase = "running" /\ c.attempts # 0 /\ s1.retry[k] >= c.attempts
  <2>1. s2 = SetCall(s1, k, Failed("err"))
    BY <1>7, <1>8, <1>13 DEF Backoff
  <2>4. s1 \in AgentSlices(K)
    BY <1>9
  <2>2. Puts(K, s1, s2, k, "failed", s1.retry[k])
    BY <1>3, <2>1, <2>4, CallPut
  <2>3. Puts(K, s, s2, k, "failed", s1.retry[k])
    BY <1>9, <1>11, <2>2 DEF Puts
  <2> QED
    BY <1>11, <2>3
<1>14. CASE s.calls[k].phase = "running" /\ c.attempts # 0 /\ ~(s1.retry[k] >= c.attempts)
  <2>1. s2 = SetCall(s1, k, Waiting(b, at + d))
    BY <1>7, <1>8, <1>14 DEF Backoff
  <2>6. s1 \in AgentSlices(K)
    BY <1>9
  <2>2. Waiting(b, at + d) \in Calls
    BY CallTypes
  <2>3. Waiting(b, at + d).phase = "waiting_retry"
    BY DEF Waiting, Running, NoCall
  <2>4. Puts(K, s1, s2, k, "waiting_retry", s1.retry[k])
    BY <2>1, <2>2, <2>3, <2>6, CallPut
  <2>5. Puts(K, s, s2, k, "waiting_retry", s1.retry[k])
    BY <1>9, <1>11, <2>4 DEF Puts
  <2> QED
    BY <1>1, <1>11, <1>14, <2>5
<1> QED
  BY <1>12, <1>13, <1>14

\* A call that is forgotten.
LEMMA AgentForget ==
  ASSUME NEW K, NEW s \in AgentSlices(K), NEW k \in K, NEW s2, s2 = Forget(s, k)
  PROVE  Puts(K, s, s2, k, "none", 0)
<1>1. NoCall \in Calls /\ NoCall.phase = "none"
  BY CallTypes DEF NoCall
<1>2. /\ s2 \in AgentSlices(K) /\ s2.calls = [s.calls EXCEPT ![k] = NoCall]
      /\ s2.retry = [s.retry EXCEPT ![k] = 0]
  BY <1>1 DEF Forget, AgentSlices
<1>3. s.calls \in [K -> Calls] /\ s.retry \in [K -> Nat]
  BY DEF AgentSlices
<1> QED
  BY <1>1, <1>2, <1>3 DEF Puts

\* Putting twice.
LEMMA PutsAgain ==
  ASSUME NEW K, NEW s, NEW s1, NEW s2, NEW k, NEW p, NEW n, NEW q, NEW m,
         Puts(K, s, s1, k, p, n), Puts(K, s1, s2, k, q, m)
  PROVE  Puts(K, s, s2, k, q, m)
  BY DEF Puts

\* A resumed slice keeps its phases.
LEMMA AgentResume ==
  ASSUME NEW K, NEW s \in AgentSlices(K), NEW at \in Int, NEW s2, s2 = Resume(s, at)
  PROVE  /\ s2 \in AgentSlices(K)
         /\ \A k \in K : /\ s2.calls[k].phase = s.calls[k].phase
                         /\ s2.retry[k] = s.retry[k]
<1>1. s.calls \in [K -> Calls]
  BY DEF AgentSlices
<1>2. PICK f : f = [k \in DOMAIN s.calls |->
                      IF s.calls[k].phase \in LivePhases
                        THEN [s.calls[k] EXCEPT !.since = at]
                        ELSE s.calls[k]]
  OBVIOUS
<1>3. \A call \in Calls : /\ [call EXCEPT !.since = at] \in Calls
                          /\ [call EXCEPT !.since = at].phase = call.phase
  BY DEF Calls
<1>4. f \in [K -> Calls] /\ \A k \in K : f[k].phase = s.calls[k].phase
  BY <1>1, <1>2, <1>3
<1>5. s2 = [s EXCEPT !.calls = f]
  BY <1>2 DEF Resume
<1>6. s2 \in AgentSlices(K) /\ s2.calls = f /\ s2.retry = s.retry
  BY <1>4, <1>5 DEF AgentSlices
<1> QED
  BY <1>4, <1>6

\* A new slice.
LEMMA AgentInitSlice ==
  ASSUME NEW K, NEW c, RetryOnly(c), NEW s, s = InitSlice(c, K)
  PROVE  /\ s \in AgentSlices(K)
         /\ \A k \in K : s.calls[k].phase = "none" /\ s.retry[k] = 0
<1>1. NoCall \in Calls /\ NoCall.phase = "none"
  BY CallTypes DEF NoCall
<1>2. c.capacity = 0
  BY DEF RetryOnly
<1>3. s = [circuit |-> Circuit("closed", 0), bucket |-> [tokens |-> MaxOf(1, 0), at |-> 0],
           retry |-> [k \in K |-> 0], fresh |-> [k \in K |-> 0],
           calls |-> [k \in K |-> NoCall]]
  BY <1>2 DEF InitSlice
<1>4. Circuit("closed", 0) \in Circuits /\ MaxOf(1, 0) \in Int
  BY DEF Circuit, Circuits, MaxOf
<1>5. s \in AgentSlices(K)
  BY <1>1, <1>3, <1>4 DEF AgentSlices
<1> QED
  BY <1>1, <1>3, <1>5

-----------------------------------------------------------------------------
(* The fan-out of the agent: what runs and what waits are two lists, apart.*)

\* The last of some places is one of them.
LEMMA LastOfPlaces ==
  ASSUME NEW n \in Nat, NEW T \in SUBSET (1 .. n), T # {}
  PROVE  Max(T) \in T
<1> DEFINE U == {k \in 0 .. n : n - k \in T}
<1>1. U \subseteq Nat /\ \A t \in T : n - t \in U
  <2>1. \A t \in T : t \in 1 .. n /\ n - t \in 0 .. n /\ n - (n - t) = t
    OBVIOUS
  <2> QED
    BY <2>1
<1>2. PICK x \in U : \A y \in U : x <= y
  BY <1>1, NatLeast
<1>3. n - x \in T /\ \A t \in T : n - x >= t
  <2>1. n - x \in T /\ x \in 0 .. n
    OBVIOUS
  <2>2. \A t \in T : x <= n - t /\ t \in 1 .. n
    BY <1>1, <1>2
  <2> QED
    BY <2>1, <2>2
<1>4. Max(T) = CHOOSE y \in T : \A t \in T : y >= t
  BY DEF Max
<1> QED
  BY <1>3, <1>4

\* The functions that fold G over places, the last one last.
PlaceFoldings(S, X, base, G) ==
  {f \in [SUBSET S -> X] :
     \A T \in SUBSET S :
       f[T] = IF T = {} THEN base ELSE G[<<Max(T), f[T \ {Max(T)}]>>]}

\* There is one.
LEMMA PlacesFold ==
  ASSUME NEW n \in Nat, NEW X, NEW base \in X, NEW G \in [(1 .. n) \X X -> X]
  PROVE  PlaceFoldings(1 .. n, X, base, G) # {}
<1> DEFINE S == 1 .. n
           pick == [T \in (SUBSET S) \ {{}} |-> Max(T)]
<1>1. IsFiniteSet(S)
  BY FS_Interval
<1>2. \A T \in SUBSET S : T # {} => Max(T) \in T
  BY LastOfPlaces
<1>3. \A T \in SUBSET S : T # {} => pick[T] = Max(T)
  OBVIOUS
<1>4. \A T \in SUBSET S : T # {} => pick[T] \in T
  BY <1>2, <1>3
<1>5. pick \in [(SUBSET S) \ {{}} -> S]
  BY <1>2
<1>6. G \in [S \X X -> X]
  OBVIOUS
<1> HIDE DEF pick, S
<1>7. Foldings(S, X, base, pick, G) # {}
  BY <1>1, <1>4, <1>5, <1>6, FoldExists
<1>8. PICK f \in [SUBSET S -> X] : \A T \in SUBSET S :
         f[T] = IF T = {} THEN base ELSE G[<<pick[T], f[T \ {pick[T]}]>>]
  BY <1>7 DEF Foldings
<1>9. \A T \in SUBSET S :
         f[T] = IF T = {} THEN base ELSE G[<<Max(T), f[T \ {Max(T)}]>>]
  BY <1>3, <1>8
<1> QED
  BY <1>9 DEF PlaceFoldings, S

\* A queue of items of these ids.
QueueOf(I) == Seq([id : I, status : ItemStatus])

\* An item that pends comes behind the others.
LEMMA EnqueueOne ==
  ASSUME NEW I, NEW q \in QueueOf(I), NEW k \in I
  PROVE  Enqueue(q, k) \in QueueOf(I) /\ Enqueue(q, k) # <<>>
<1>1. PICK item \in [id : I, status : ItemStatus] : item = Item(k, "pending")
  BY DEF Item, ItemStatus
<1>2. Append(q, item) \in QueueOf(I) /\ Len(Append(q, item)) = Len(q) + 1 /\ Len(q) \in Nat
  BY DEF QueueOf
<1>3. Append(q, item) # <<>>
  BY <1>2
<1> QED
  BY <1>1, <1>2, <1>3 DEF Enqueue

\* A queue made of ids, one after the other.
LEMMA EnqueueAll ==
  ASSUME NEW I, NEW q \in Seq(I), NEW r, r = FoldLeft(Enqueue, <<>>, q)
  PROVE  r \in QueueOf(I) /\ (q # <<>> => r # <<>>)
<1> DEFINE S == DOMAIN q
           X == QueueOf(I)
           base == <<>>
           next(i, x) == Enqueue(x, q[i])
           G == [p \in S \X X |-> next(p[1], p[2])]
           iter == CHOOSE iter : iter =
                     [T \in SUBSET S |-> IF T = {} THEN base
                        ELSE next(Max(T), iter[T \ {Max(T)}])]
<1>1. r = iter[S]
  BY DEF FoldLeft, MapThenFoldSet
<1>2. PICK n \in Nat : n = Len(q) /\ S = 1 .. n
  OBVIOUS
<1>3. base \in X
  BY DEF QueueOf
<1>4. \A i \in S, x \in X : next(i, x) \in X /\ next(i, x) # <<>>
  BY EnqueueOne
<1> HIDE DEF next, X
<1>5. \A i \in S, x \in X : G[<<i, x>>] = next(i, x)
  BY <1>4
<1>6. G \in [(1 .. n) \X X -> X]
  BY <1>2, <1>4
<1> HIDE DEF G, base
<1>7. PICK f \in [SUBSET S -> X] : \A T \in SUBSET S :
         f[T] = IF T = {} THEN base ELSE G[<<Max(T), f[T \ {Max(T)}]>>]
  <2>1. PlaceFoldings(1 .. n, X, base, G) # {}
    BY <1>3, <1>6, PlacesFold
  <2> QED
    BY <1>2, <2>1 DEF PlaceFoldings
<1>8. \A T \in SUBSET S : T # {} => Max(T) \in T
  BY <1>2, LastOfPlaces
<1> HIDE DEF S
<1>9. f = [T \in SUBSET S |-> IF T = {} THEN base ELSE next(Max(T), f[T \ {Max(T)}])]
  <2>1. \A T \in SUBSET S : T # {} => f[T] = next(Max(T), f[T \ {Max(T)}])
    BY <1>5, <1>7, <1>8
  <2> QED
    BY <1>7, <2>1
<1>10. iter = [T \in SUBSET S |-> IF T = {} THEN base
                 ELSE next(Max(T), iter[T \ {Max(T)}])]
  BY <1>9
<1> HIDE DEF iter
<1> DEFINE P == {T \in SUBSET S : iter[T] \in X /\ (T # {} => iter[T] # <<>>)}
<1>11. {} \in P
  BY <1>3, <1>10
<1>12. \A T \in SUBSET S : T # {} => \E x \in T : T \ {x} \in P => T \in P
  <2> SUFFICES ASSUME NEW T \in SUBSET S, T # {}
               PROVE  \E x \in T : T \ {x} \in P => T \in P
    OBVIOUS
  <2>1. PICK x \in T : x = Max(T)
    BY <1>8
  <2>2. iter[T] = next(x, iter[T \ {x}])
    BY <1>10, <2>1
  <2> QED
    BY <1>4, <2>2
<1> HIDE DEF P
<1>13. \A T \in SUBSET S : T \in P
  <2>1. IsFiniteSet(S)
    BY <1>2, FS_Interval
  <2> QED
    BY <1>11, <1>12, <2>1, SubsetInduction
<1>14. iter[S] \in X /\ (S # {} => iter[S] # <<>>)
  BY <1>13 DEF P
<1>15. q # <<>> => S # {}
  <2>1. q # <<>> => n # 0
    BY <1>2
  <2>2. n # 0 => 1 \in S
    BY <1>2
  <2> QED
    BY <2>1, <2>2
<1> QED
  BY <1>1, <1>14, <1>15 DEF X

\* A status written into a queue.
LEMMA StatusPut ==
  ASSUME NEW I, NEW q \in QueueOf(I), NEW at, NEW st \in ItemStatus,
         NEW r, r = [q EXCEPT ![at].status = st]
  PROVE  r \in QueueOf(I) /\ (q # <<>> => r # <<>>)
<1>6. q \in Seq([id : I, status : ItemStatus])
  BY DEF QueueOf
<1>7. Len(q) \in Nat /\ q \in [1 .. Len(q) -> [id : I, status : ItemStatus]]
  BY <1>6, LenProperties
<1>1. PICK n \in Nat : n = Len(q) /\ q \in [1 .. n -> [id : I, status : ItemStatus]]
  BY <1>7
<1>2. \A item \in [id : I, status : ItemStatus] :
        [item EXCEPT !.status = st] \in [id : I, status : ItemStatus]
  OBVIOUS
<1>3. r \in [1 .. n -> [id : I, status : ItemStatus]]
  BY <1>1, <1>2
<1>4. r \in QueueOf(I) /\ Len(r) = n
  BY <1>3 DEF QueueOf
<1>5. q # <<>> => n # 0
  BY <1>1, <1>6
<1> QED
  BY <1>4, <1>5

\* An item claimed, or none.
LEMMA ClaimOne ==
  ASSUME NEW I, NEW q \in QueueOf(I), NEW r, r = Claim(q)
  PROVE  r \in QueueOf(I) /\ (q # <<>> => r # <<>>)
<1>1. CASE Claimable(q) = 0
  BY <1>1 DEF Claim
<1>2. CASE Claimable(q) # 0
  <2>1. "running" \in ItemStatus
    BY DEF ItemStatus
  <2>2. r = [q EXCEPT ![Claimable(q)].status = "running"]
    BY <1>2 DEF Claim
  <2> QED
    BY <2>1, <2>2, StatusPut
<1> QED
  BY <1>1, <1>2

\* Many items claimed.
LEMMA ClaimAll ==
  ASSUME NEW I, NEW q \in QueueOf(I), NEW m \in Nat, NEW r, r = ClaimMany(q, m)
  PROVE  r \in QueueOf(I) /\ (q # <<>> => r # <<>>)
<1> DEFINE X == {z \in QueueOf(I) : q # <<>> => z # <<>>}
           next(i, x) == Claim(x)
           G == [p \in (1 .. m) \X X |-> next(p[1], p[2])]
<1>1. PICK u : u = [i \in 1 .. m |-> i]
  OBVIOUS
<1>2. PICK S : S = DOMAIN u
  OBVIOUS
<1>3. S = 1 .. m
  BY <1>1, <1>2
<1> DEFINE iter == CHOOSE iter : iter =
                     [T \in SUBSET S |-> IF T = {} THEN q
                        ELSE next(u[Max(T)], iter[T \ {Max(T)}])]
<1>4. r = iter[S]
  BY <1>1, <1>2 DEF ClaimMany, FoldLeft, MapThenFoldSet
<1>5. q \in X
  OBVIOUS
<1>6. \A i, x : x \in X => next(i, x) \in X
  BY ClaimOne
<1> HIDE DEF X
<1>7. \A i \in S, x \in X : G[<<i, x>>] = Claim(x)
  BY <1>3, <1>6
<1>8. G \in [(1 .. m) \X X -> X]
  BY <1>6
<1> HIDE DEF G
<1>9. PICK f \in [SUBSET S -> X] : \A T \in SUBSET S :
         f[T] = IF T = {} THEN q ELSE G[<<Max(T), f[T \ {Max(T)}]>>]
  <2>1. PlaceFoldings(1 .. m, X, q, G) # {}
    BY <1>5, <1>8, PlacesFold
  <2> QED
    BY <1>3, <2>1 DEF PlaceFoldings
<1>10. \A T \in SUBSET S : T # {} => Max(T) \in T
  BY <1>3, LastOfPlaces
<1>11. f = [T \in SUBSET S |-> IF T = {} THEN q ELSE next(u[Max(T)], f[T \ {Max(T)}])]
  <2>1. \A T \in SUBSET S : T # {} => f[T] = Claim(f[T \ {Max(T)}])
    BY <1>7, <1>9, <1>10
  <2> QED
    BY <1>9, <2>1
<1>12. iter = [T \in SUBSET S |-> IF T = {} THEN q
                 ELSE next(u[Max(T)], iter[T \ {Max(T)}])]
  BY <1>11
<1> HIDE DEF iter
<1> DEFINE P == {T \in SUBSET S : iter[T] \in X}
<1>13. {} \in P
  BY <1>5, <1>12
<1>14. \A T \in SUBSET S : T # {} => \E x \in T : T \ {x} \in P => T \in P
  <2> SUFFICES ASSUME NEW T \in SUBSET S, T # {}
               PROVE  \E x \in T : T \ {x} \in P => T \in P
    OBVIOUS
  <2>1. PICK x \in T : x = Max(T)
    BY <1>10
  <2>2. iter[T] = Claim(iter[T \ {x}])
    BY <1>12, <2>1
  <2> QED
    BY <1>6, <2>2
<1> HIDE DEF P
<1>15. \A T \in SUBSET S : T \in P
  <2>1. IsFiniteSet(S)
    BY <1>3, FS_Interval
  <2> QED
    BY <1>13, <1>14, <2>1, SubsetInduction
<1>16. iter[S] \in X
  BY <1>15 DEF P
<1> QED
  BY <1>4, <1>16 DEF X

\* The fan-out of the agent.
AgentFans ==
  [pending : Seq(AgentIds), running : Seq(AgentIds), done : Seq(AgentIds),
   failed : Seq(AgentIds), items : QueueOf(AgentIds), doneFrom : Nat,
   failedFrom : Nat, joined : BOOLEAN]

\* R runs and P waits, and nothing waits while nothing runs.
FanHolds(f, R, P) ==
  /\ f \in AgentFans
  /\ Lists(f.running, R) /\ Lists(f.pending, P) /\ R \intersect P = {}
  /\ R = {} => P = {}

\* R runs and P waits, and room may be left.
FanApart(f, R, P) ==
  f \in AgentFans /\ Lists(f.running, R) /\ Lists(f.pending, P) /\ R \intersect P = {}

\* Some of those that wait are taken, one at least if nothing runs.
LaunchesTo(f, R, P, g) ==
  \E N \in SUBSET P : /\ FanHolds(g, R \union N, P \ N)
                      /\ f.items # <<>> => g.items # <<>>
                      /\ R = {} /\ P # {} => N # {}

\* A launch takes some of those that wait, and one at least if nothing runs.
LEMMA AgentLaunches ==
  ASSUME NEW f, NEW R, NEW P, FanApart(f, R, P),
         NEW r, r = LaunchUpTo(f, AgentWindow)
  PROVE  LaunchesTo(f, R, P, r.s)
<1> USE DEF FanApart
<1> SUFFICES \E N \in SUBSET P :
               /\ FanHolds(r.s, R \union N, P \ N)
               /\ f.items # <<>> => r.s.items # <<>>
               /\ R = {} /\ P # {} => N # {}
  BY DEF LaunchesTo
<1>1. PICK p \in Seq(AgentIds) : p = f.pending /\ Lists(p, P)
  BY DEF AgentFans
<1>2. PICK q \in Seq(AgentIds) : q = f.running /\ Lists(q, R)
  BY DEF AgentFans
<1>3. PICK m \in Nat : m = Len(p)
  OBVIOUS
<1>4. PICK l \in Nat : l = Len(q)
  OBVIOUS
<1>5. AgentWindow \in Nat \ {0}
  BY AgentAssumption DEF AgentAssumption
<1>14. (IF AgentWindow - l < m THEN AgentWindow - l ELSE m) \in Int
  BY <1>5
<1>6. PICK n \in Int : n = IF AgentWindow - l < m THEN AgentWindow - l ELSE m
  BY <1>14
<1>7. r = Launch(f, n)
  BY <1>1, <1>2, <1>3, <1>4, <1>6 DEF LaunchUpTo
<1>8. R = {} <=> l = 0
  BY <1>2, <1>4, ListFacts
<1>9. P = {} <=> m = 0
  BY <1>1, <1>3, ListFacts
<1>10. CASE n <= 0
  <2>1. r.s = f
    BY <1>7, <1>10 DEF Launch
  <2>2. R = {} => P = {}
    BY <1>5, <1>6, <1>8, <1>9, <1>10
  <2>3. R \union {} = R /\ P \ {} = P
    OBVIOUS
  <2>4. FanHolds(r.s, R, P)
    BY <1>1, <1>2, <2>1, <2>2 DEF FanHolds
  <2> WITNESS {} \in SUBSET P
  <2> QED
    BY <2>1, <2>2, <2>3, <2>4
<1>11. CASE n > 0
  <2>1. n \in Nat /\ n <= m
    BY <1>5, <1>6, <1>11
  <2>2. PICK a : a = SubSeq(p, 1, n)
    OBVIOUS
  <2>3. PICK b : b = SubSeq(p, n + 1, m)
    OBVIOUS
  <2>4. PICK N \in SUBSET P : Lists(a, N) /\ Lists(b, P \ N) /\ N # {}
    <3>1. \E N \in SUBSET P : /\ Lists(a, N) /\ Lists(b, P \ N)
                              /\ n > 0 => N # {}
                              /\ n = Len(p) => N = P
      <4>1. /\ Lists(p, P) /\ n \in Nat /\ n <= Len(p)
            /\ a = SubSeq(p, 1, n) /\ b = SubSeq(p, n + 1, Len(p))
        BY <1>1, <1>3, <2>1, <2>2, <2>3
      <4> QED
        BY <4>1, ListSplits
    <3> QED
      BY <1>11, <3>1
  <2>5. PICK on : on = q \o a
    OBVIOUS
  <2>6. Lists(on, R \union N)
    <3>1. R \intersect N = {}
      OBVIOUS
    <3> QED
      BY <1>2, <2>4, <2>5, <3>1, ListsJoin
  <2>7. PICK items : items = ClaimMany(f.items, n)
    OBVIOUS
  <2>8. items \in QueueOf(AgentIds) /\ (f.items # <<>> => items # <<>>)
    <3>1. f.items \in QueueOf(AgentIds)
      BY DEF AgentFans
    <3> QED
      BY <2>1, <2>7, <3>1, ClaimAll
  <2>9. r.s = [f EXCEPT !.pending = b, !.running = on, !.items = items]
    BY <1>1, <1>2, <1>3, <1>7, <1>11, <2>2, <2>3, <2>5, <2>7 DEF Launch, AgentFans
  <2>10. on \in Seq(AgentIds) /\ b \in Seq(AgentIds)
    BY <2>4, <2>6, ListFacts
  <2>11. /\ r.s \in AgentFans /\ r.s.pending = b /\ r.s.running = on
         /\ r.s.items = items
    BY <2>8, <2>9, <2>10 DEF AgentFans
  <2>12. FanHolds(r.s, R \union N, P \ N)
    <3>1. (R \union N) \intersect (P \ N) = {} /\ R \union N # {}
      BY <2>4
    <3> QED
      BY <2>4, <2>6, <2>11, <3>1 DEF FanHolds
  <2> QED
    BY <2>4, <2>8, <2>11, <2>12
<1>12. n <= 0 \/ n > 0
  BY <1>6
<1> QED
  BY <1>10, <1>11, <1>12

\* A new fan-out.
LEMMA NewFan == FanHolds(InitFan, {}, {}) /\ InitFan.items = <<>>
<1>1. InitFan \in AgentFans
  BY DEF InitFan, AgentFans, QueueOf
<1>2. InitFan.running = <<>> /\ InitFan.pending = <<>> /\ InitFan.items = <<>>
  BY DEF InitFan
<1>3. Lists(<<>>, {})
  BY DEF Lists, IsInjective, ToSet
<1> QED
  BY <1>1, <1>2, <1>3 DEF FanHolds

\* Some of those of N are started.
StartsSome(g, N) == \E M \in SUBSET N : M # {} /\ FanHolds(g, M, N \ M) /\ g.items # <<>>

\* The calls of a turn scattered into a new fan-out.
LEMMA AgentScatters ==
  ASSUME NEW calls, NEW N, Lists(calls, N), N # {},
         NEW r, r = Scatter(InitFan, calls, AgentWindow)
  PROVE  StartsSome(r.s, N)
<1>1. calls \in Seq(AgentIds) /\ calls # <<>>
  BY ListFacts
<1>2. PICK x : x = FoldLeft(Enqueue, <<>>, calls)
  OBVIOUS
<1>3. x \in QueueOf(AgentIds) /\ x # <<>>
  BY <1>1, <1>2, EnqueueAll
<1>4. PICK f : f = [InitFan EXCEPT !.pending = calls, !.items = x, !.doneFrom = 0,
                                   !.failedFrom = 0, !.joined = FALSE]
  OBVIOUS
<1>5. <<>> \o calls = calls
  BY <1>1
<1>6. r = LaunchUpTo(f, AgentWindow)
  BY <1>2, <1>4, <1>5 DEF Scatter, InitFan
<1>7. f \in AgentFans /\ f.pending = calls /\ f.running = <<>> /\ f.items = x
  <2>1. InitFan \in AgentFans
    BY NewFan DEF FanHolds
  <2>2. InitFan.running = <<>>
    BY DEF InitFan
  <2> QED
    BY <1>1, <1>3, <1>4, <2>1, <2>2 DEF AgentFans
<1>8. Lists(f.running, {}) /\ Lists(f.pending, N)
  BY <1>7 DEF Lists, IsInjective, ToSet
<1>9. PICK M \in SUBSET N : /\ FanHolds(r.s, {} \union M, N \ M)
                            /\ f.items # <<>> => r.s.items # <<>>
                            /\ N # {} => M # {}
  <2>1. PICK none : none = {}
    OBVIOUS
  <2>2. FanApart(f, none, N)
    BY <1>6, <1>7, <1>8, <2>1 DEF FanApart
  <2>3. \E M \in SUBSET N : /\ FanHolds(r.s, none \union M, N \ M)
                            /\ f.items # <<>> => r.s.items # <<>>
                            /\ none = {} /\ N # {} => M # {}
    <3>1. LaunchesTo(f, none, N, r.s)
      BY <1>6, <2>2, AgentLaunches
    <3> QED
      BY <3>1 DEF LaunchesTo
  <2> QED
    BY <2>1, <2>3
<1>10. {} \union M = M
  OBVIOUS
<1> QED
  BY <1>3, <1>7, <1>9, <1>10 DEF StartsSome

\* A call that has settled leaves its place, and what waited may follow.
LEMMA AgentSettles ==
  ASSUME NEW f, NEW R, NEW P, FanHolds(f, R, P), NEW k \in R,
         NEW st \in {"done", "failed"},
         NEW r, r = SettleItem(f, k, st, AgentWindow, FALSE)
  PROVE  \E N \in SUBSET P :
           /\ FanHolds(r.s, (R \ {k}) \union N, P \ N)
           /\ f.items # <<>> => r.s.items # <<>>
<1>1. f \in AgentFans /\ Lists(f.running, R) /\ Lists(f.pending, P) /\ R \intersect P = {}
  BY DEF FanHolds
<1>2. PICK q \in Seq(AgentIds) : q = f.running /\ Lists(q, R)
  BY <1>1 DEF AgentFans
<1>3. PICK at : at = SelectInSeq(q, LAMBDA x : x = k)
  OBVIOUS
<1>4. at \in DOMAIN q /\ q[at] = k
  <2> DEFINE I == {i \in 1 .. Len(q) : q[i] = k}
  <2>1. PICK h \in DOMAIN q : q[h] = k
    BY <1>2, ListFacts DEF ToSet
  <2>2. I # {} /\ I \subseteq Nat /\ DOMAIN q = 1 .. Len(q) /\ Len(q) \in Nat
    BY <2>1
  <2>3. PICK m \in I : \A i \in I : m <= i
    BY <2>2, NatLeast
  <2>4. at = Min(I)
    BY <1>3, <2>2 DEF SelectInSeq
  <2>5. Min(I) \in I
    BY <2>3 DEF Min
  <2> QED
    BY <2>2, <2>4, <2>5
<1>5. PICK gone : gone = RemoveAt(q, at)
  OBVIOUS
<1>6. Lists(gone, R \ {k})
  BY <1>2, <1>4, <1>5, ListLoses
<1>7. k \in AgentIds
  BY <1>2, ListFacts
<1>8. PICK dn : dn = IF st = "done" THEN Append(f.done, k) ELSE f.done
  OBVIOUS
<1>9. PICK fl : fl = IF st = "failed" THEN Append(f.failed, k) ELSE f.failed
  OBVIOUS
<1>10. PICK x : x = SettleLedger(f.items, k, st)
  OBVIOUS
<1>11. x \in QueueOf(AgentIds) /\ (f.items # <<>> => x # <<>>)
  <2>1. f.items \in QueueOf(AgentIds) /\ st \in ItemStatus
    BY <1>1 DEF AgentFans, ItemStatus
  <2>2. PICK i : i = SelectInSeq(f.items, LAMBDA y : y.id = k /\ y.status = "running")
    OBVIOUS
  <2>3. x = IF i = 0 THEN f.items ELSE [f.items EXCEPT ![i].status = st]
    BY <1>10, <2>2 DEF SettleLedger
  <2> QED
    <3>1. CASE i = 0
      BY <2>1, <2>3, <3>1
    <3>2. CASE i # 0
      <4>1. x = [f.items EXCEPT ![i].status = st]
        BY <2>3, <3>2
      <4>2. PICK y : y = f.items
        OBVIOUS
      <4>3. y \in QueueOf(AgentIds) /\ x = [y EXCEPT ![i].status = st]
        BY <2>1, <4>1, <4>2
      <4>5. PICK how \in ItemStatus : how = st
        BY <2>1
      <4>6. x = [y EXCEPT ![i].status = how]
        BY <4>3, <4>5
      <4>4. x \in QueueOf(AgentIds) /\ (y # <<>> => x # <<>>)
        BY <4>3, <4>5, <4>6, StatusPut
      <4> QED
        BY <4>2, <4>4
    <3> QED
      BY <3>1, <3>2
<1>12. dn \in Seq(AgentIds) /\ fl \in Seq(AgentIds) /\ gone \in Seq(AgentIds)
  <2>1. f.done \in Seq(AgentIds) /\ f.failed \in Seq(AgentIds)
    BY <1>1 DEF AgentFans
  <2> QED
    BY <1>6, <1>7, <1>8, <1>9, <2>1, ListFacts
<1>13. PICK now : now = [f EXCEPT !.running = gone, !.done = dn, !.failed = fl,
                                  !.items = x]
  OBVIOUS
<1>14. /\ now \in AgentFans /\ now.running = gone /\ now.pending = f.pending
       /\ now.items = x
  BY <1>1, <1>11, <1>12, <1>13 DEF AgentFans
<1>15. at # 0
  BY <1>2, <1>4
<1>16. r = Finish(LaunchUpTo(now, AgentWindow), FALSE)
  BY <1>1, <1>2, <1>3, <1>5, <1>8, <1>9, <1>10, <1>13, <1>15
  DEF SettleItem, FinishOrLaunch, AgentFans
<1>17. r = LaunchUpTo(now, AgentWindow)
  BY <1>16 DEF Finish
<1>18. (R \ {k}) \intersect P = {}
  BY <1>1
<1>19. PICK N \in SUBSET P : /\ FanHolds(r.s, (R \ {k}) \union N, P \ N)
                             /\ now.items # <<>> => r.s.items # <<>>
  <2>1. PICK S : S = R \ {k}
    OBVIOUS
  <2>2. FanApart(now, S, P)
    BY <1>1, <1>6, <1>14, <1>18, <2>1 DEF FanApart
  <2>3. \E N \in SUBSET P : /\ FanHolds(r.s, S \union N, P \ N)
                            /\ now.items # <<>> => r.s.items # <<>>
                            /\ S = {} /\ P # {} => N # {}
    <3>1. LaunchesTo(now, S, P, r.s)
      BY <1>17, <2>2, AgentLaunches
    <3> QED
      BY <3>1 DEF LaunchesTo
  <2> QED
    BY <2>1, <2>3
<1> QED
  BY <1>11, <1>14, <1>19

-----------------------------------------------------------------------------
(* The verbs of the ladder, call by call.                                  *)

\* The slice of the ladder, and what a verb of it answers.
Ladders == AgentSlices(AgentIds)
LadderSteps == [s : Ladders, run : SUBSET AgentIds, settle : Seq(AgentIds)]

\* The calls of the tool with a policy.
Ruled == AgentIds \ AgentBare

\* A call is as it was.
SameCall(s, s2, k) ==
  s2.calls[k].phase = s.calls[k].phase /\ s2.retry[k] = s.retry[k]

\* A call is in this phase, with this count.
CallIs(s, k, phase, n) == s.calls[k].phase = phase /\ s.retry[k] = n

\* Those of N run now, and those alone.
LadderRan(s, r, N) ==
  /\ r \in LadderSteps /\ r.run = N /\ r.settle = <<>>
  /\ \A k \in N \ AgentBare : CallIs(r.s, k, "running", s.retry[k])
  /\ \A k \in AgentIds : k \notin N \/ k \in AgentBare => SameCall(s, r.s, k)

\* What the assumption says of the tool.
LEMMA LadderFacts ==
  RetryOnly(AgentTool) /\ AgentBare \subseteq AgentIds /\ AgentDelay \in Int
BY AgentAssumption DEF AgentAssumption

\* A call of a tool without a policy passes by.
LEMMA LadderPasses ==
  ASSUME NEW x \in LadderSteps, NEW k \in AgentIds, NEW r, r = Bare(x, k)
  PROVE  r \in LadderSteps /\ r.s = x.s /\ r.run = x.run \union {k} /\ r.settle = x.settle
BY DEF Bare, LadderSteps

\* A call launched.
LEMMA LadderIssues ==
  ASSUME NEW x \in LadderSteps, NEW k \in AgentIds, NEW at \in Int,
         NEW r, r = Issued(x, Attempt(AgentTool, x.s, k, at, AgentDelay))
  PROVE  /\ r \in LadderSteps /\ r.settle = x.settle
         /\ x.s.calls[k].phase \notin LivePhases =>
              /\ r.run = x.run \union {k}
              /\ Puts(AgentIds, x.s, r.s, k, "running", x.s.retry[k])
<1>1. x.s \in Ladders /\ x.run \in SUBSET AgentIds /\ x.settle \in Seq(AgentIds)
  BY DEF LadderSteps
<1>2. PICK a : a = Attempt(AgentTool, x.s, k, at, AgentDelay)
  OBVIOUS
<1>8. PICK s \in Ladders : s = x.s
  BY <1>1
<1>3. \/ a.run = {k} /\ Puts(AgentIds, s, a.s, k, "running", s.retry[k])
      \/ /\ a.run = {} /\ TimedOut(a.s, k) /\ AgentTool.deadline > 0
         /\ s.calls[k].phase \in LivePhases
         /\ Puts(AgentIds, s, a.s, k, "failed", s.retry[k])
  <2>1. /\ s \in AgentSlices(AgentIds) /\ RetryOnly(AgentTool) /\ AgentDelay \in Int
        /\ a = Attempt(AgentTool, s, k, at, AgentDelay)
    BY <1>2, <1>8, LadderFacts DEF Ladders
  <2> QED
    BY <2>1, AgentAttempt
<1>4. a.s \in Ladders /\ a.run \in SUBSET AgentIds
  BY <1>3 DEF Puts, Ladders
<1>5. r = LadderStep(a.s, x.run \union a.run, x.settle)
  BY <1>2 DEF Issued
<1>6. x.run \union a.run \in SUBSET AgentIds
  BY <1>1, <1>4
<1>7. r \in LadderSteps /\ r.s = a.s /\ r.run = x.run \union a.run /\ r.settle = x.settle
  BY <1>1, <1>4, <1>5, <1>6 DEF LadderStep, LadderSteps
<1> QED
  BY <1>3, <1>7, <1>8

\* Calls the fan-out has taken are launched together.
LEMMA LadderLaunches ==
  ASSUME NEW s \in Ladders, NEW q, NEW N, Lists(q, N), NEW at \in Int,
         \A k \in N \ AgentBare : s.calls[k].phase \notin LivePhases,
         NEW r, r = LadderLaunch(AgentTool, AgentBare, s, q, at, AgentDelay)
  PROVE  LadderRan(s, r, N)
<1> DEFINE S == DOMAIN q
           X == LadderSteps
           base == LadderStep(s, {}, <<>>)
           next(i, x) == IF q[i] \in AgentBare THEN Bare(x, q[i])
                         ELSE Issued(x, Attempt(AgentTool, x.s, q[i], at, AgentDelay))
           G == [p \in S \X X |-> next(p[1], p[2])]
           iter == CHOOSE iter : iter =
                     [T \in SUBSET S |-> IF T = {} THEN base
                        ELSE next(Max(T), iter[T \ {Max(T)}])]
<1>1. r = iter[S]
  BY DEF LadderLaunch, FoldLeft, MapThenFoldSet
<1>2. PICK n \in Nat : n = Len(q) /\ S = 1 .. n
  BY ListFacts
<1>3. base \in X /\ base.s = s /\ base.run = {} /\ base.settle = <<>>
  <2>1. {} \in SUBSET AgentIds /\ <<>> \in Seq(AgentIds)
    OBVIOUS
  <2> QED
    BY <2>1 DEF LadderStep, LadderSteps
<1>4. /\ \A i \in S : q[i] \in AgentIds
      /\ \A i, j \in S : q[i] = q[j] => i = j
      /\ N = {q[i] : i \in S} /\ N \subseteq AgentIds
  BY ListFacts DEF IsInjective, ToSet
<1>5. \A i \in S, x \in X : next(i, x) \in X
  BY <1>4, LadderPasses, LadderIssues
<1>6. \A i \in S, x \in X :
        q[i] \in AgentBare =>
          /\ next(i, x).s = x.s /\ next(i, x).run = x.run \union {q[i]}
          /\ next(i, x).settle = x.settle
  BY <1>4, LadderPasses
<1>7. \A i \in S, x \in X :
        q[i] \notin AgentBare /\ x.s.calls[q[i]].phase \notin LivePhases =>
          /\ Puts(AgentIds, x.s, next(i, x).s, q[i], "running", x.s.retry[q[i]])
          /\ next(i, x).run = x.run \union {q[i]}
          /\ next(i, x).settle = x.settle
  BY <1>4, LadderIssues
<1> HIDE DEF next, X, base
<1>8. \A i \in S, x \in X : G[<<i, x>>] = next(i, x)
  BY <1>5
<1>9. G \in [(1 .. n) \X X -> X]
  BY <1>2, <1>5
<1> HIDE DEF G
<1>10. PICK f \in [SUBSET S -> X] : \A T \in SUBSET S :
         f[T] = IF T = {} THEN base ELSE G[<<Max(T), f[T \ {Max(T)}]>>]
  <2>1. PlaceFoldings(1 .. n, X, base, G) # {}
    BY <1>3, <1>9, PlacesFold
  <2> QED
    BY <1>2, <2>1 DEF PlaceFoldings
<1>11. \A T \in SUBSET S : T # {} => Max(T) \in T
  BY <1>2, LastOfPlaces
<1> HIDE DEF S
<1>12. f = [T \in SUBSET S |-> IF T = {} THEN base ELSE next(Max(T), f[T \ {Max(T)}])]
  <2>1. \A T \in SUBSET S : T # {} => f[T] = next(Max(T), f[T \ {Max(T)}])
    BY <1>8, <1>10, <1>11
  <2> QED
    BY <1>10, <2>1
<1>13. iter = [T \in SUBSET S |-> IF T = {} THEN base
                 ELSE next(Max(T), iter[T \ {Max(T)}])]
  BY <1>12
<1> HIDE DEF iter
<1> DEFINE Of(T) == {q[i] : i \in T}
           P == {T \in SUBSET S : iter[T] \in X /\ LadderRan(s, iter[T], Of(T))}
<1>14. {} \in P
  <2>1. iter[{}] = base /\ Of({}) = {}
    BY <1>13
  <2> QED
    BY <1>3, <2>1 DEF LadderRan, SameCall, X
<1>15. \A T \in SUBSET S : T # {} => \E x \in T : T \ {x} \in P => T \in P
  <2> SUFFICES ASSUME NEW T \in SUBSET S, T # {}
               PROVE  \E x \in T : T \ {x} \in P => T \in P
    OBVIOUS
  <2>1. PICK i \in T : i = Max(T)
    BY <1>11
  <2>2. PICK x : x = iter[T \ {i}]
    OBVIOUS
  <2>3. PICK y : y = iter[T]
    OBVIOUS
  <2>4. y = next(i, x)
    BY <1>13, <2>1, <2>2, <2>3
  <2>5. PICK k \in AgentIds : k = q[i]
    BY <1>4
  <2>6. PICK M : M = Of(T \ {i})
    OBVIOUS
  <2>7. Of(T) = M \union {k} /\ k \notin M
    BY <1>4, <2>5, <2>6
  <2>8. ASSUME T \ {i} \in P PROVE T \in P
    <3>1. x \in X /\ LadderRan(s, x, M)
      BY <2>2, <2>6, <2>8
    <3>2. y \in X
      BY <1>5, <2>4, <3>1
    <3>3. SameCall(s, x.s, k) /\ k \in N
      BY <1>4, <2>5, <2>7, <3>1 DEF LadderRan
    <3>4. LadderRan(s, y, M \union {k})
      <4>1. CASE k \in AgentBare
        <5>1. y.s = x.s /\ y.run = x.run \union {k} /\ y.settle = x.settle
          BY <1>6, <2>4, <2>5, <3>1, <4>1
        <5> QED
          BY <3>1, <3>2, <4>1, <5>1 DEF LadderRan, X
      <4>2. CASE k \notin AgentBare
        <5>1. x.s.calls[k].phase \notin LivePhases /\ x.s.retry[k] = s.retry[k]
          BY <3>3, <4>2 DEF SameCall
        <5>2. /\ Puts(AgentIds, x.s, y.s, k, "running", s.retry[k])
              /\ y.run = x.run \union {k} /\ y.settle = x.settle
          BY <1>7, <2>4, <2>5, <3>1, <4>2, <5>1
        <5>3. \A j \in AgentIds \ {k} : SameCall(x.s, y.s, j)
          BY <5>2 DEF Puts, SameCall
        <5>4. CallIs(y.s, k, "running", s.retry[k])
          BY <5>2 DEF Puts, CallIs
        <5>5. \A j \in (M \union {k}) \ AgentBare : CallIs(y.s, j, "running", s.retry[j])
          <6>1. M \subseteq AgentIds
            BY <1>4, <2>6
          <6> QED
            BY <2>7, <3>1, <5>3, <5>4, <6>1 DEF LadderRan, SameCall, CallIs
        <5>6. \A j \in AgentIds : j \notin M \union {k} \/ j \in AgentBare => SameCall(s, y.s, j)
          BY <3>1, <4>2, <5>3 DEF LadderRan, SameCall
        <5> QED
          BY <3>1, <3>2, <5>2, <5>5, <5>6 DEF LadderRan, X
      <4> QED
        BY <4>1, <4>2
    <3> QED
      BY <2>3, <2>7, <3>2, <3>4
  <2> QED
    BY <2>8
<1> HIDE DEF P
<1>16. \A T \in SUBSET S : T \in P
  <2>1. IsFiniteSet(S)
    BY <1>2, FS_Interval
  <2> QED
    BY <1>14, <1>15, <2>1, SubsetInduction
<1>17. LadderRan(s, iter[S], Of(S))
  BY <1>16 DEF P
<1> QED
  BY <1>1, <1>4, <1>17

\* What waking leaves of a call of N: it waits as it did, runs again, or is given up.
Rebooted(s, r, k) ==
  \/ /\ s.calls[k].phase = "waiting_retry" /\ SameCall(s, r.s, k)
     /\ k \notin r.run /\ k \notin ToSet(r.settle)
  \/ /\ s.calls[k].phase # "waiting_retry" /\ CallIs(r.s, k, "running", s.retry[k])
     /\ k \in r.run /\ k \notin ToSet(r.settle)
  \/ /\ s.calls[k].phase # "waiting_retry" /\ CallIs(r.s, k, "none", 0)
     /\ k \notin r.run /\ k \in ToSet(r.settle)

\* The calls of N, and those alone, are woken.
LadderWoke(s, r, N) ==
  /\ r \in LadderSteps /\ r.run \subseteq N /\ ToSet(r.settle) \subseteq N \ AgentBare
  /\ N \intersect AgentBare \subseteq r.run
  /\ \A k \in N \ AgentBare : Rebooted(s, r, k)
  /\ \A k \in AgentIds : k \notin N \/ k \in AgentBare => SameCall(s, r.s, k)

\* A sequence with one more element; the lemma says what a prover needs of it.
Added(q, k) == Append(q, k)

\* What is in it.
LEMMA OneMoreListed ==
  ASSUME NEW S, NEW q \in Seq(S), NEW k \in S, NEW r, r = Added(q, k)
  PROVE  r \in Seq(S) /\ \A j : j \in ToSet(r) <=> j \in ToSet(q) \/ j = k
<1>1. PICK n \in Nat : n = Len(q)
  OBVIOUS
<1>3. /\ r \in Seq(S) /\ DOMAIN r = 1 .. n + 1 /\ DOMAIN q = 1 .. n
      /\ \A i \in 1 .. n : r[i] = q[i]
      /\ r[n + 1] = k
  BY <1>1 DEF Added
<1>4. \A i \in 1 .. n + 1 : i \in 1 .. n \/ i = n + 1
  OBVIOUS
<1>5. \A i \in 1 .. n : i \in 1 .. n + 1
  OBVIOUS
<1>6. n + 1 \in 1 .. n + 1
  OBVIOUS
<1>7. \A j : j \in ToSet(r) <=> j \in ToSet(q) \/ j = k
  BY <1>3, <1>4, <1>5, <1>6 DEF ToSet
<1> QED
  BY <1>3, <1>7

\* A running call is sent again, or its time is over.
LEMMA LadderSends ==
  ASSUME NEW x \in LadderSteps, NEW k \in AgentIds, NEW at \in Int,
         NEW r, r = SendAgain(AgentTool, [x EXCEPT !.s = Resume(@, at)], k, at,
                              AgentDelay)
  PROVE  /\ r \in LadderSteps
         /\ \A j \in AgentIds \ {k} : SameCall(x.s, r.s, j)
         /\ \/ /\ x.s.calls[k].phase = "waiting_retry" /\ SameCall(x.s, r.s, k)
               /\ r.run = x.run /\ ToSet(r.settle) = ToSet(x.settle)
            \/ /\ x.s.calls[k].phase # "waiting_retry"
               /\ CallIs(r.s, k, "running", x.s.retry[k])
               /\ r.run = x.run \union {k} /\ ToSet(r.settle) = ToSet(x.settle)
            \/ /\ x.s.calls[k].phase # "waiting_retry" /\ CallIs(r.s, k, "none", 0)
               /\ r.run = x.run
               /\ \A j : j \in ToSet(r.settle) <=> j \in ToSet(x.settle) \/ j = k
<1>1. x.s \in Ladders /\ x.run \in SUBSET AgentIds /\ x.settle \in Seq(AgentIds)
  BY DEF LadderSteps
<1>2. PICK s : s = Resume(x.s, at)
  OBVIOUS
<1>3. s \in Ladders /\ \A j \in AgentIds : SameCall(x.s, s, j)
  BY <1>1, <1>2, AgentResume DEF Ladders, SameCall
<1>4. PICK y : y = [x EXCEPT !.s = s]
  OBVIOUS
<1>5. y \in LadderSteps /\ y.s = s /\ y.run = x.run /\ y.settle = x.settle
  BY <1>3, <1>4 DEF LadderSteps
<1>6. r = SendAgain(AgentTool, y, k, at, AgentDelay)
  BY <1>2, <1>4
<1>7. s.calls[k].phase = x.s.calls[k].phase /\ s.retry[k] = x.s.retry[k]
  BY <1>3 DEF SameCall
<1>8. CASE s.calls[k].phase = "waiting_retry"
  <2>1. r = y
    BY <1>5, <1>6, <1>8 DEF SendAgain
  <2> QED
    BY <1>3, <1>5, <1>7, <1>8, <2>1
<1>9. CASE s.calls[k].phase # "waiting_retry"
  <2>1. PICK a : a = Attempt(AgentTool, s, k, at, AgentDelay)
    OBVIOUS
  <2>2. \/ a.run = {k} /\ Puts(AgentIds, s, a.s, k, "running", s.retry[k])
        \/ /\ a.run = {} /\ TimedOut(a.s, k) /\ AgentTool.deadline > 0
           /\ s.calls[k].phase \in LivePhases
           /\ Puts(AgentIds, s, a.s, k, "failed", s.retry[k])
    <3>1. /\ s \in AgentSlices(AgentIds) /\ RetryOnly(AgentTool) /\ AgentDelay \in Int
          /\ a = Attempt(AgentTool, s, k, at, AgentDelay)
      BY <1>3, <2>1, LadderFacts DEF Ladders
    <3> QED
      BY <3>1, AgentAttempt
  <2>3. r = Sent(y, a, k)
    BY <1>5, <1>6, <1>9, <2>1 DEF SendAgain
  <2>4. CASE a.run = {k} /\ Puts(AgentIds, s, a.s, k, "running", s.retry[k])
    <3>1. ~TimedOut(a.s, k)
      BY <2>4 DEF TimedOut, Puts
    <3>2. r = LadderStep(a.s, x.run \union {k}, x.settle)
      BY <1>5, <2>3, <2>4, <3>1 DEF Sent, Issued
    <3>3. a.s \in Ladders /\ x.run \union {k} \in SUBSET AgentIds
      BY <1>1, <2>4 DEF Puts, Ladders
    <3>4. /\ r \in LadderSteps /\ r.s = a.s /\ r.run = x.run \union {k}
          /\ r.settle = x.settle
      <4>1. PICK w \in SUBSET AgentIds : w = x.run \union {k}
        BY <3>3
      <4>2. PICK z \in Seq(AgentIds) : z = x.settle
        BY <1>1
      <4>3. PICK b \in Ladders : b = a.s
        BY <3>3
      <4>4. r = LadderStep(b, w, z)
        BY <3>2, <4>1, <4>2, <4>3
      <4> QED
        BY <4>1, <4>2, <4>3, <4>4 DEF LadderStep, LadderSteps
    <3>5. CallIs(r.s, k, "running", x.s.retry[k])
      BY <1>7, <2>4, <3>4 DEF Puts, CallIs
    <3>6. \A j \in AgentIds \ {k} : SameCall(x.s, r.s, j)
      BY <1>3, <2>4, <3>4 DEF Puts, SameCall
    <3> QED
      BY <1>7, <1>9, <3>4, <3>5, <3>6
  <2>5. CASE a.run = {} /\ TimedOut(a.s, k) /\ Puts(AgentIds, s, a.s, k, "failed", s.retry[k])
    <3>1. PICK b : b = Forget(a.s, k)
      OBVIOUS
    <3>8. PICK c : c = a.s
      OBVIOUS
    <3>9. c \in AgentSlices(AgentIds) /\ b = Forget(c, k)
      BY <2>5, <3>1, <3>8 DEF Puts
    <3>2. Puts(AgentIds, c, b, k, "none", 0)
      BY <3>9, AgentForget
    <3>11. PICK z : z = Append(x.settle, k)
      OBVIOUS
    <3>12. PICK q \in Seq(AgentIds) : q = x.settle
      BY <1>1
    <3>4. z \in Seq(AgentIds) /\ \A j : j \in ToSet(z) <=> j \in ToSet(q) \/ j = k
      <4>1. z = Added(q, k)
        BY <3>11, <3>12 DEF Added
      <4> HIDE <3>11, <3>12
      <4> QED
        BY <4>1, OneMoreListed
    <3>13. b \in Ladders
      BY <3>2 DEF Puts, Ladders
    <3>3. r = LadderStep(b, x.run, z)
      BY <1>5, <2>3, <2>5, <3>1, <3>11 DEF Sent
    <3>5. r \in LadderSteps /\ r.s = b /\ r.run = x.run /\ r.settle = z
      BY <1>1, <3>3, <3>4, <3>13 DEF LadderStep, LadderSteps
    <3>6. CallIs(r.s, k, "none", 0)
      BY <3>2, <3>5 DEF Puts, CallIs
    <3>7. \A j \in AgentIds \ {k} : SameCall(x.s, r.s, j)
      BY <1>3, <2>5, <3>2, <3>5, <3>8 DEF Puts, SameCall
    <3>10. \A j : j \in ToSet(r.settle) <=> j \in ToSet(x.settle) \/ j = k
      BY <3>4, <3>5, <3>12
    <3> QED
      BY <1>7, <1>9, <3>5, <3>6, <3>7, <3>10
  <2> QED
    BY <2>2, <2>4, <2>5
<1> QED
  BY <1>8, <1>9

\* The running calls are woken one after the other.
LEMMA LadderBoots ==
  ASSUME NEW s \in Ladders, NEW q, NEW N, Lists(q, N), NEW at \in Int,
         NEW r, r = LadderBoot(AgentTool, AgentBare, s, q, at, AgentDelay)
  PROVE  LadderWoke(s, r, N)
<1> DEFINE S == DOMAIN q
           X == LadderSteps
           base == LadderStep(s, {}, <<>>)
           next(i, x) == IF q[i] \in AgentBare THEN Bare(x, q[i])
                         ELSE SendAgain(AgentTool, [x EXCEPT !.s = Resume(@, at)],
                                        q[i], at, AgentDelay)
           G == [p \in S \X X |-> next(p[1], p[2])]
           iter == CHOOSE iter : iter =
                     [T \in SUBSET S |-> IF T = {} THEN base
                        ELSE next(Max(T), iter[T \ {Max(T)}])]
<1>1. r = iter[S]
  BY DEF LadderBoot, FoldLeft, MapThenFoldSet
<1>2. PICK n \in Nat : n = Len(q) /\ S = 1 .. n
  BY ListFacts
<1>3. base \in X /\ base.s = s /\ base.run = {} /\ base.settle = <<>>
  <2>1. {} \in SUBSET AgentIds /\ <<>> \in Seq(AgentIds)
    OBVIOUS
  <2> QED
    BY <2>1 DEF LadderStep, LadderSteps
<1>4. /\ \A i \in S : q[i] \in AgentIds
      /\ \A i, j \in S : q[i] = q[j] => i = j
      /\ N = {q[i] : i \in S} /\ N \subseteq AgentIds
  BY ListFacts DEF IsInjective, ToSet
<1>5. \A i \in S, x \in X : next(i, x) \in X
  BY <1>4, LadderPasses, LadderSends
<1>6. \A i \in S, x \in X :
        q[i] \in AgentBare =>
          /\ next(i, x).s = x.s /\ next(i, x).run = x.run \union {q[i]}
          /\ next(i, x).settle = x.settle
  BY <1>4, LadderPasses
<1>7. ASSUME NEW i \in S, NEW x \in X, NEW k \in AgentIds, k = q[i], k \notin AgentBare,
             NEW y, y = next(i, x)
      PROVE  /\ \A j \in AgentIds \ {k} : SameCall(x.s, y.s, j)
             /\ \/ /\ x.s.calls[k].phase = "waiting_retry" /\ SameCall(x.s, y.s, k)
                   /\ y.run = x.run /\ ToSet(y.settle) = ToSet(x.settle)
                \/ /\ x.s.calls[k].phase # "waiting_retry"
                   /\ CallIs(y.s, k, "running", x.s.retry[k])
                   /\ y.run = x.run \union {k} /\ ToSet(y.settle) = ToSet(x.settle)
                \/ /\ x.s.calls[k].phase # "waiting_retry" /\ CallIs(y.s, k, "none", 0)
                   /\ y.run = x.run
                   /\ \A j : j \in ToSet(y.settle) <=> j \in ToSet(x.settle) \/ j = k
  <2>1. y = SendAgain(AgentTool, [x EXCEPT !.s = Resume(@, at)], k, at, AgentDelay)
    BY <1>7
  <2> HIDE DEF next
  <2> QED
    BY <2>1, LadderSends
<1> HIDE DEF next, X, base
<1>8. \A i \in S, x \in X : G[<<i, x>>] = next(i, x)
  BY <1>5
<1>9. G \in [(1 .. n) \X X -> X]
  BY <1>2, <1>5
<1> HIDE DEF G
<1>10. PICK f \in [SUBSET S -> X] : \A T \in SUBSET S :
         f[T] = IF T = {} THEN base ELSE G[<<Max(T), f[T \ {Max(T)}]>>]
  <2>1. PlaceFoldings(1 .. n, X, base, G) # {}
    BY <1>3, <1>9, PlacesFold
  <2> QED
    BY <1>2, <2>1 DEF PlaceFoldings
<1>11. \A T \in SUBSET S : T # {} => Max(T) \in T
  BY <1>2, LastOfPlaces
<1> HIDE DEF S
<1>12. f = [T \in SUBSET S |-> IF T = {} THEN base ELSE next(Max(T), f[T \ {Max(T)}])]
  <2>1. \A T \in SUBSET S : T # {} => f[T] = next(Max(T), f[T \ {Max(T)}])
    BY <1>8, <1>10, <1>11
  <2> QED
    BY <1>10, <2>1
<1>13. iter = [T \in SUBSET S |-> IF T = {} THEN base
                 ELSE next(Max(T), iter[T \ {Max(T)}])]
  BY <1>12
<1> HIDE DEF iter
<1> DEFINE Of(T) == {q[i] : i \in T}
           P == {T \in SUBSET S : iter[T] \in X /\ LadderWoke(s, iter[T], Of(T))}
<1>14. {} \in P
  <2>1. iter[{}] = base /\ Of({}) = {}
    BY <1>13
  <2>2. ToSet(<<>>) = {}
    BY DEF ToSet
  <2> QED
    BY <1>3, <2>1, <2>2 DEF LadderWoke, SameCall, X
<1>15. \A T \in SUBSET S : T # {} => \E x \in T : T \ {x} \in P => T \in P
  <2> SUFFICES ASSUME NEW T \in SUBSET S, T # {}
               PROVE  \E x \in T : T \ {x} \in P => T \in P
    OBVIOUS
  <2>1. PICK i \in T : i = Max(T)
    BY <1>11
  <2>2. PICK x : x = iter[T \ {i}]
    OBVIOUS
  <2>3. PICK y : y = iter[T]
    OBVIOUS
  <2>4. y = next(i, x)
    BY <1>13, <2>1, <2>2, <2>3
  <2>5. PICK k \in AgentIds : k = q[i]
    BY <1>4
  <2>6. PICK M : M = Of(T \ {i})
    OBVIOUS
  <2>7. Of(T) = M \union {k} /\ k \notin M /\ M \subseteq AgentIds
    BY <1>4, <2>5, <2>6
  <2>8. ASSUME T \ {i} \in P PROVE T \in P
    <3>1. x \in X /\ LadderWoke(s, x, M)
      BY <2>2, <2>6, <2>8
    <3>2. y \in X
      BY <1>5, <2>4, <3>1
    <3>3. SameCall(s, x.s, k) /\ k \notin x.run /\ k \notin ToSet(x.settle)
      BY <2>7, <3>1 DEF LadderWoke
    <3>4. LadderWoke(s, y, M \union {k})
      <4>1. CASE k \in AgentBare
        <5>1. y.s = x.s /\ y.run = x.run \union {k} /\ y.settle = x.settle
          BY <1>6, <2>4, <2>5, <3>1, <4>1
        <5>2. \A j \in M \ AgentBare : Rebooted(s, y, j)
          BY <3>1, <4>1, <5>1 DEF LadderWoke, Rebooted
        <5> QED
          BY <3>1, <3>2, <4>1, <5>1, <5>2 DEF LadderWoke, X
      <4>2. CASE k \notin AgentBare
        <5>1. /\ \A j \in AgentIds \ {k} : SameCall(x.s, y.s, j)
              /\ \/ /\ x.s.calls[k].phase = "waiting_retry" /\ SameCall(x.s, y.s, k)
                    /\ y.run = x.run /\ ToSet(y.settle) = ToSet(x.settle)
                 \/ /\ x.s.calls[k].phase # "waiting_retry"
                    /\ CallIs(y.s, k, "running", x.s.retry[k])
                    /\ y.run = x.run \union {k} /\ ToSet(y.settle) = ToSet(x.settle)
                 \/ /\ x.s.calls[k].phase # "waiting_retry" /\ CallIs(y.s, k, "none", 0)
                    /\ y.run = x.run
                    /\ \A j : j \in ToSet(y.settle) <=> j \in ToSet(x.settle) \/ j = k
          BY <1>7, <2>4, <2>5, <3>1, <4>2
        <5>2. \A j \in AgentIds : j # k => /\ j \in y.run <=> j \in x.run
                                           /\ j \in ToSet(y.settle) <=> j \in ToSet(x.settle)
          BY <5>1
        <5>3. Rebooted(s, y, k)
          BY <3>3, <5>1 DEF Rebooted, SameCall, CallIs
        <5>4. ASSUME NEW j \in M \ AgentBare PROVE Rebooted(s, y, j)
          <6>1. j \in AgentIds /\ j # k /\ Rebooted(s, x, j) /\ SameCall(x.s, y.s, j)
            BY <2>7, <3>1, <5>1 DEF LadderWoke
          <6> QED
            BY <5>2, <6>1 DEF Rebooted, SameCall, CallIs
        <5>5. \A j \in AgentIds : j \notin M \union {k} \/ j \in AgentBare => SameCall(s, y.s, j)
          BY <3>1, <4>2, <5>1 DEF LadderWoke, SameCall
        <5>6. /\ y.run \subseteq M \union {k} /\ (M \union {k}) \intersect AgentBare \subseteq y.run
          BY <3>1, <4>2, <5>1 DEF LadderWoke
        <5>7. ToSet(y.settle) \subseteq (M \union {k}) \ AgentBare
          BY <3>1, <4>2, <5>1 DEF LadderWoke
        <5>8. \A j \in (M \union {k}) \ AgentBare : Rebooted(s, y, j)
          BY <5>3, <5>4
        <5> QED
          BY <3>2, <5>5, <5>6, <5>7, <5>8 DEF LadderWoke, X
      <4> QED
        BY <4>1, <4>2
    <3> QED
      BY <2>3, <2>7, <3>2, <3>4
  <2> QED
    BY <2>8
<1> HIDE DEF P
<1>16. \A T \in SUBSET S : T \in P
  <2>1. IsFiniteSet(S)
    BY <1>2, FS_Interval
  <2> QED
    BY <1>14, <1>15, <2>1, SubsetInduction
<1>17. LadderWoke(s, iter[S], Of(S))
  BY <1>16 DEF P
<1> QED
  BY <1>1, <1>4, <1>17

\* A step of one call: the slice, what runs, and what is given up.
OneStep(r, s, run, D) ==
  /\ r \in LadderSteps /\ r.s = s /\ r.run = run
  /\ \A j : j \in ToSet(r.settle) <=> j \in D

\* What settles is nothing, or the call.
LEMMA OneStepIs ==
  ASSUME NEW s \in Ladders, NEW k \in AgentIds
  PROVE  /\ OneStep(LadderStep(s, {}, <<>>), s, {}, {})
         /\ OneStep(LadderStep(s, {}, <<k>>), s, {}, {k})
         /\ OneStep(LadderStep(s, {k}, <<>>), s, {k}, {})
<1>1. <<>> \in Seq(AgentIds) /\ <<k>> \in Seq(AgentIds)
  OBVIOUS
<1>2. /\ \A j : j \in ToSet(<<>>) <=> j \in {}
      /\ \A j : j \in ToSet(<<k>>) <=> j \in {k}
  BY DEF ToSet
<1>3. /\ LadderStep(s, {}, <<>>) \in LadderSteps /\ LadderStep(s, {}, <<k>>) \in LadderSteps
      /\ LadderStep(s, {k}, <<>>) \in LadderSteps
  BY <1>1 DEF LadderStep, LadderSteps
<1> QED
  BY <1>2, <1>3 DEF OneStep, LadderStep

\* A failure has the call wait for the next attempt, or given up.
LEMMA LadderErrs ==
  ASSUME NEW s \in Ladders, NEW k \in AgentIds, NEW at \in Int,
         NEW r, r = LadderErr(AgentTool, AgentBare, s, k, at, AgentDelay)
  PROVE  \E t \in Ladders :
           /\ \A j \in AgentIds \ {k} : SameCall(s, t, j)
           /\ \/ k \in AgentBare /\ t = s /\ OneStep(r, t, {}, {k})
              \/ /\ k \notin AgentBare /\ CallIs(t, k, "none", 0)
                 /\ OneStep(r, t, {}, {k})
              \/ /\ k \notin AgentBare /\ s.calls[k].phase = "running"
                 /\ s.retry[k] + 1 < AgentTool.attempts
                 /\ CallIs(t, k, "waiting_retry", s.retry[k] + 1)
                 /\ OneStep(r, t, {}, {})
<1>1. CASE k \in AgentBare
  <2>1. OneStep(r, s, {}, {k})
    BY <1>1, OneStepIs DEF LadderErr
  <2> QED
    BY <1>1, <2>1 DEF SameCall
<1>2. CASE k \notin AgentBare
  <2>1. PICK t : t = SettleErr(AgentTool, s, k, at, AgentDelay)
    OBVIOUS
  <2>2. r = Failure(t, k)
    BY <1>2, <2>1 DEF LadderErr
  <2>3. \/ /\ s.calls[k].phase = "running" /\ s.retry[k] + 1 < AgentTool.attempts
           /\ Puts(AgentIds, s, t, k, "waiting_retry", s.retry[k] + 1)
        \/ \E n \in Nat : Puts(AgentIds, s, t, k, "failed", n)
    <3>1. /\ s \in AgentSlices(AgentIds) /\ RetryOnly(AgentTool) /\ AgentDelay \in Int
      BY LadderFacts DEF Ladders
    <3> QED
      BY <2>1, <3>1, AgentSettleErr
  <2>4. CASE /\ s.calls[k].phase = "running" /\ s.retry[k] + 1 < AgentTool.attempts
             /\ Puts(AgentIds, s, t, k, "waiting_retry", s.retry[k] + 1)
    <3>1. t \in Ladders /\ t.calls[k].phase = "waiting_retry"
      BY <2>4 DEF Puts, Ladders
    <3>2. r = LadderStep(t, {}, <<>>)
      BY <2>2, <3>1 DEF Failure
    <3>3. OneStep(r, t, {}, {})
      BY <3>1, <3>2, OneStepIs
    <3>4. /\ \A j \in AgentIds \ {k} : SameCall(s, t, j)
          /\ CallIs(t, k, "waiting_retry", s.retry[k] + 1)
      BY <2>4 DEF Puts, SameCall, CallIs
    <3> QED
      BY <1>2, <2>4, <3>1, <3>3, <3>4
  <2>5. CASE \E n \in Nat : Puts(AgentIds, s, t, k, "failed", n)
    <3>1. PICK n \in Nat : Puts(AgentIds, s, t, k, "failed", n)
      BY <2>5
    <3>2. t \in AgentSlices(AgentIds) /\ t.calls[k].phase = "failed"
      BY <3>1 DEF Puts
    <3>3. PICK u : u = Forget(t, k)
      OBVIOUS
    <3>4. Puts(AgentIds, t, u, k, "none", 0)
      BY <3>2, <3>3, AgentForget
    <3>5. u \in Ladders /\ CallIs(u, k, "none", 0) /\ \A j \in AgentIds \ {k} : SameCall(s, u, j)
      BY <3>1, <3>4 DEF Puts, SameCall, CallIs, Ladders
    <3>6. r = LadderStep(u, {}, <<k>>)
      BY <2>2, <3>2, <3>3 DEF Failure
    <3>7. OneStep(r, u, {}, {k})
      BY <3>5, <3>6, OneStepIs
    <3> QED
      BY <1>2, <3>5, <3>7
  <2> QED
    BY <2>3, <2>4, <2>5
<1> QED
  BY <1>1, <1>2

\* A timer of the ladder runs a waiting call, gives a live one up, or does nothing.
LEMMA LadderRings ==
  ASSUME NEW s \in Ladders, NEW k \in AgentIds, NEW t, t.key = k, t.at \in Int,
         NEW r, r = LadderTimer(AgentTool, s, t, AgentDelay)
  PROVE  \E u \in Ladders :
           /\ \A j \in AgentIds \ {k} : SameCall(s, u, j)
           /\ \/ u = s /\ OneStep(r, u, {}, {})
              \/ /\ s.calls[k].phase = "waiting_retry"
                 /\ CallIs(u, k, "running", s.retry[k]) /\ OneStep(r, u, {k}, {})
              \/ /\ s.calls[k].phase \in LivePhases
                 /\ CallIs(u, k, "none", 0) /\ OneStep(r, u, {}, {k})
<1>1. CASE s.calls[k].phase \notin LivePhases
  <2>1. r = LadderStep(s, {}, <<>>)
    BY <1>1 DEF LadderTimer
  <2>2. OneStep(r, s, {}, {})
    BY <2>1, OneStepIs
  <2> QED
    BY <2>2 DEF SameCall
<1>2. CASE s.calls[k].phase \in LivePhases
  <2>1. PICK a : a = OnTimer(AgentTool, s, t, AgentDelay)
    OBVIOUS
  <2>2. PICK y : y = LadderStep(s, {}, <<>>)
    OBVIOUS
  <2>3. y \in LadderSteps /\ y.s = s /\ y.run = {} /\ y.settle = <<>>
    BY <2>2, OneStepIs DEF OneStep, LadderStep
  <2>4. r = Sent(y, a, k)
    BY <1>2, <2>1, <2>2 DEF LadderTimer
  <2>5. \/ /\ a.run = {k} /\ s.calls[k].phase = "waiting_retry"
           /\ Puts(AgentIds, s, a.s, k, "running", s.retry[k])
        \/ /\ a.run = {} /\ TimedOut(a.s, k) /\ s.calls[k].phase \in LivePhases
           /\ Puts(AgentIds, s, a.s, k, "failed", s.retry[k])
        \/ a.run = {} /\ a.s = s
    <3>1. /\ s \in AgentSlices(AgentIds) /\ RetryOnly(AgentTool) /\ AgentDelay \in Int
      BY LadderFacts DEF Ladders
    <3>2. \/ /\ a.run = {k} /\ s.calls[k].phase = "waiting_retry"
             /\ Puts(AgentIds, s, a.s, k, "running", s.retry[k])
          \/ /\ a.run = {} /\ TimedOut(a.s, k) /\ s.calls[k].phase \in LivePhases
             /\ t.kind = "deadline" \/ AgentTool.deadline > 0
             /\ Puts(AgentIds, s, a.s, k, "failed", s.retry[k])
          \/ a.run = {} /\ a.s = s
      BY <2>1, <3>1, AgentRing
    <3> QED
      BY <3>2
  <2>6. CASE /\ a.run = {k} /\ s.calls[k].phase = "waiting_retry"
             /\ Puts(AgentIds, s, a.s, k, "running", s.retry[k])
    <3>1. ~TimedOut(a.s, k) /\ {} \union {k} = {k}
      BY <2>6 DEF TimedOut, Puts
    <3>2. r = LadderStep(a.s, {k}, <<>>)
      BY <2>3, <2>4, <2>6, <3>1 DEF Sent, Issued
    <3>3. a.s \in Ladders /\ CallIs(a.s, k, "running", s.retry[k])
      BY <2>6 DEF Puts, CallIs, Ladders
    <3>4. \A j \in AgentIds \ {k} : SameCall(s, a.s, j)
      BY <2>6 DEF Puts, SameCall
    <3>5. OneStep(r, a.s, {k}, {})
      BY <3>2, <3>3, OneStepIs
    <3> QED
      BY <2>6, <3>3, <3>4, <3>5
  <2>7. CASE /\ a.run = {} /\ TimedOut(a.s, k) /\ s.calls[k].phase \in LivePhases
             /\ Puts(AgentIds, s, a.s, k, "failed", s.retry[k])
    <3>1. PICK b \in AgentSlices(AgentIds) : b = a.s
      BY <2>7 DEF Puts
    <3>2. PICK u : u = Forget(b, k)
      OBVIOUS
    <3>3. Puts(AgentIds, b, u, k, "none", 0)
      BY <3>2, AgentForget
    <3>4. u \in Ladders /\ CallIs(u, k, "none", 0) /\ \A j \in AgentIds \ {k} : SameCall(s, u, j)
      BY <2>7, <3>1, <3>3 DEF Puts, SameCall, CallIs, Ladders
    <3>5. Append(<<>>, k) = <<k>>
      OBVIOUS
    <3>6. r = LadderStep(u, {}, <<k>>)
      BY <2>3, <2>4, <2>7, <3>1, <3>2, <3>5 DEF Sent
    <3>7. OneStep(r, u, {}, {k})
      BY <3>4, <3>6, OneStepIs
    <3> QED
      BY <2>7, <3>4, <3>7
  <2>8. CASE a.run = {} /\ a.s = s /\ ~TimedOut(s, k)
    <3>1. r = LadderStep(s, {}, <<>>)
      BY <2>3, <2>4, <2>8 DEF Sent, Issued
    <3>2. OneStep(r, s, {}, {})
      BY <3>1, OneStepIs
    <3> QED
      BY <3>2 DEF SameCall
  <2>9. ~TimedOut(s, k)
    BY <1>2 DEF TimedOut, LivePhases
  <2> QED
    BY <2>5, <2>6, <2>7, <2>8, <2>9
<1> QED
  BY <1>1, <1>2

\* A tool that comes back is forgotten.
LEMMA LadderOks ==
  ASSUME NEW s \in Ladders, NEW k \in AgentIds, NEW at \in Int,
         NEW t, t = LadderOk(AgentTool, AgentBare, s, k, at)
  PROVE  /\ t \in Ladders /\ \A j \in AgentIds \ {k} : SameCall(s, t, j)
         /\ IF k \in AgentBare THEN t = s ELSE CallIs(t, k, "none", 0)
<1>1. CASE k \in AgentBare
  BY <1>1 DEF LadderOk, SameCall
<1>2. CASE k \notin AgentBare
  <2>1. PICK u : u = SettleOk(AgentTool, s, k, at)
    OBVIOUS
  <2>2. t = Forget(u, k)
    BY <1>2, <2>1 DEF LadderOk
  <2>3. Puts(AgentIds, s, u, k, "succeeded", 0)
    <3>1. s \in AgentSlices(AgentIds) /\ RetryOnly(AgentTool)
      BY LadderFacts DEF Ladders
    <3> QED
      BY <2>1, <3>1, AgentSettleOk
  <2>4. u \in AgentSlices(AgentIds)
    BY <2>3 DEF Puts
  <2>5. Puts(AgentIds, u, t, k, "none", 0)
    BY <2>2, <2>4, AgentForget
  <2> QED
    BY <1>2, <2>3, <2>5 DEF Puts, SameCall, CallIs, Ladders
<1> QED
  BY <1>1, <1>2

-----------------------------------------------------------------------------
(* The state of the agent, and what holds of it between two Msgs.          *)

\* A monitored run.
AgentRuns ==
  [phase : RunPhases, id : Nat, stages : QueueOf(Nat), startedAt : Int,
   progressAt : Int, seq : Nat]

\* What a tool answered, or that it failed.
AgentRecords == [call : AgentIds, ok : BOOLEAN, turn : Nat]

\* The conversation.
AgentConvs ==
  [turns : Seq(Seq(AgentIds)), records : Seq(AgentRecords), count : Nat,
   awaiting : {"none", "llm", "tools", "compacting"}, folding : Nat]

\* The slices of the agent.
AgentStates ==
  [run : AgentRuns, llm : AgentSlices({"brain"}), compaction : AgentSlices({"compact"}),
   ladder : Ladders, tools : AgentFans, conv : AgentConvs, refused : Seq(AgentIds),
   failure : {"none", "llm", "turn_limit", "elapsed_limit"}, output : BOOLEAN]

\* The calls of the batch that run, those that wait, and both.
RunsIn(s) == ToSet(s.tools.running)
WaitsIn(s) == ToSet(s.tools.pending)
OpenIn(s) == RunsIn(s) \union WaitsIn(s)

\* How often a handler of the call may start, and may have.
BudgetOf(k) ==
  IF k \in AgentBare \/ AgentTool.attempts = 0 THEN 1 ELSE AgentTool.attempts

\* The batch is under way exactly while the agent awaits its tools.
ToolsFit(s) ==
  /\ FanHolds(s.tools, RunsIn(s), WaitsIn(s))
  /\ s.conv.awaiting = "tools" => RunsIn(s) # {} /\ s.tools.items # <<>>
  /\ s.conv.awaiting # "tools" => RunsIn(s) = {}

\* The j-th record is the answer to k, no earlier than its turn, and the only one.
Answer(c, j, k, i) ==
  /\ j \in DOMAIN c.records /\ c.records[j].call = k /\ c.records[j].turn + 1 >= i
  /\ \A l \in DOMAIN c.records : c.records[l].call = k => l = j

\* Every call of a turn that is not open has one answer, every open call has none, and
\* all are of U, the calls the model has made.
ConvHolds(c, open, U) ==
  /\ open \subseteq U
  /\ \A i \in DOMAIN c.turns : ToSet(c.turns[i]) \subseteq U
  /\ \A j \in DOMAIN c.records : c.records[j].call \in U \ open
  /\ \A i \in DOMAIN c.turns : \A k \in ToSet(c.turns[i]) \ open :
       \E j \in DOMAIN c.records : Answer(c, j, k, i)
  /\ Len(c.turns) <= c.count + (IF c.awaiting = "tools" THEN 1 ELSE 0)
  /\ c.awaiting = "compacting" => c.folding \in 2 .. Len(c.turns)

\* A live run awaits something.
Shaped(s, U) ==
  /\ s \in AgentStates /\ ToolsFit(s) /\ ConvHolds(s.conv, OpenIn(s), U)
  /\ LiveRun(s.run) /\ ~IsSettled(s) => s.conv.awaiting # "none"

\* What an attempt of the call is charged to.
Charged(s, k, D) ==
  \/ s.ladder.calls[k].phase = "waiting_retry"
  \/ k \in RunsIn(s) /\ s.ladder.calls[k].phase = "running"
  \/ k \in RunsIn(s) \ D /\ k \in AgentBare /\ Awaits(s, "tools")

\* Somebody will answer for the call.
Handled(s, k, o, up) ==
  IF k \in AgentBare THEN up => o = 1
  ELSE /\ s.ladder.calls[k].phase \in LivePhases
       /\ up /\ s.ladder.calls[k].phase = "running" => o = 1

\* The books of call k: o handlers in flight, n started, x killed.  The calls of D are
\* given up, and about to settle.
Tally(s, k, o, n, x, U, up, D) ==
  /\ s.ladder.calls[k].phase \in {"none", "running", "waiting_retry"}
  /\ k \in AgentBare => s.ladder.calls[k].phase = "none"
  /\ o \in {0, 1} /\ n \in Nat /\ x \in Nat /\ n <= x + BudgetOf(k)
  /\ s.ladder.calls[k].phase = "waiting_retry" => o = 0
  /\ Charged(s, k, D) =>
       n <= x + s.ladder.retry[k] + o /\ s.ladder.retry[k] < BudgetOf(k)
  /\ k \notin U \/ k \in WaitsIn(s) =>
       n = 0 /\ o = 0 /\ x = 0 /\ CallIs(s.ladder, k, "none", 0)
  /\ Awaits(s, "tools") /\ k \in RunsIn(s) \ D => Handled(s, k, o, up)

\* The count of k, with the handlers of run started.
Plus(f, run, k) == f[k] + (IF k \in run THEN 1 ELSE 0)

\* The books of every call, with the handlers of run started.
Tallied(s, run, o, n, x, U, up, D) ==
  \A k \in AgentIds : Tally(s, k, Plus(o, run, k), Plus(n, run, k), x[k], U, up, D)

\* The counts of the books.
Books(o, n, x) ==
  o \in [AgentKeys -> Nat] /\ n \in [AgentIds -> Nat] /\ x \in [AgentIds -> Nat]

\* The state and its books, with the handlers of run started.
Sound(s, run, o, n, x, U, up, D) ==
  /\ Shaped(s, U) /\ run \subseteq AgentKeys /\ Books(o, n, x)
  /\ Tallied(s, run, o, n, x, U, up, D)
  /\ up => s.run.phase # "idle"

\* What the live run awaits of the brain or the compaction is on its way: a handler in
\* flight, one of run, or another attempt.
Driven(s, run, o) ==
  ~IsSettled(s) =>
    /\ s.conv.awaiting = "llm" =>
         "brain" \in run \/ o["brain"] > 0 \/ s.llm.calls["brain"].phase = "waiting_retry"
    /\ s.conv.awaiting = "compacting" =>
         \/ "compact" \in run \/ o["compact"] > 0
         \/ s.compaction.calls["compact"].phase = "waiting_retry"

\* The calls the model has made.
UsedIds == {AgentCalls[i] : i \in 1 .. agentUsed}

\* A timer that rings has a key to ring for.
RingFits(t) ==
  t.kind # "safety" => /\ t.key \in AgentKeys /\ t.at \in Int
                       /\ t.kind = "deadline" => t.key \in AgentIds

\* The inductive invariant.
AgentInv ==
  /\ Sound(agent, {}, agentOut, agentSent, agentKilled, UsedIds, agentHost = "up", {})
  /\ agentHost = "up" => Driven(agent, {}, agentOut)
  /\ agentUsed \in 0 .. Len(AgentCalls)
  /\ agentHost \in {"down", "woken", "up"} /\ agentNow \in 0 .. AgentHorizon
  /\ \A t \in agentRing : RingFits(t)
  /\ agentHost # "up" => (\A k \in AgentKeys : agentOut[k] = 0) /\ agentRing = {}

-----------------------------------------------------------------------------

\* What the assumption says, in parts.
LEMMA AgentFacts ==
  /\ "brain" \notin AgentIds /\ "compact" \notin AgentIds
  /\ "brain" \in AgentKeys /\ "compact" \in AgentKeys
  /\ AgentIds \subseteq AgentKeys
  /\ \A k \in AgentKeys : k \notin AgentIds => k = "brain" \/ k = "compact"
  /\ AgentBare \subseteq AgentIds
  /\ RetryOnly(AgentBrain) /\ AgentBrain.deadline = 0
  /\ RetryOnly(AgentCompact) /\ AgentCompact.deadline = 0
  /\ AgentDelay \in Int /\ AgentFolds \subseteq Nat /\ AgentStages \in Nat
  /\ \A k : BudgetOf(k) \in Nat \ {0}
<1>1. AgentTool.attempts \in Nat
  BY AgentAssumption DEF AgentAssumption, RetryOnly, Bricks
<1>2. \A k : BudgetOf(k) \in Nat \ {0}
  BY <1>1 DEF BudgetOf
<1>3. /\ "brain" \notin AgentIds /\ "compact" \notin AgentIds
      /\ AgentBare \subseteq AgentIds
      /\ RetryOnly(AgentBrain) /\ AgentBrain.deadline = 0
      /\ RetryOnly(AgentCompact) /\ AgentCompact.deadline = 0
      /\ AgentDelay \in Int /\ AgentFolds \subseteq Nat /\ AgentStages \in Nat
  BY AgentAssumption DEF AgentAssumption
<1> QED
  BY <1>2, <1>3 DEF AgentKeys

\* The books hold as before where the ladder does and nothing new runs.
LEMMA TalliesSame ==
  ASSUME NEW s, NEW run, NEW o, NEW n, NEW x, NEW U, NEW up, NEW D,
         Tallied(s, run, o, n, x, U, up, D),
         NEW s2, NEW run2, NEW U2, NEW up2,
         s2.ladder = s.ladder, RunsIn(s2) \subseteq RunsIn(s),
         WaitsIn(s2) \subseteq WaitsIn(s), U \subseteq U2,
         \A k \in AgentIds : k \in run2 <=> k \in run,
         Awaits(s2, "tools") => Awaits(s, "tools") /\ (up2 => up)
  PROVE  Tallied(s2, run2, o, n, x, U2, up2, D)
<1> SUFFICES ASSUME NEW k \in AgentIds
             PROVE  Tally(s2, k, Plus(o, run2, k), Plus(n, run2, k), x[k], U2, up2, D)
  BY DEF Tallied
<1>1. Plus(o, run2, k) = Plus(o, run, k) /\ Plus(n, run2, k) = Plus(n, run, k)
  BY DEF Plus
<1>2. PICK a : a = Plus(o, run, k)
  OBVIOUS
<1>3. PICK b : b = Plus(n, run, k)
  OBVIOUS
<1>4. Tally(s, k, a, b, x[k], U, up, D)
  BY <1>2, <1>3 DEF Tallied
<1>5. Charged(s2, k, D) => Charged(s, k, D)
  BY DEF Charged
<1>6. Awaits(s2, "tools") /\ k \in RunsIn(s2) \ D =>
        (Handled(s, k, a, up) => Handled(s2, k, a, up2))
  BY DEF Handled
<1>7. k \notin U2 \/ k \in WaitsIn(s2) => k \notin U \/ k \in WaitsIn(s)
  OBVIOUS
<1>8. Awaits(s2, "tools") /\ k \in RunsIn(s2) \ D =>
        Awaits(s, "tools") /\ k \in RunsIn(s) \ D
  OBVIOUS
<1>9. Tally(s2, k, a, b, x[k], U2, up2, D)
  BY <1>4, <1>5, <1>6, <1>7, <1>8, Zenon DEF Tally
<1> QED
  BY <1>1, <1>2, <1>3, <1>9

-----------------------------------------------------------------------------
(* The verbs of the monitored run.                                         *)

\* A run that makes progress is live if it was, and never idle if it was not.
LEMMA RunProgresses ==
  ASSUME NEW run \in AgentRuns, NEW at \in Int, NEW r, r = Progress(run, at) \/ r = BootRun(run, at)
  PROVE  /\ r \in AgentRuns /\ (LiveRun(r) <=> LiveRun(run))
         /\ IF LiveRun(run) THEN r.phase = "running" ELSE r = run
<1>1. run.seq + 1 \in Nat /\ "running" \in RunPhases
  BY DEF AgentRuns, RunPhases
<1>2. CASE LiveRun(run)
  <2>1. r = [run EXCEPT !.progressAt = at, !.seq = run.seq + 1, !.phase = "running"]
    BY <1>2 DEF Progress, BootRun, Bumped, AgentRuns
  <2> QED
    BY <1>1, <1>2, <2>1 DEF AgentRuns, LiveRun
<1>3. CASE ~LiveRun(run)
  BY <1>3 DEF Progress, BootRun
<1> QED
  BY <1>2, <1>3

\* A run cancelled is not under way any more.
LEMMA RunCancels ==
  ASSUME NEW run \in AgentRuns, NEW r, r = CancelRun(run)
  PROVE  r \in AgentRuns /\ ~LiveRun(r) /\ r.phase # "idle"
<1>1. "cancelled" \in RunPhases
  BY DEF RunPhases
<1>2. CASE run.phase \in {"idle", "running", "stale"}
  BY <1>1, <1>2 DEF CancelRun, AgentRuns, LiveRun
<1>3. CASE run.phase \notin {"idle", "running", "stale"}
  BY <1>3 DEF CancelRun, LiveRun
<1> QED
  BY <1>2, <1>3

\* An alarm fails the run, or does nothing.
LEMMA RunAlarms ==
  ASSUME NEW run \in AgentRuns, NEW id, NEW seq, NEW r, r = OnDeadline(run, id, seq)
  PROVE  r \in AgentRuns /\ (r = run \/ r.phase = "failed")
<1>1. "failed" \in RunPhases
  BY DEF RunPhases
<1> QED
  BY <1>1 DEF OnDeadline, AgentRuns

\* A run starts with its first stage claimed.
LEMMA RunStarts ==
  ASSUME NEW run \in AgentRuns, NEW at \in Int, NEW r, r = StartRun(run, AgentStages, at)
  PROVE  r \in AgentRuns /\ r.phase = "running"
<1>1. PICK q : q = [i \in 1 .. AgentStages |-> i]
  OBVIOUS
<1>2. q \in Seq(Nat)
  BY <1>1, AgentFacts
<1>3. PICK e : e = FoldLeft(Enqueue, <<>>, q)
  OBVIOUS
<1>4. e \in QueueOf(Nat)
  BY <1>2, <1>3, EnqueueAll
<1>5. SeedStages(AgentStages) = Claim(e)
  BY <1>1, <1>3 DEF SeedStages
<1>6. SeedStages(AgentStages) \in QueueOf(Nat)
  BY <1>4, <1>5, ClaimOne
<1>7. run.id + 1 \in Nat /\ "running" \in RunPhases
  BY DEF AgentRuns, RunPhases
<1> QED
  BY <1>6, <1>7 DEF StartRun, AgentRuns

\* A stage done, a run goes on with the next, or it is done.
LEMMA RunAdvances ==
  ASSUME NEW run \in AgentRuns, NEW at \in Int, NEW r, r = Advance(run, at)
  PROVE  r \in AgentRuns /\ (r.phase = "done" \/ r.phase = run.phase)
<1>1. PICK left : left = LET current == RunningItem(run.stages)
                         IN IF current = 0 THEN run.stages
                            ELSE MarkDone(run.stages, run.stages[current].id)
  OBVIOUS
<1>2. left \in QueueOf(Nat)
  <2>1. PICK q \in QueueOf(Nat) : q = run.stages
    BY DEF AgentRuns
  <2>2. \A Q : Kept(q, Q) \in QueueOf(Nat)
    BY KeptPicks DEF QueueOf
  <2> QED
    BY <1>1, <2>1, <2>2 DEF MarkDone
<1>3. PICK claimed : claimed = Claim(left)
  OBVIOUS
<1>4. claimed \in QueueOf(Nat)
  BY <1>2, <1>3, ClaimOne
<1>5. run.seq + 1 \in Nat /\ "done" \in RunPhases
  BY DEF AgentRuns, RunPhases
<1>6. \/ r = run
      \/ r = [run EXCEPT !.progressAt = at, !.seq = run.seq + 1, !.stages = left,
                         !.phase = "done"]
      \/ r = [run EXCEPT !.progressAt = at, !.seq = run.seq + 1, !.stages = claimed]
  BY <1>1, <1>3 DEF Advance, Bumped, AgentRuns
<1> QED
  BY <1>2, <1>4, <1>5, <1>6 DEF AgentRuns

-----------------------------------------------------------------------------
(* The verbs of the brain and of the compaction.                           *)

\* The brain is fired: its slice moves, and its handler starts.
LEMMA BrainFires ==
  ASSUME NEW s, s.llm \in AgentSlices({"brain"}), NEW at \in Int,
         NEW r, r = FireBrain(s, at)
  PROVE  \E l \in AgentSlices({"brain"}) : r = Verb([s EXCEPT !.llm = l], {"brain"})
<1>1. PICK K : K = {"brain"}
  OBVIOUS
<1>2. PICK l \in AgentSlices(K) : l = s.llm
  BY <1>1
<1>3. PICK a : a = Attempt(AgentBrain, l, "brain", at, AgentDelay)
  OBVIOUS
<1>4. "brain" \in K /\ RetryOnly(AgentBrain) /\ AgentDelay \in Int /\ ~(AgentBrain.deadline > 0)
  BY <1>1, AgentFacts
<1>5. \/ a.run = {"brain"} /\ Puts(K, l, a.s, "brain", "running", l.retry["brain"])
      \/ /\ a.run = {} /\ TimedOut(a.s, "brain") /\ AgentBrain.deadline > 0
         /\ l.calls["brain"].phase \in LivePhases
         /\ Puts(K, l, a.s, "brain", "failed", l.retry["brain"])
  BY <1>3, <1>4, AgentAttempt
<1>6. a.run = {"brain"} /\ a.s \in AgentSlices(K)
  BY <1>4, <1>5 DEF Puts
<1>7. r = Verb([s EXCEPT !.llm = a.s], a.run)
  BY <1>2, <1>3 DEF FireBrain, InBrain
<1> QED
  BY <1>1, <1>6, <1>7

\* The compaction is: whether first or again.
LEMMA CompactionFires ==
  ASSUME NEW c \in AgentSlices({"compact"}), NEW at \in Int,
         NEW a, a = Attempt(AgentCompact, c, "compact", at, AgentDelay)
  PROVE  a.s \in AgentSlices({"compact"}) /\ a.run = {"compact"}
<1>1. PICK K : K = {"compact"}
  OBVIOUS
<1>4. /\ "compact" \in K /\ RetryOnly(AgentCompact) /\ AgentDelay \in Int
      /\ ~(AgentCompact.deadline > 0) /\ c \in AgentSlices(K)
  BY <1>1, AgentFacts
<1>5. \/ a.run = {"compact"} /\ Puts(K, c, a.s, "compact", "running", c.retry["compact"])
      \/ /\ a.run = {} /\ TimedOut(a.s, "compact") /\ AgentCompact.deadline > 0
         /\ c.calls["compact"].phase \in LivePhases
         /\ Puts(K, c, a.s, "compact", "failed", c.retry["compact"])
  BY <1>4, AgentAttempt
<1> QED
  BY <1>1, <1>4, <1>5 DEF Puts

\* An answer settles the slice of the brain, and of the compaction.
LEMMA OwnSliceSettles ==
  ASSUME NEW k, NEW s \in AgentSlices({k}), NEW c, RetryOnly(c), NEW at \in Int
  PROVE  /\ SettleOk(c, s, k, at) \in AgentSlices({k})
         /\ SettleErr(c, s, k, at, AgentDelay) \in AgentSlices({k})
         /\ SettleErr(c, s, k, at, AgentDelay).calls[k].phase \in {"waiting_retry", "failed"}
<1>1. PICK K : K = {k}
  OBVIOUS
<1>2. k \in K /\ s \in AgentSlices(K) /\ AgentDelay \in Int
  BY <1>1, AgentFacts
<1>3. PICK t : t = SettleOk(c, s, k, at)
  OBVIOUS
<1>4. Puts(K, s, t, k, "succeeded", 0)
  BY <1>2, <1>3, AgentSettleOk
<1>5. PICK u : u = SettleErr(c, s, k, at, AgentDelay)
  OBVIOUS
<1>6. \/ /\ s.calls[k].phase = "running" /\ s.retry[k] + 1 < c.attempts
         /\ Puts(K, s, u, k, "waiting_retry", s.retry[k] + 1)
      \/ \E n \in Nat : Puts(K, s, u, k, "failed", n)
  BY <1>2, <1>5, AgentSettleErr
<1> QED
  BY <1>1, <1>3, <1>4, <1>5, <1>6 DEF Puts

\* A timer of such a slice runs its handler, or leaves the slice as it was.  There is
\* no deadline to ring for.
LEMMA OwnSliceRings ==
  ASSUME NEW k, NEW s \in AgentSlices({k}), NEW c, RetryOnly(c), c.deadline = 0,
         NEW t, t.key = k, t.at \in Int, t.kind # "deadline",
         NEW a, a = OnTimer(c, s, t, AgentDelay)
  PROVE  a.s \in AgentSlices({k}) /\ (a.run = {k} \/ (a.run = {} /\ a.s = s))
<1>1. PICK K : K = {k}
  OBVIOUS
<1>2. k \in K /\ s \in AgentSlices(K) /\ AgentDelay \in Int /\ ~(c.deadline > 0)
  BY <1>1, AgentFacts
<1>3. \/ a.run = {k} /\ s.calls[k].phase = "waiting_retry"
         /\ Puts(K, s, a.s, k, "running", s.retry[k])
      \/ /\ a.run = {} /\ TimedOut(a.s, k) /\ s.calls[k].phase \in LivePhases
         /\ t.kind = "deadline" \/ c.deadline > 0
         /\ Puts(K, s, a.s, k, "failed", s.retry[k])
      \/ a.run = {} /\ a.s = s
  BY <1>2, AgentRing
<1>4. (a.run = {k} /\ a.s \in AgentSlices(K)) \/ (a.run = {} /\ a.s = s)
  <2>1. \/ a.run = {k} /\ Puts(K, s, a.s, k, "running", s.retry[k])
        \/ a.run = {} /\ a.s = s
    BY <1>2, <1>3, Zenon
  <2> QED
    BY <2>1 DEF Puts
<1> QED
  BY <1>1, <1>2, <1>4

-----------------------------------------------------------------------------
(* What a verb that leaves the tools alone, or puts them away, keeps.      *)

\* The run of a state is of some phase.
LEMMA PhaseOf ==
  ASSUME NEW s \in AgentStates
  PROVE  /\ s.run \in AgentRuns /\ s.run.phase \in RunPhases
         /\ s.run.phase # "idle" /\ ~IsSettled(s) => LiveRun(s.run)
<1>1. s.run \in AgentRuns /\ s.run.phase \in RunPhases
  BY DEF AgentStates, AgentRuns
<1> QED
  BY <1>1 DEF RunPhases, IsSettled, LiveRun

\* A state with the tools, the conversation and the ladder it had is sound, whatever
\* else has moved, so long as a settled run is not under way again.
LEMMA StaysSound ==
  ASSUME NEW s, NEW run, NEW o, NEW n, NEW x, NEW U, NEW up, NEW D,
         Sound(s, run, o, n, x, U, up, D),
         NEW s2 \in AgentStates, s2.tools = s.tools, s2.conv = s.conv,
         s2.ladder = s.ladder, s.run.phase # "idle", s2.run.phase # "idle",
         IsSettled(s) => IsSettled(s2),
         NEW run2 \in SUBSET AgentKeys, \A k \in AgentIds : k \in run2 <=> k \in run
  PROVE  Sound(s2, run2, o, n, x, U, up, D)
<1>1. s \in AgentStates /\ ToolsFit(s) /\ ConvHolds(s.conv, OpenIn(s), U)
  BY DEF Sound, Shaped
<1>2. RunsIn(s2) = RunsIn(s) /\ WaitsIn(s2) = WaitsIn(s) /\ OpenIn(s2) = OpenIn(s)
  BY DEF RunsIn, WaitsIn, OpenIn
<1>3. ToolsFit(s2)
  BY <1>1, <1>2 DEF ToolsFit
<1>4. ConvHolds(s2.conv, OpenIn(s2), U)
  BY <1>1, <1>2
<1>5. LiveRun(s2.run) /\ ~IsSettled(s2) => s2.conv.awaiting # "none"
  BY <1>1, PhaseOf DEF Sound, Shaped
<1>6. Tallied(s, run, o, n, x, U, up, D) /\ (Awaits(s2, "tools") => Awaits(s, "tools"))
  BY DEF Sound, Awaits
<1>7. Tallied(s2, run2, o, n, x, U, up, D)
  BY <1>2, <1>6, TalliesSame
<1> QED
  BY <1>3, <1>4, <1>5, <1>7 DEF Sound, Shaped

\* So is one whose tools are put away, with a conversation that holds.
LEMMA SoundWithoutTools ==
  ASSUME NEW s, NEW run, NEW o, NEW n, NEW x, NEW U, NEW up, NEW D,
         Tallied(s, run, o, n, x, U, up, D), Books(o, n, x),
         NEW s2 \in AgentStates, FanHolds(s2.tools, {}, {}), s2.ladder = s.ladder,
         NEW U2, U \subseteq U2, ConvHolds(s2.conv, {}, U2), s2.conv.awaiting # "tools",
         s2.run.phase # "idle", ~IsSettled(s2) => s2.conv.awaiting # "none",
         NEW run2 \in SUBSET AgentKeys, \A k \in AgentIds : k \in run2 <=> k \in run
  PROVE  Sound(s2, run2, o, n, x, U2, TRUE, D)
<1>1. RunsIn(s2) = {} /\ WaitsIn(s2) = {} /\ OpenIn(s2) = {}
  BY ListFacts DEF FanHolds, RunsIn, WaitsIn, OpenIn
<1>2. ToolsFit(s2)
  BY <1>1 DEF ToolsFit
<1>3. ~Awaits(s2, "tools")
  BY DEF Awaits
<1>4. Tallied(s2, run2, o, n, x, U2, TRUE, D)
  <2>1. PICK up2 : up2 = TRUE
    OBVIOUS
  <2>2. /\ Tallied(s, run, o, n, x, U, up, D) /\ s2.ladder = s.ladder /\ RunsIn(s2) \subseteq RunsIn(s)
        /\ WaitsIn(s2) \subseteq WaitsIn(s) /\ U \subseteq U2
        /\ \A k \in AgentIds : k \in run2 <=> k \in run
        /\ Awaits(s2, "tools") => Awaits(s, "tools") /\ (up2 => up)
    BY <1>1, <1>3
  <2>3. Tallied(s2, run2, o, n, x, U2, up2, D)
    BY <2>2, TalliesSame
  <2> QED
    BY <2>1, <2>3
<1> QED
  BY <1>1, <1>2, <1>4 DEF Sound, Shaped

\* While no tool is awaited, none is out.
LEMMA NothingOpen ==
  ASSUME NEW s, ToolsFit(s), s.conv.awaiting # "tools" \/ RunsIn(s) = {}
  PROVE  /\ RunsIn(s) = {} /\ WaitsIn(s) = {} /\ OpenIn(s) = {}
         /\ FanHolds(s.tools, {}, {})
<1>1. RunsIn(s) = {} /\ FanHolds(s.tools, RunsIn(s), WaitsIn(s))
  BY DEF ToolsFit
<1>2. WaitsIn(s) = {}
  BY <1>1 DEF FanHolds
<1> QED
  BY <1>1, <1>2 DEF OpenIn

-----------------------------------------------------------------------------
(* The conversation.                                                       *)

\* A new one, and none.
LEMMA NewConvs ==
  ASSUME NEW U
  PROVE  /\ FreshConv \in AgentConvs /\ ConvHolds(FreshConv, {}, U)
         /\ NoConv \in AgentConvs /\ ConvHolds(NoConv, {}, U)
         /\ FreshConv.awaiting = "llm" /\ NoConv.awaiting = "none"
<1>1. ASSUME NEW c, NEW w \in {"none", "llm"},
             c = [turns |-> <<>>, records |-> <<>>, count |-> 0, awaiting |-> w, folding |-> 0]
      PROVE  c \in AgentConvs /\ ConvHolds(c, {}, U)
  <2>1. c \in AgentConvs
    BY <1>1 DEF AgentConvs
  <2>2. /\ c.turns = <<>> /\ c.records = <<>> /\ c.count = 0 /\ c.awaiting = w
        /\ DOMAIN c.turns = {} /\ DOMAIN c.records = {} /\ Len(c.turns) = 0
    BY <1>1
  <2> QED
    BY <2>1, <2>2 DEF ConvHolds
<1>2. NoConv = [turns |-> <<>>, records |-> <<>>, count |-> 0, awaiting |-> "none",
                folding |-> 0]
  BY DEF NoConv
<1>3. FreshConv = [turns |-> <<>>, records |-> <<>>, count |-> 0, awaiting |-> "llm",
                   folding |-> 0]
  BY <1>2 DEF FreshConv
<1> QED
  BY <1>1, <1>2, <1>3

\* More calls made, none of them open.
LEMMA ConvGrows ==
  ASSUME NEW c, NEW open, NEW U, ConvHolds(c, open, U), NEW U2, U \subseteq U2
  PROVE  ConvHolds(c, open, U2)
BY DEF ConvHolds

\* A turn appended, whose calls are new and open.
LEMMA ConvTurns ==
  ASSUME NEW c \in AgentConvs, NEW U, ConvHolds(c, {}, U), c.awaiting = "llm",
         NEW q, NEW N, Lists(q, N), NEW U2, U \union N \subseteq U2, U \intersect N = {},
         NEW d, d = [c EXCEPT !.turns = Append(c.turns, q), !.awaiting = "tools"]
  PROVE  d \in AgentConvs /\ d.awaiting = "tools" /\ ConvHolds(d, N, U2)
<1>1. PICK t \in Seq(Seq(AgentIds)) : t = c.turns
  BY DEF AgentConvs
<1>2. q \in Seq(AgentIds) /\ ToSet(q) = N
  BY ListFacts
<1>3. PICK m \in Nat : m = Len(t) /\ DOMAIN t = 1 .. m
  BY <1>1
<1>4. PICK t2 : t2 = Append(t, q)
  OBVIOUS
<1>5. /\ t2 \in Seq(Seq(AgentIds)) /\ DOMAIN t2 = 1 .. m + 1 /\ Len(t2) = m + 1
      /\ \A i \in 1 .. m : t2[i] = t[i]
      /\ t2[m + 1] = q
  BY <1>1, <1>2, <1>3, <1>4
<1>6. /\ d \in AgentConvs /\ d.turns = t2 /\ d.records = c.records /\ d.awaiting = "tools"
      /\ d.count = c.count
  BY <1>1, <1>4, <1>5 DEF AgentConvs
<1>7. \A i \in 1 .. m + 1 : i \in 1 .. m \/ i = m + 1
  OBVIOUS
<1>8. \A i \in DOMAIN d.turns : ToSet(d.turns[i]) \subseteq U2
  <2>1. \A i \in 1 .. m : ToSet(t[i]) \subseteq U
    BY <1>1, <1>3 DEF ConvHolds
  <2> QED
    BY <1>2, <1>5, <1>6, <1>7, <2>1
<1>9. \A j \in DOMAIN d.records : d.records[j].call \in U2 \ N
  BY <1>6 DEF ConvHolds
<1>10. ASSUME NEW i \in DOMAIN d.turns, NEW k \in ToSet(d.turns[i]) \ N
       PROVE  \E j \in DOMAIN d.records : Answer(d, j, k, i)
  <2>1. i \in 1 .. m
    BY <1>2, <1>5, <1>6, <1>7, <1>10
  <2>2. k \in ToSet(c.turns[i]) /\ i \in DOMAIN c.turns
    BY <1>1, <1>3, <1>5, <1>6, <1>10, <2>1
  <2>3. PICK j \in DOMAIN c.records : Answer(c, j, k, i)
    BY <2>2 DEF ConvHolds
  <2> QED
    BY <1>6, <2>3 DEF Answer
<1>11. Len(d.turns) <= d.count + (IF d.awaiting = "tools" THEN 1 ELSE 0)
  <2>1. m <= c.count + 0 /\ c.count \in Nat
    BY <1>1, <1>3 DEF ConvHolds, AgentConvs
  <2> QED
    BY <1>5, <1>6, <2>1
<1> QED
  BY <1>6, <1>8, <1>9, <1>10, <1>11 DEF ConvHolds

\* A call answered: its record names a turn no earlier than its own.
LEMMA ConvRecords ==
  ASSUME NEW c \in AgentConvs, NEW open, NEW U, ConvHolds(c, open, U),
         c.awaiting = "tools", NEW k \in open, NEW rec \in AgentRecords,
         rec.call = k, rec.turn = c.count,
         NEW d, d = [c EXCEPT !.records = Append(c.records, rec)]
  PROVE  d \in AgentConvs /\ ConvHolds(d, open \ {k}, U)
<1>1. PICK q \in Seq(AgentRecords) : q = c.records
  BY DEF AgentConvs
<1>3. PICK m \in Nat : m = Len(q) /\ DOMAIN q = 1 .. m
  BY <1>1
<1>4. PICK p : p = Append(q, rec)
  OBVIOUS
<1>5. /\ p \in Seq(AgentRecords) /\ DOMAIN p = 1 .. m + 1
      /\ \A j \in 1 .. m : p[j] = q[j]
      /\ p[m + 1] = rec
  BY <1>1, <1>3, <1>4
<1>6. /\ d \in AgentConvs /\ d.records = p /\ d.turns = c.turns /\ d.awaiting = "tools"
      /\ d.count = c.count
  BY <1>1, <1>4, <1>5 DEF AgentConvs
<1>7. \A i \in 1 .. m + 1 : i \in 1 .. m \/ i = m + 1
  OBVIOUS
<1>8. \A j \in 1 .. m : q[j].call \in U \ open
  BY <1>1, <1>3 DEF ConvHolds
<1>9. \A j \in DOMAIN d.records : d.records[j].call \in U \ (open \ {k})
  <2>1. k \in U
    BY DEF ConvHolds
  <2> QED
    BY <1>5, <1>6, <1>7, <1>8, <2>1
<1>10. ASSUME NEW i \in DOMAIN d.turns, NEW l \in ToSet(d.turns[i]) \ (open \ {k})
       PROVE  \E j \in DOMAIN d.records : Answer(d, j, l, i)
  <2>1. CASE l = k
    <3>1. i <= c.count + 1 /\ i \in Nat
      <4>1. Len(c.turns) <= c.count + 1 /\ c.turns \in Seq(Seq(AgentIds)) /\ c.count \in Nat
        BY DEF ConvHolds, AgentConvs
      <4>2. i \in 1 .. Len(c.turns) /\ Len(c.turns) \in Nat
        BY <1>6, <4>1
      <4> QED
        BY <4>1, <4>2
    <3>2. \A j \in 1 .. m : p[j].call # k
      BY <1>5, <1>8
    <3>3. m + 1 \in DOMAIN p /\ p[m + 1].call = k /\ p[m + 1].turn + 1 >= i
      BY <1>5, <3>1
    <3>4. Answer(d, m + 1, k, i)
      BY <1>5, <1>6, <1>7, <3>2, <3>3 DEF Answer
    <3> QED
      BY <1>6, <2>1, <3>3, <3>4
  <2>2. CASE l # k
    <3>1. PICK j \in DOMAIN c.records : Answer(c, j, l, i)
      BY <1>6, <1>10, <2>2 DEF ConvHolds
    <3>2. j \in 1 .. m /\ p[j] = q[j] /\ j \in DOMAIN p
      BY <1>1, <1>3, <1>5, <3>1
    <3>3. \A h \in 1 .. m : p[h].call = l => h = j
      BY <1>1, <1>3, <1>5, <3>1 DEF Answer
    <3>4. p[m + 1].call # l
      BY <1>5, <2>2
    <3>5. Answer(d, j, l, i)
      BY <1>1, <1>5, <1>6, <1>7, <3>1, <3>2, <3>3, <3>4 DEF Answer
    <3> QED
      BY <1>6, <3>2, <3>5
  <2> QED
    BY <2>1, <2>2
<1>11. Len(d.turns) <= d.count + (IF d.awaiting = "tools" THEN 1 ELSE 0)
  BY <1>6 DEF ConvHolds
<1>12. /\ open \ {k} \subseteq U
       /\ \A i \in DOMAIN d.turns : ToSet(d.turns[i]) \subseteq U
  BY <1>6 DEF ConvHolds
<1> QED
  BY <1>6, <1>9, <1>10, <1>11, <1>12 DEF ConvHolds

\* The oldest turns become one of no call, which is as if they had never been asked;
\* the records of the others move down with their turns.
LEMMA TurnsFold ==
  ASSUME NEW X, NEW e \in X, NEW t \in Seq(X), NEW n \in 2 .. Len(t),
         NEW u, u = <<e>> \o SubSeq(t, n + 1, Len(t))
  PROVE  /\ u \in Seq(X) /\ Len(u) = Len(t) - n + 1
         /\ u[1] = e
         /\ \A i \in 2 .. Len(u) : n + i - 1 \in 1 .. Len(t) /\ u[i] = t[n + i - 1]
<1>1. PICK m \in Nat : m = Len(t)
  OBVIOUS
<1>2. n \in Nat /\ n <= m /\ n >= 2
  BY <1>1
<1>3. PICK v : v = SubSeq(t, n + 1, m)
  OBVIOUS
<1>4. /\ v \in Seq(X) /\ Len(v) = m - n
      /\ \A i \in 1 .. m - n : v[i] = t[n + i]
  <2>1. \A i \in n + 1 .. m : t[i] \in X
    BY <1>1, <1>2
  <2>2. PICK a \in Int : a = n + 1
    BY <1>2
  <2>3. /\ v \in Seq(X) /\ Len(v) = IF a <= m THEN m - a + 1 ELSE 0
        /\ \A i \in 1 .. m - a + 1 : v[i] = t[a + i - 1]
    <3>1. v = SubSeq(t, a, m) /\ \A i \in a .. m : t[i] \in X
      BY <1>3, <2>1, <2>2
    <3> QED
      BY <1>1, <3>1, SubSeqProperties
  <2>4. m - a + 1 = m - n /\ (a <= m \/ m - n = 0)
    BY <1>2, <2>2
  <2>5. \A i \in 1 .. m - n : a + i - 1 = n + i
    BY <1>2, <2>2
  <2> QED
    BY <2>2, <2>3, <2>4, <2>5
<1>5. PICK f : f = <<e>>
  OBVIOUS
<1>6. f \in Seq(X) /\ Len(f) = 1 /\ f[1] = e
  BY <1>5
<1>7. u = f \o v
  BY <1>1, <1>3, <1>5
<1>11. /\ u \in Seq(X) /\ Len(u) = Len(f) + Len(v)
       /\ \A i \in 1 .. Len(f) + Len(v) : u[i] = IF i <= Len(f) THEN f[i] ELSE v[i - Len(f)]
  <2>1. f \in Seq(X) /\ v \in Seq(X)
    BY <1>4, <1>6
  <2>2. /\ f \o v \in Seq(X) /\ Len(f \o v) = Len(f) + Len(v)
        /\ \A i \in 1 .. Len(f) + Len(v) :
             (f \o v)[i] = IF i <= Len(f) THEN f[i] ELSE v[i - Len(f)]
    BY <2>1, ConcatProperties
  <2> QED
    BY <1>7, <2>2
<1>8. u \in Seq(X) /\ Len(u) = m - n + 1
  BY <1>2, <1>4, <1>6, <1>11
<1>12. \A i \in 1 .. m - n + 1 : u[i] = IF i <= 1 THEN f[i] ELSE v[i - 1]
  <2>1. Len(f) + Len(v) = m - n + 1
    BY <1>2, <1>4, <1>6
  <2> QED
    BY <1>6, <1>11, <2>1
<1>9. u[1] = e
  <2>1. 1 \in 1 .. m - n + 1 /\ 1 <= 1
    BY <1>2
  <2> QED
    BY <1>6, <1>12, <2>1
<1>10. ASSUME NEW i \in 2 .. Len(u)
       PROVE  n + i - 1 \in 1 .. m /\ u[i] = t[n + i - 1]
  <2>1. i \in Int /\ 2 <= i /\ i <= m - n + 1
    BY <1>2, <1>8
  <2>2. i \in 1 .. m - n + 1 /\ ~(i <= 1)
    BY <1>2, <2>1
  <2>3. u[i] = v[i - 1]
    BY <1>12, <2>2
  <2>4. i - 1 \in 1 .. m - n /\ n + (i - 1) = n + i - 1
    BY <1>2, <2>1
  <2>5. v[i - 1] = t[n + (i - 1)]
    BY <1>4, <2>4
  <2> QED
    BY <1>2, <2>1, <2>3, <2>4, <2>5
<1> QED
  BY <1>1, <1>8, <1>9, <1>10

\* The turn of a record that stays, and what it becomes.
LEMMA TurnStays ==
  ASSUME NEW y \in Nat, NEW n \in Nat, NEW i \in Int, i >= 2, y + 1 >= n + i - 1
  PROVE  y >= n /\ y - (n - 1) + 1 >= i
OBVIOUS

\* What rises takes no value twice.
LEMMA RisesApart ==
  ASSUME NEW m \in Nat, NEW l \in Nat, NEW h \in [1 .. m -> 1 .. l],
         \A i, j \in 1 .. m : i < j => h[i] < h[j]
  PROVE  \A i, j \in 1 .. m : h[i] = h[j] => i = j
<1> SUFFICES ASSUME NEW i \in 1 .. m, NEW j \in 1 .. m, h[i] = h[j] PROVE i = j
  OBVIOUS
<1>1. i \in Int /\ j \in Int /\ h[i] \in Int
  OBVIOUS
<1>2. ~(i < j) /\ ~(j < i)
  BY <1>1
<1> QED
  BY <1>1, <1>2

\* The conversation holds as before.
LEMMA ConvFolds ==
  ASSUME NEW c \in AgentConvs, NEW U, ConvHolds(c, {}, U), c.awaiting = "compacting",
         NEW d, d = FoldSummary(c)
  PROVE  d \in AgentConvs /\ d.awaiting = "llm" /\ ConvHolds(d, {}, U)
<1>1. PICK t \in Seq(Seq(AgentIds)) : t = c.turns
  BY DEF AgentConvs
<1>2. PICK q \in Seq(AgentRecords) : q = c.records
  BY DEF AgentConvs
<1>3. PICK n \in 2 .. Len(t) : n = c.folding
  BY <1>1 DEF ConvHolds
<1>4. n \in Nat /\ n >= 2 /\ n <= Len(t) /\ Len(t) \in Nat
  BY <1>1
<1>5. PICK u : u = <<<<>>>> \o SubSeq(t, n + 1, Len(t))
  OBVIOUS
<1>6. /\ u \in Seq(Seq(AgentIds)) /\ Len(u) = Len(t) - n + 1 /\ u[1] = <<>>
      /\ \A i \in 2 .. Len(u) : n + i - 1 \in 1 .. Len(t) /\ u[i] = t[n + i - 1]
  <2>1. PICK X : X = Seq(AgentIds)
    OBVIOUS
  <2>5. <<>> \in Seq(AgentIds)
    OBVIOUS
  <2>2. PICK e \in X : e = <<>>
    BY <2>1, <2>5
  <2>3. t \in Seq(X) /\ u = <<e>> \o SubSeq(t, n + 1, Len(t))
    BY <1>5, <2>1, <2>2
  <2>4. /\ u \in Seq(X) /\ Len(u) = Len(t) - n + 1
        /\ u[1] = e
        /\ \A i \in 2 .. Len(u) : n + i - 1 \in 1 .. Len(t) /\ u[i] = t[n + i - 1]
    BY <2>3, TurnsFold
  <2> QED
    BY <2>1, <2>2, <2>4
<1>7. PICK Q : Q = {rec \in ToSet(q) : rec.turn >= n}
  OBVIOUS
<1>8. PICK kept : kept = Kept(q, Q)
  OBVIOUS
<1>9. kept \in Seq(AgentRecords) /\ \E h : Picks(h, kept, q, Len(q), Q)
  BY <1>8, KeptPicks
<1>10. PICK h : Picks(h, kept, q, Len(q), Q)
  BY <1>9
<1>11. PICK m \in Nat : m = Len(kept) /\ DOMAIN kept = 1 .. m
  BY <1>9
<1>12. PICK l \in Nat : l = Len(q) /\ DOMAIN q = 1 .. l
  OBVIOUS
<1>13. /\ h \in [1 .. m -> 1 .. l]
       /\ \A i \in 1 .. m : kept[i] = q[h[i]] /\ q[h[i]].turn >= n
       /\ \A i, j \in 1 .. m : i < j => h[i] < h[j]
       /\ \A k \in 1 .. l : q[k].turn >= n => \E i \in 1 .. m : h[i] = k
  <2>1. \A k \in 1 .. l : q[k].turn >= n => q[k] \in Q
    BY <1>7, <1>12 DEF ToSet
  <2>2. \A rec \in Q : rec.turn >= n
    BY <1>7
  <2> QED
    BY <1>10, <1>11, <1>12, <2>1, <2>2 DEF Picks
<1>14. PICK p : p = [j \in 1 .. m |-> [kept[j] EXCEPT !.turn = kept[j].turn - (n - 1)]]
  OBVIOUS
<1>15. \A j \in 1 .. m : /\ p[j] \in AgentRecords
                         /\ p[j].call = q[h[j]].call /\ p[j].turn = q[h[j]].turn - (n - 1)
  <2> SUFFICES ASSUME NEW j \in 1 .. m
               PROVE  /\ p[j] \in AgentRecords
                      /\ p[j].call = q[h[j]].call /\ p[j].turn = q[h[j]].turn - (n - 1)
    OBVIOUS
  <2>1. PICK rec \in AgentRecords : rec = kept[j] /\ rec = q[h[j]] /\ rec.turn >= n
    BY <1>9, <1>11, <1>13
  <2>2. p[j] = [rec EXCEPT !.turn = rec.turn - (n - 1)]
    BY <1>14, <2>1
  <2>3. rec.turn - (n - 1) \in Nat
    BY <1>4, <2>1 DEF AgentRecords
  <2> QED
    BY <2>1, <2>2, <2>3 DEF AgentRecords
<1>16. p \in Seq(AgentRecords) /\ Len(p) = m /\ DOMAIN p = 1 .. m
  <2>1. p \in [1 .. m -> AgentRecords]
    BY <1>14, <1>15
  <2> QED
    BY <1>11, <2>1
<1>17. d = [c EXCEPT !.turns = u, !.records = p, !.awaiting = "llm", !.folding = 0]
  BY <1>1, <1>2, <1>3, <1>5, <1>7, <1>8, <1>11, <1>14 DEF FoldSummary, AgentConvs
<1>18. /\ d \in AgentConvs /\ d.turns = u /\ d.records = p /\ d.awaiting = "llm"
       /\ d.count = c.count
  <2>1. "llm" \in {"none", "llm", "tools", "compacting"} /\ 0 \in Nat
    OBVIOUS
  <2> QED
    BY <1>6, <1>16, <1>17, <2>1 DEF AgentConvs
<1>19. \A i, j \in 1 .. m : h[i] = h[j] => i = j
  <2>1. h \in [1 .. m -> 1 .. l] /\ \A i, j \in 1 .. m : i < j => h[i] < h[j]
    BY <1>13
  <2> QED
    BY <2>1, RisesApart
<1>20. Len(d.turns) <= d.count + (IF d.awaiting = "tools" THEN 1 ELSE 0)
  <2>1. Len(t) <= c.count + 0 /\ c.count \in Nat
    BY <1>1 DEF ConvHolds, AgentConvs
  <2> QED
    BY <1>4, <1>6, <1>18, <2>1
<1>21. DOMAIN u = 1 .. Len(u) /\ Len(u) \in Nat /\ Len(u) >= 1
  BY <1>4, <1>6
<1>22. \A i \in 1 .. Len(u) : i = 1 \/ i \in 2 .. Len(u)
  BY <1>21
<1>23. ToSet(u[1]) = {}
  BY <1>6 DEF ToSet
<1>24. \A i \in DOMAIN d.turns : ToSet(d.turns[i]) \subseteq U
  <2>1. \A i \in 1 .. Len(t) : ToSet(t[i]) \subseteq U
    BY <1>1 DEF ConvHolds
  <2> QED
    BY <1>6, <1>18, <1>21, <1>22, <1>23, <2>1
<1>25. \A j \in DOMAIN d.records : d.records[j].call \in U \ {}
  <2>1. \A j \in 1 .. l : q[j].call \in U
    BY <1>2, <1>12 DEF ConvHolds
  <2>2. ASSUME NEW j \in 1 .. m PROVE p[j].call \in U
    <3>1. h[j] \in 1 .. l /\ p[j].call = q[h[j]].call
      BY <1>13, <1>15
    <3> QED
      BY <2>1, <3>1
  <2> QED
    BY <1>16, <1>18, <2>2
<1>26. ASSUME NEW i \in DOMAIN d.turns, NEW k \in ToSet(d.turns[i]) \ {}
       PROVE  \E j \in DOMAIN d.records : Answer(d, j, k, i)
  <2>1. i \in 2 .. Len(u) /\ i \in Int /\ i >= 2
    BY <1>18, <1>21, <1>22, <1>23, <1>26
  <2>2. PICK g \in 1 .. Len(t) : g = n + i - 1 /\ u[i] = t[g]
    BY <1>6, <2>1
  <2>3. k \in ToSet(c.turns[g]) \ {} /\ g \in DOMAIN c.turns
    BY <1>1, <1>18, <1>26, <2>2
  <2>4. PICK f \in DOMAIN c.records : Answer(c, f, k, g)
    BY <2>3 DEF ConvHolds
  <2>5. /\ f \in 1 .. l /\ q[f].call = k /\ q[f].turn + 1 >= g
        /\ \A e \in 1 .. l : q[e].call = k => e = f
    BY <1>2, <1>12, <2>4 DEF Answer
  <2>6. q[f].turn \in Nat
    <3>1. q[f] \in AgentRecords
      BY <1>2, <1>12, <2>5
    <3> QED
      BY <3>1 DEF AgentRecords
  <2>12. PICK y \in Nat : y = q[f].turn
    BY <2>6
  <2>13. y + 1 >= n + i - 1
    BY <2>2, <2>5, <2>12
  <2>7. q[f].turn >= n
    <3>1. y >= n
      BY <1>4, <2>1, <2>13, TurnStays
    <3> QED
      BY <2>12, <3>1
  <2>8. PICK j \in 1 .. m : h[j] = f
    BY <1>13, <2>5, <2>7
  <2>9. p[j].call = k /\ p[j].turn = q[f].turn - (n - 1)
    BY <1>15, <2>5, <2>8
  <2>10. p[j].turn + 1 >= i
    <3>1. y - (n - 1) + 1 >= i
      BY <1>4, <2>1, <2>13, TurnStays
    <3> QED
      BY <2>9, <2>12, <3>1
  <2>11. \A e \in 1 .. m : p[e].call = k => e = j
    <3> SUFFICES ASSUME NEW e \in 1 .. m, p[e].call = k PROVE e = j
      OBVIOUS
    <3>1. h[e] \in 1 .. l /\ q[h[e]].call = k
      BY <1>13, <1>15
    <3>2. h[e] = f
      BY <2>5, <3>1
    <3> QED
      BY <1>19, <2>8, <3>2
  <2> QED
    BY <1>16, <1>18, <2>9, <2>10, <2>11 DEF Answer
<1> QED
  BY <1>18, <1>20, <1>24, <1>25, <1>26 DEF ConvHolds

-----------------------------------------------------------------------------
(* The books as calls are launched and settled.                            *)

\* What launching the calls of N may do to the tools, seen from the books.
Launches(s, U, D, run, s2, U2, D2, run2, N) ==
  /\ \A j \in N : j \notin U \/ j \in WaitsIn(s)
  /\ \A j \in AgentIds \ N : j \in RunsIn(s2) => j \in RunsIn(s)
  /\ \A j \in AgentIds \ N :
       j \in RunsIn(s2) \ D2 /\ Awaits(s2, "tools") =>
         j \in RunsIn(s) \ D /\ Awaits(s, "tools")
  /\ \A j \in AgentIds : j \notin U2 \/ j \in WaitsIn(s2) =>
       j \notin N /\ (j \notin U \/ j \in WaitsIn(s))
  /\ \A j \in AgentIds : j \in run2 <=> j \in N \/ j \in run

\* A call launched for the first time has one handler, started once.
LEMMA LaunchedTally ==
  ASSUME NEW s, NEW k \in AgentIds, NEW x, x = 0, NEW s2, NEW U2, NEW D2,
         CallIs(s.ladder, k, "none", 0),
         IF k \in AgentBare THEN SameCall(s.ladder, s2.ladder, k)
           ELSE CallIs(s2.ladder, k, "running", s.ladder.retry[k]),
         ~(k \notin U2 \/ k \in WaitsIn(s2))
  PROVE  Tally(s2, k, 1, 1, x, U2, TRUE, D2)
<1>1. BudgetOf(k) \in Nat \ {0}
  BY AgentFacts
<1>2. PICK b \in Nat \ {0} : b = BudgetOf(k)
  BY <1>1
<1>3. s2.ladder.retry[k] = 0
  BY DEF CallIs, SameCall
<1>4. s2.ladder.calls[k].phase = IF k \in AgentBare THEN "none" ELSE "running"
  BY DEF CallIs, SameCall
<1>5. Handled(s2, k, 1, TRUE)
  BY <1>4 DEF Handled, LivePhases
<1>6. 1 <= x + b /\ 1 <= x + s2.ladder.retry[k] + 1 /\ s2.ladder.retry[k] < b /\ x \in Nat
  BY <1>2, <1>3
<1>7. /\ s2.ladder.calls[k].phase \in {"none", "running", "waiting_retry"}
      /\ k \in AgentBare => s2.ladder.calls[k].phase = "none"
      /\ s2.ladder.calls[k].phase # "waiting_retry"
  BY <1>4
<1>8. 1 \in {0, 1} /\ 1 \in Nat
  OBVIOUS
<1> QED
  BY <1>2, <1>5, <1>6, <1>7, <1>8, Zenon DEF Tally

\* The others are as they were.
LEMMA OtherTally ==
  ASSUME NEW s, NEW k \in AgentIds, NEW a, NEW b, NEW x, NEW U, NEW D, NEW s2, NEW U2, NEW D2,
         Tally(s, k, a, b, x, U, TRUE, D), SameCall(s.ladder, s2.ladder, k),
         k \in RunsIn(s2) => k \in RunsIn(s),
         k \in RunsIn(s2) \ D2 /\ Awaits(s2, "tools") => k \in RunsIn(s) \ D /\ Awaits(s, "tools"),
         k \notin U2 \/ k \in WaitsIn(s2) => k \notin U \/ k \in WaitsIn(s)
  PROVE  Tally(s2, k, a, b, x, U2, TRUE, D2)
<1>1. /\ s2.ladder.calls[k].phase = s.ladder.calls[k].phase
      /\ s2.ladder.retry[k] = s.ladder.retry[k]
  BY DEF SameCall
<1>2. Charged(s2, k, D2) => Charged(s, k, D)
  BY <1>1 DEF Charged
<1>3. Handled(s, k, a, TRUE) => Handled(s2, k, a, TRUE)
  BY <1>1 DEF Handled
<1>4. CallIs(s.ladder, k, "none", 0) => CallIs(s2.ladder, k, "none", 0)
  BY <1>1 DEF CallIs
<1> QED
  BY <1>1, <1>2, <1>3, <1>4, Zenon DEF Tally

\* Together.
LEMMA LaunchTallies ==
  ASSUME NEW s, NEW run, NEW o, NEW n, NEW x, NEW U, NEW D,
         Tallied(s, run, o, n, x, U, TRUE, D), Books(o, n, x),
         NEW s2, NEW run2, NEW U2, NEW D2, NEW r, NEW N \in SUBSET AgentIds,
         LadderRan(s.ladder, r, N), s2.ladder = r.s,
         Launches(s, U, D, run, s2, U2, D2, run2, N)
  PROVE  Tallied(s2, run2, o, n, x, U2, TRUE, D2)
<1> SUFFICES ASSUME NEW k \in AgentIds
             PROVE  Tally(s2, k, Plus(o, run2, k), Plus(n, run2, k), x[k], U2, TRUE, D2)
  BY DEF Tallied
<1>1. PICK a : a = Plus(o, run, k)
  OBVIOUS
<1>2. PICK b : b = Plus(n, run, k)
  OBVIOUS
<1>3. Tally(s, k, a, b, x[k], U, TRUE, D)
  BY <1>1, <1>2 DEF Tallied
<1>4. PICK y : y = x[k]
  OBVIOUS
<1>5. CASE k \in N
  <2>1. k \notin U \/ k \in WaitsIn(s)
    BY <1>5 DEF Launches
  <2>2. a = 0 /\ b = 0 /\ y = 0 /\ CallIs(s.ladder, k, "none", 0)
    BY <1>3, <1>4, <2>1 DEF Tally
  <2>3. o[k] \in Nat /\ n[k] \in Nat
    BY AgentFacts DEF Books
  <2>4. k \notin run /\ o[k] = 0 /\ n[k] = 0
    BY <1>1, <1>2, <2>2, <2>3 DEF Plus
  <2>5. Plus(o, run2, k) = 1 /\ Plus(n, run2, k) = 1
    BY <1>5, <2>4 DEF Plus, Launches
  <2>6. IF k \in AgentBare THEN SameCall(s.ladder, s2.ladder, k)
          ELSE CallIs(s2.ladder, k, "running", s.ladder.retry[k])
    BY <1>5 DEF LadderRan
  <2>7. ~(k \notin U2 \/ k \in WaitsIn(s2))
    BY <1>5 DEF Launches
  <2>8. Tally(s2, k, 1, 1, y, U2, TRUE, D2)
    BY <2>2, <2>6, <2>7, LaunchedTally
  <2> QED
    BY <1>4, <2>5, <2>8
<1>6. CASE k \notin N
  <2>1. SameCall(s.ladder, s2.ladder, k)
    BY <1>6 DEF LadderRan
  <2>2. Plus(o, run2, k) = a /\ Plus(n, run2, k) = b
    BY <1>1, <1>2, <1>6 DEF Plus, Launches
  <2>3. /\ k \in RunsIn(s2) => k \in RunsIn(s)
        /\ k \in RunsIn(s2) \ D2 /\ Awaits(s2, "tools") => k \in RunsIn(s) \ D /\ Awaits(s, "tools")
        /\ k \notin U2 \/ k \in WaitsIn(s2) => k \notin U \/ k \in WaitsIn(s)
    BY <1>6 DEF Launches
  <2>4. Tally(s2, k, a, b, y, U2, TRUE, D2)
    BY <1>3, <1>4, <2>1, <2>3, OtherTally
  <2> QED
    BY <1>4, <2>2, <2>4
<1> QED
  BY <1>5, <1>6

\* A call given up that no batch waits for is done with.
LEMMA TalliesDrop ==
  ASSUME NEW s, NEW run, NEW o, NEW n, NEW x, NEW U, NEW D, NEW k,
         Tallied(s, run, o, n, x, U, TRUE, D),
         ~Awaits(s, "tools") \/ k \notin RunsIn(s)
  PROVE  Tallied(s, run, o, n, x, U, TRUE, D \ {k})
<1> SUFFICES ASSUME NEW j \in AgentIds
             PROVE  Tally(s, j, Plus(o, run, j), Plus(n, run, j), x[j], U, TRUE, D \ {k})
  BY DEF Tallied
<1>1. PICK a : a = Plus(o, run, j)
  OBVIOUS
<1>2. PICK b : b = Plus(n, run, j)
  OBVIOUS
<1>3. PICK y : y = x[j]
  OBVIOUS
<1>4. Tally(s, j, a, b, y, U, TRUE, D)
  BY <1>1, <1>2, <1>3 DEF Tallied
<1>5. PICK D2 : D2 = D \ {k}
  OBVIOUS
<1>6. SameCall(s.ladder, s.ladder, j)
  BY DEF SameCall
<1>7. j \in RunsIn(s) \ D2 /\ Awaits(s, "tools") => j \in RunsIn(s) \ D /\ Awaits(s, "tools")
  BY <1>5
<1>8. Tally(s, j, a, b, y, U, TRUE, D2)
  BY <1>4, <1>6, <1>7, OtherTally
<1> QED
  BY <1>1, <1>2, <1>3, <1>5, <1>8

-----------------------------------------------------------------------------
(* A batch comes to its end.                                               *)

\* A state whose run is settled awaits nothing.
LEMMA SettledIsDriven ==
  ASSUME NEW s, IsSettled(s), NEW run, NEW o
  PROVE  Driven(s, run, o)
BY DEF Driven

\* The brain is fired from a state without tools.
LEMMA FiresSound ==
  ASSUME NEW s, NEW run, NEW o, NEW n, NEW x, NEW U, NEW up, NEW D,
         Tallied(s, run, o, n, x, U, up, D), Books(o, n, x), run \subseteq AgentKeys,
         NEW s2 \in AgentStates, FanHolds(s2.tools, {}, {}), s2.ladder = s.ladder,
         NEW U2, U \subseteq U2, ConvHolds(s2.conv, {}, U2), s2.conv.awaiting = "llm",
         s2.run.phase # "idle", NEW at \in Int, NEW r, r = FireBrain(s2, at)
  PROVE  /\ Sound(r.s, r.run \union run, o, n, x, U2, TRUE, D)
         /\ Driven(r.s, r.run \union run, o)
<1>1. s2.llm \in AgentSlices({"brain"})
  BY DEF AgentStates
<1>2. PICK l \in AgentSlices({"brain"}) : r = Verb([s2 EXCEPT !.llm = l], {"brain"})
  BY <1>1, BrainFires
<1>3. PICK t : t = [s2 EXCEPT !.llm = l]
  OBVIOUS
<1>4. r.s = t /\ r.run = {"brain"}
  BY <1>2, <1>3 DEF Verb
<1>5. /\ t \in AgentStates /\ t.tools = s2.tools /\ t.ladder = s2.ladder
      /\ t.conv = s2.conv /\ t.run = s2.run
  BY <1>2, <1>3 DEF AgentStates
<1>6. PICK run2 \in SUBSET AgentKeys : run2 = {"brain"} \union run
  BY AgentFacts
<1>7. \A k \in AgentIds : k \in run2 <=> k \in run
  BY <1>6, AgentFacts
<1>8. Sound(t, run2, o, n, x, U2, TRUE, D)
  <2>1. /\ FanHolds(t.tools, {}, {}) /\ t.ladder = s.ladder
        /\ ConvHolds(t.conv, {}, U2) /\ t.conv.awaiting # "tools"
        /\ t.run.phase # "idle" /\ (~IsSettled(t) => t.conv.awaiting # "none")
        /\ Tallied(s, run, o, n, x, U, up, D) /\ Books(o, n, x)
    BY <1>5
  <2> QED
    BY <1>5, <1>6, <1>7, <2>1, SoundWithoutTools
<1>9. Driven(t, run2, o)
  BY <1>5, <1>6 DEF Driven
<1> QED
  BY <1>4, <1>6, <1>8, <1>9

\* The batch is complete.
LEMMA BatchDones ==
  ASSUME NEW s, NEW run, NEW o, NEW n, NEW x, NEW U, NEW D,
         Sound(s, run, o, n, x, U, TRUE, D),
         s.conv.awaiting = "llm", NEW stop, NEW plan \in Nat, NEW at \in Int,
         NEW r, r = BatchDone(s, stop, plan, at, {})
  PROVE  /\ Sound(r.s, r.run \union run, o, n, x, U, TRUE, D)
         /\ Driven(r.s, r.run \union run, o)
<1>1. /\ s \in AgentStates /\ ToolsFit(s) /\ ConvHolds(s.conv, OpenIn(s), U)
      /\ s.run.phase # "idle" /\ run \in SUBSET AgentKeys /\ Books(o, n, x)
      /\ Tallied(s, run, o, n, x, U, TRUE, D)
  BY DEF Sound, Shaped
<1>2. OpenIn(s) = {} /\ FanHolds(s.tools, {}, {})
  BY <1>1, NothingOpen
<1>3. ConvHolds(s.conv, {}, U)
  BY <1>1, <1>2
<1>4. {} \union run = run
  OBVIOUS
<1>5. s.run \in AgentRuns /\ s.conv \in AgentConvs
  BY <1>1 DEF AgentStates
<1>6. ASSUME NEW t \in AgentStates, r = Verb(t, {}), t.tools = s.tools, t.conv = s.conv,
             t.ladder = s.ladder, t.run.phase # "idle", IsSettled(t)
      PROVE  /\ Sound(r.s, r.run \union run, o, n, x, U, TRUE, D)
             /\ Driven(r.s, r.run \union run, o)
  <2>1. r.s = t /\ r.run \union run = run
    BY <1>4, <1>6 DEF Verb
  <2>2. \A k \in AgentIds : k \in run <=> k \in run
    OBVIOUS
  <2>3. Sound(t, run, o, n, x, U, TRUE, D)
    BY <1>1, <1>6, <2>2, StaysSound
  <2>4. Driven(t, run, o)
    BY <1>6, SettledIsDriven
  <2> QED
    BY <2>1, <2>3, <2>4
<1>7. CASE \E f \in {"turn_limit", "elapsed_limit"} : r = Verb([s EXCEPT !.failure = f], {})
  <2>1. PICK f \in {"turn_limit", "elapsed_limit"} : r = Verb([s EXCEPT !.failure = f], {})
    BY <1>7
  <2>2. PICK t : t = [s EXCEPT !.failure = f]
    OBVIOUS
  <2>3. /\ t \in AgentStates /\ t.tools = s.tools /\ t.conv = s.conv /\ t.ladder = s.ladder
        /\ t.run = s.run /\ t.failure = f
    BY <1>1, <2>1, <2>2 DEF AgentStates
  <2>4. IsSettled(t)
    BY <2>1, <2>3 DEF IsSettled
  <2> QED
    BY <1>1, <1>6, <2>1, <2>2, <2>3, <2>4
<1>8. CASE r = CancelAgent(s)
  <2>1. PICK g : g = CancelRun(s.run)
    OBVIOUS
  <2>2. g \in AgentRuns /\ ~LiveRun(g) /\ g.phase # "idle"
    BY <1>5, <2>1, RunCancels
  <2>3. PICK t : t = [s EXCEPT !.run = g]
    OBVIOUS
  <2>4. /\ t \in AgentStates /\ t.tools = s.tools /\ t.conv = s.conv /\ t.ladder = s.ladder
        /\ t.run = g
    BY <1>1, <2>2, <2>3 DEF AgentStates
  <2>5. IsSettled(t)
    BY <2>2, <2>4, PhaseOf
  <2>6. r = Verb(t, {})
    BY <1>1, <1>8, <2>1, <2>3 DEF CancelAgent, AgentStates
  <2> QED
    BY <1>6, <2>2, <2>4, <2>5, <2>6
<1>9. PICK g : g = Progress(s.run, at)
  OBVIOUS
<1>10. g \in AgentRuns /\ g.phase # "idle"
  BY <1>1, <1>5, <1>9, RunProgresses DEF LiveRun
<1>11. PICK d : d = [s EXCEPT !.tools = InitFan, !.run = g]
  OBVIOUS
<1>12. /\ d \in AgentStates /\ FanHolds(d.tools, {}, {}) /\ d.ladder = s.ladder
       /\ d.conv = s.conv /\ d.run = g /\ d.compaction = s.compaction
  BY <1>1, <1>10, <1>11, NewFan DEF AgentStates, FanHolds
<1>13. CASE r = And(FireBrain(d, at), {})
  <2>1. PICK q : q = FireBrain(d, at)
    OBVIOUS
  <2>2. r.s = q.s /\ r.run = q.run \union {}
    BY <1>13, <2>1 DEF And, Verb
  <2>3. r.run \union run = q.run \union run
    BY <2>2
  <2>4. U \subseteq U /\ ConvHolds(d.conv, {}, U) /\ d.conv.awaiting = "llm" /\ d.run.phase # "idle"
    BY <1>3, <1>10, <1>12
  <2>5. /\ Sound(q.s, q.run \union run, o, n, x, U, TRUE, D)
        /\ Driven(q.s, q.run \union run, o)
    BY <1>1, <1>12, <2>1, <2>4, FiresSound
  <2> QED
    BY <2>2, <2>3, <2>5
<1>14. PICK folding : folding = MinOf(plan, Len(s.conv.turns))
  OBVIOUS
<1>15. CASE folding >= 2 /\ r = Compacting([s EXCEPT !.tools = InitFan], folding, at)
  <2>1. PICK c \in AgentSlices({"compact"}) : c = s.compaction
    BY <1>1 DEF AgentStates
  <2>2. PICK a : a = Attempt(AgentCompact, c, "compact", at, AgentDelay)
    OBVIOUS
  <2>3. a.s \in AgentSlices({"compact"}) /\ a.run = {"compact"}
    BY <2>2, CompactionFires
  <2>4. folding \in 2 .. Len(s.conv.turns) /\ folding \in Nat
    <3>1. Len(s.conv.turns) \in Nat
      BY <1>5 DEF AgentConvs
    <3> QED
      BY <1>14, <1>15, <3>1 DEF MinOf
  <2>5. PICK c2 : c2 = [s.conv EXCEPT !.awaiting = "compacting", !.folding = folding]
    OBVIOUS
  <2>6. /\ c2 \in AgentConvs /\ c2.turns = s.conv.turns /\ c2.records = s.conv.records
        /\ c2.count = s.conv.count /\ c2.awaiting = "compacting" /\ c2.folding = folding
    BY <1>5, <2>4, <2>5 DEF AgentConvs
  <2>7. ConvHolds(c2, {}, U)
    BY <1>3, <2>4, <2>6 DEF ConvHolds, Answer
  <2>8. PICK t : t = [d EXCEPT !.conv = c2, !.compaction = a.s]
    OBVIOUS
  <2>9. /\ t \in AgentStates /\ t.tools = d.tools /\ t.ladder = s.ladder /\ t.conv = c2
        /\ t.run = g
    BY <1>12, <2>3, <2>6, <2>8 DEF AgentStates
  <2>10. r = Verb(t, {"compact"})
    BY <1>1, <1>9, <1>11, <1>15, <2>1, <2>2, <2>3, <2>5, <2>8
    DEF Compacting, InCompaction, AgentStates
  <2>11. PICK run2 \in SUBSET AgentKeys : run2 = {"compact"} \union run
    BY <1>1, AgentFacts
  <2>12. \A k \in AgentIds : k \in run2 <=> k \in run
    BY <2>11, AgentFacts
  <2>13. Sound(t, run2, o, n, x, U, TRUE, D)
    <3>1. /\ FanHolds(t.tools, {}, {}) /\ U \subseteq U
          /\ ConvHolds(t.conv, {}, U) /\ t.conv.awaiting # "tools"
          /\ t.run.phase # "idle" /\ (~IsSettled(t) => t.conv.awaiting # "none")
      BY <1>10, <1>12, <2>6, <2>7, <2>9
    <3> QED
      BY <1>1, <2>9, <2>11, <2>12, <3>1, SoundWithoutTools
  <2>14. Driven(t, run2, o)
    BY <2>6, <2>9, <2>11 DEF Driven
  <2> QED
    <3>1. r.s = t /\ r.run \union run = run2
      BY <2>10, <2>11 DEF Verb
    <3> QED
      BY <2>13, <2>14, <3>1
<1>16. \/ \E f \in {"turn_limit", "elapsed_limit"} : r = Verb([s EXCEPT !.failure = f], {})
       \/ r = CancelAgent(s)
       \/ folding >= 2 /\ r = Compacting([s EXCEPT !.tools = InitFan], folding, at)
       \/ r = And(FireBrain(d, at), {})
  BY <1>1, <1>9, <1>11, <1>14 DEF BatchDone, AgentStates
<1> QED
  BY <1>7, <1>8, <1>13, <1>15, <1>16

-----------------------------------------------------------------------------
(* A tool settles.                                                         *)

\* Settling a call that no batch waits for does nothing.
LEMMA SettlesNothing ==
  ASSUME NEW s, NEW run, NEW o, NEW n, NEW x, NEW U, NEW D, NEW k,
         Sound(s, run, o, n, x, U, TRUE, D),
         ~Awaits(s, "tools") \/ k \notin RunsIn(s)
  PROVE  Sound(s, run, o, n, x, U, TRUE, D \ {k})
<1>1. Tallied(s, run, o, n, x, U, TRUE, D)
  BY DEF Sound
<1>2. Tallied(s, run, o, n, x, U, TRUE, D \ {k})
  BY <1>1, TalliesDrop
<1> QED
  BY <1>2 DEF Sound

\* The state with the call settled and the calls that follow launched: the fan-out g, the
\* conversation c2, the ladder's answer; before it is asked whether the batch is complete.
Settling(s, g, c2, refs, f) ==
  f = [s EXCEPT !.tools = g, !.refused = refs, !.conv = c2]

\* The batch goes on, or is complete.
LEMMA ItemSettles ==
  ASSUME NEW s, NEW run, NEW o, NEW n, NEW x, NEW U, NEW D,
         Sound(s, run, o, n, x, U, TRUE, D), Awaits(s, "tools"),
         NEW k \in RunsIn(s), NEW N \in SUBSET WaitsIn(s),
         NEW g, FanHolds(g, (RunsIn(s) \ {k}) \union N, WaitsIn(s) \ N), g.items # <<>>,
         NEW c2 \in AgentConvs, ConvHolds(c2, OpenIn(s) \ {k}, U), c2.awaiting = "tools",
         NEW refs \in Seq(AgentIds), NEW f, Settling(s, g, c2, refs, f),
         NEW a, LadderRan(s.ladder, a, N), NEW stop, NEW plan \in Nat, NEW at \in Int,
         NEW r, r = AfterItem(f, a, stop, plan, at)
  PROVE  /\ Sound(r.s, r.run \union run, o, n, x, U, TRUE, D \ {k})
         /\ Driven(r.s, r.run \union run, o)
<1>1. /\ s \in AgentStates /\ ToolsFit(s) /\ ConvHolds(s.conv, OpenIn(s), U)
      /\ s.run.phase # "idle" /\ run \in SUBSET AgentKeys /\ Books(o, n, x)
      /\ Tallied(s, run, o, n, x, U, TRUE, D)
  BY DEF Sound, Shaped
<1>2. PICK R : R = (RunsIn(s) \ {k}) \union N
  OBVIOUS
<1>3. PICK P : P = WaitsIn(s) \ N
  OBVIOUS
<1>4. FanHolds(g, R, P) /\ g \in AgentFans
  BY <1>2, <1>3 DEF FanHolds
<1>5. ToSet(g.running) = R /\ ToSet(g.pending) = P
  BY <1>4, ListFacts DEF FanHolds
<1>6. RunsIn(s) \intersect WaitsIn(s) = {} /\ RunsIn(s) \subseteq AgentIds
      /\ WaitsIn(s) \subseteq AgentIds
  BY <1>1, ListFacts DEF ToolsFit, FanHolds
<1>7. OpenIn(s) \ {k} = R \union P /\ WaitsIn(s) \subseteq U
  BY <1>1, <1>2, <1>3, <1>6 DEF OpenIn, ConvHolds
<1>8. f = [s EXCEPT !.tools = g, !.refused = refs, !.conv = c2]
  BY DEF Settling
<1>9. /\ f \in AgentStates /\ f.tools = g /\ f.conv = c2 /\ f.run = s.run
      /\ f.ladder = s.ladder /\ f.failure = s.failure
  BY <1>1, <1>4, <1>8 DEF AgentStates
<1>10. a.s \in Ladders /\ a.run = N
  BY DEF LadderRan, LadderSteps
<1>11. PICK run2 \in SUBSET AgentKeys : run2 = N \union run
  BY <1>1, <1>6, AgentFacts
<1>12. ASSUME NEW t, t.tools = g, Awaits(t, "tools") => Awaits(s, "tools")
       PROVE  Launches(s, U, D, run, t, U, D \ {k}, run2, N)
  <2>1. RunsIn(t) = R /\ WaitsIn(t) = P
    BY <1>5, <1>12 DEF RunsIn, WaitsIn
  <2>2. \A j \in AgentIds \ N : j \in RunsIn(t) => j \in RunsIn(s) /\ j # k
    BY <1>2, <2>1
  <2>3. \A j \in AgentIds : j \in WaitsIn(t) => j \notin N /\ j \in WaitsIn(s)
    BY <1>3, <2>1
  <2>4. \A j \in AgentIds : j \notin U => j \notin N
    BY <1>7
  <2> QED
    BY <1>11, <1>12, <2>2, <2>3, <2>4 DEF Launches
<1>13. CASE IsComplete(g)
  <2>1. R = {} /\ P = {} /\ N = {} /\ run2 = run
    <3>1. R = {} /\ P = {}
      BY <1>4, <1>13, ListFacts DEF IsComplete, FanHolds
    <3> QED
      BY <1>2, <1>11, <3>1
  <2>2. PICK c3 : c3 = [c2 EXCEPT !.count = c2.count + 1, !.awaiting = "llm"]
    OBVIOUS
  <2>3. /\ c3 \in AgentConvs /\ c3.turns = c2.turns /\ c3.records = c2.records
        /\ c3.awaiting = "llm" /\ c3.count = c2.count + 1
    <3>1. c2.count + 1 \in Nat
      BY DEF AgentConvs
    <3> QED
      BY <2>2, <3>1 DEF AgentConvs
  <2>4. ConvHolds(c3, {}, U)
    <3>1. ConvHolds(c2, {}, U)
      BY <1>7, <2>1
    <3>2. Len(c3.turns) <= c3.count + (IF c3.awaiting = "tools" THEN 1 ELSE 0)
      <4>1. Len(c2.turns) <= c2.count + 1 /\ c2.count \in Nat
        BY <3>1 DEF ConvHolds, AgentConvs
      <4> QED
        BY <2>3, <4>1
    <3>3. \A j \in DOMAIN c2.records : \A l, i : Answer(c2, j, l, i) => Answer(c3, j, l, i)
      BY <2>3 DEF Answer
    <3> QED
      BY <2>3, <3>1, <3>2, <3>3 DEF ConvHolds
  <2>5. PICK t : t = [f EXCEPT !.ladder = a.s, !.conv = c3]
    OBVIOUS
  <2>6. /\ t \in AgentStates /\ t.tools = g /\ t.conv = c3 /\ t.run = s.run
        /\ t.ladder = a.s /\ t.failure = s.failure
    BY <1>9, <1>10, <2>3, <2>5 DEF AgentStates
  <2>7. r = BatchDone(t, stop, plan, at, {})
    BY <1>9, <1>10, <1>13, <2>1, <2>2, <2>5 DEF AfterItem, AgentStates
  <2>8. Sound(t, run, o, n, x, U, TRUE, D \ {k})
    <3>1. RunsIn(t) = {} /\ WaitsIn(t) = {} /\ OpenIn(t) = {}
      BY <1>5, <2>1, <2>6 DEF RunsIn, WaitsIn, OpenIn
    <3>2. ToolsFit(t)
      BY <1>4, <2>1, <2>3, <2>6, <3>1 DEF ToolsFit
    <3>3. Shaped(t, U)
      BY <2>3, <2>4, <2>6, <3>1, <3>2 DEF Shaped
    <3>4. Launches(s, U, D, run, t, U, D \ {k}, run2, N)
      BY <1>12, <2>6
    <3>5. PICK D2 : D2 = D \ {k}
      OBVIOUS
    <3>6. N \in SUBSET AgentIds /\ Launches(s, U, D, run, t, U, D2, run2, N)
      BY <2>1, <3>4, <3>5
    <3>7. Tallied(t, run2, o, n, x, U, TRUE, D2)
      BY <1>1, <2>6, <3>6, LaunchTallies
    <3> QED
      BY <1>1, <2>1, <2>6, <3>3, <3>5, <3>7 DEF Sound
  <2>9. t.conv.awaiting = "llm" /\ r.run \union run = r.run \union run
    BY <2>3, <2>6
  <2> QED
    <3>1. PICK D2 : D2 = D \ {k}
      OBVIOUS
    <3>2. Sound(t, run, o, n, x, U, TRUE, D2)
      BY <2>8, <3>1
    <3>3. /\ Sound(r.s, r.run \union run, o, n, x, U, TRUE, D2)
          /\ Driven(r.s, r.run \union run, o)
      BY <2>7, <2>9, <3>2, BatchDones
    <3> QED
      BY <3>1, <3>3
<1>14. CASE ~IsComplete(g)
  <2>1. R # {}
    <3>1. g.pending # <<>> \/ g.running # <<>>
      BY <1>14 DEF IsComplete
    <3> QED
      BY <1>4, <3>1, ListFacts DEF FanHolds
  <2>2. PICK p : p = Progress(s.run, at)
    OBVIOUS
  <2>3. s.run \in AgentRuns
    BY <1>1 DEF AgentStates
  <2>4. p \in AgentRuns /\ p.phase # "idle" /\ (LiveRun(p) <=> LiveRun(s.run))
    BY <1>1, <2>2, <2>3, RunProgresses DEF LiveRun
  <2>5. PICK t : t = [f EXCEPT !.ladder = a.s, !.run = p]
    OBVIOUS
  <2>6. /\ t \in AgentStates /\ t.tools = g /\ t.conv = c2 /\ t.run = p
        /\ t.ladder = a.s /\ t.failure = s.failure
    BY <1>9, <1>10, <2>4, <2>5 DEF AgentStates
  <2>7. r = Verb(t, N)
    BY <1>9, <1>10, <1>14, <2>2, <2>5 DEF AfterItem, AgentStates
  <2>8. RunsIn(t) = R /\ WaitsIn(t) = P /\ OpenIn(t) = R \union P
    BY <1>5, <2>6 DEF RunsIn, WaitsIn, OpenIn
  <2>9. ToolsFit(t)
    BY <1>4, <2>1, <2>6, <2>8 DEF ToolsFit
  <2>10. Shaped(t, U)
    BY <1>7, <2>6, <2>8, <2>9 DEF Shaped
  <2>11. Launches(s, U, D, run, t, U, D \ {k}, run2, N)
    BY <1>12, <2>6
  <2>12. PICK D2 : D2 = D \ {k}
    OBVIOUS
  <2>13. N \in SUBSET AgentIds /\ Launches(s, U, D, run, t, U, D2, run2, N)
    BY <1>6, <2>11, <2>12
  <2>14. Tallied(t, run2, o, n, x, U, TRUE, D2)
    BY <1>1, <2>6, <2>13, LaunchTallies
  <2>15. Sound(t, run2, o, n, x, U, TRUE, D2)
    BY <1>1, <2>4, <2>6, <2>10, <2>14 DEF Sound
  <2>16. Driven(t, run2, o)
    BY <2>6 DEF Driven
  <2>17. r.s = t /\ r.run \union run = run2
    BY <1>11, <2>7 DEF Verb
  <2> QED
    BY <2>12, <2>15, <2>16, <2>17
<1> QED
  BY <1>13, <1>14

\* A call that settles leaves the doomed, whether a batch waited for it or not.
LEMMA ToolSettles ==
  ASSUME NEW s, NEW run, NEW o, NEW n, NEW x, NEW U, NEW D,
         Sound(s, run, o, n, x, U, TRUE, D), NEW k \in AgentIds, NEW ok \in BOOLEAN,
         NEW stop, NEW plan \in Nat, NEW at \in Int,
         NEW r, r = SettleTool(s, k, ok, stop, plan, at)
  PROVE  /\ Sound(r.s, r.run \union run, o, n, x, U, TRUE, D \ {k})
         /\ Driven(s, run, o) => Driven(r.s, r.run \union run, o)
<1>1. /\ s \in AgentStates /\ ToolsFit(s) /\ ConvHolds(s.conv, OpenIn(s), U)
      /\ FanHolds(s.tools, RunsIn(s), WaitsIn(s)) /\ s.conv \in AgentConvs
      /\ s.ladder \in Ladders /\ Tallied(s, run, o, n, x, U, TRUE, D)
  BY DEF Sound, Shaped, ToolsFit, AgentStates
<1>2. Contains(s.tools.running, k) <=> k \in RunsIn(s)
  BY <1>1, ListFacts DEF FanHolds
<1>3. CASE ~Awaits(s, "tools") \/ k \notin RunsIn(s)
  <2>1. r = Verb(s, {})
    BY <1>2, <1>3 DEF SettleTool
  <2>2. r.s = s /\ r.run \union run = run
    BY <2>1 DEF Verb
  <2>3. PICK D2 : D2 = D \ {k}
    OBVIOUS
  <2>4. Sound(s, run, o, n, x, U, TRUE, D \ {k})
    BY <1>3, SettlesNothing
  <2> QED
    BY <2>2, <2>4
<1>4. CASE Awaits(s, "tools") /\ k \in RunsIn(s)
  <2>1. PICK st \in {"done", "failed"} : st = IF ok THEN "done" ELSE "failed"
    OBVIOUS
  <2>2. PICK v : v = SettleItem(s.tools, k, st, AgentWindow, FALSE)
    OBVIOUS
  <2>3. \E N \in SUBSET WaitsIn(s) :
          /\ FanHolds(v.s, (RunsIn(s) \ {k}) \union N, WaitsIn(s) \ N)
          /\ s.tools.items # <<>> => v.s.items # <<>>
    <3>1. PICK w : w = s.tools
      OBVIOUS
    <3>2. PICK R : R = RunsIn(s)
      OBVIOUS
    <3>3. PICK P : P = WaitsIn(s)
      OBVIOUS
    <3>4. PICK j \in R : j = k
      BY <1>4, <3>2
    <3>5. FanHolds(w, R, P) /\ v = SettleItem(w, j, st, AgentWindow, FALSE)
      BY <1>1, <2>2, <3>1, <3>2, <3>3, <3>4
    <3>6. \E N \in SUBSET P :
            /\ FanHolds(v.s, (R \ {j}) \union N, P \ N)
            /\ w.items # <<>> => v.s.items # <<>>
      BY <2>1, <3>4, <3>5, AgentSettles
    <3> QED
      BY <3>1, <3>2, <3>3, <3>4, <3>6
  <2>4. PICK N \in SUBSET WaitsIn(s) :
          /\ FanHolds(v.s, (RunsIn(s) \ {k}) \union N, WaitsIn(s) \ N)
          /\ s.tools.items # <<>> => v.s.items # <<>>
    BY <2>3
  <2>5. PICK g : g = v.s
    OBVIOUS
  <2>6. s.tools.items # <<>> /\ s.conv.awaiting = "tools"
    BY <1>1, <1>4 DEF ToolsFit, Awaits
  <2>7. /\ FanHolds(g, (RunsIn(s) \ {k}) \union N, WaitsIn(s) \ N) /\ g.items # <<>>
        /\ g \in AgentFans
    BY <2>4, <2>5, <2>6 DEF FanHolds
  <2>8. PICK rec : rec = Record(s, k, ok)
    OBVIOUS
  <2>9. rec \in AgentRecords /\ rec.call = k /\ rec.turn = s.conv.count
    BY <1>1, <2>8 DEF Record, AgentRecords, AgentConvs
  <2>10. PICK c2 : c2 = [s.conv EXCEPT !.records = Append(s.conv.records, rec)]
    OBVIOUS
  <2>11. c2 \in AgentConvs /\ ConvHolds(c2, OpenIn(s) \ {k}, U)
    <3>1. k \in OpenIn(s)
      BY <1>4 DEF OpenIn
    <3> QED
      BY <1>1, <2>6, <2>9, <2>10, <3>1, ConvRecords
  <2>12. c2.awaiting = "tools"
    BY <1>1, <2>6, <2>10 DEF AgentConvs
  <2>13. PICK refs : refs = IF ok THEN s.refused ELSE Append(s.refused, k)
    OBVIOUS
  <2>14. refs \in Seq(AgentIds)
    BY <1>1, <2>13 DEF AgentStates
  <2>15. PICK f : f = [s EXCEPT !.tools = g, !.refused = refs, !.conv = c2]
    OBVIOUS
  <2>16. f.tools = g /\ f.ladder = s.ladder
    BY <1>1, <2>15 DEF AgentStates
  <2>17. PICK q : q = Kept(g.running, ToSet(g.running) \ ToSet(s.tools.running))
    OBVIOUS
  <2>18. Lists(q, N)
    <3>1. PICK R : R = (RunsIn(s) \ {k}) \union N
      OBVIOUS
    <3>2. Lists(g.running, R) /\ ToSet(g.running) = R
      BY <2>7, <3>1, ListFacts DEF FanHolds
    <3>3. PICK Q : Q = R \ RunsIn(s)
      OBVIOUS
    <3>4. RunsIn(s) \intersect WaitsIn(s) = {}
      BY <1>1 DEF FanHolds
    <3>5. R \intersect Q = N
      BY <3>1, <3>3, <3>4
    <3>6. q = Kept(g.running, Q)
      BY <2>17, <3>2, <3>3 DEF RunsIn
    <3> QED
      BY <3>2, <3>5, <3>6, ListKept
  <2>19. PICK a : a = LadderLaunch(AgentTool, AgentBare, s.ladder, q, at, AgentDelay)
    OBVIOUS
  <2>20. \A j \in N \ AgentBare : s.ladder.calls[j].phase \notin LivePhases
    <3>1. \A j \in N : j \in AgentIds /\ j \in WaitsIn(s)
      BY <1>1, ListFacts DEF FanHolds
    <3>2. ASSUME NEW j \in N PROVE s.ladder.calls[j].phase = "none"
      <4>1. Tally(s, j, Plus(o, run, j), Plus(n, run, j), x[j], U, TRUE, D)
        BY <1>1, <3>1 DEF Tallied
      <4> QED
        BY <3>1, <4>1 DEF Tally, CallIs
    <3> QED
      BY <3>2 DEF LivePhases
  <2>21. LadderRan(s.ladder, a, N)
    BY <1>1, <2>18, <2>19, <2>20, LadderLaunches
  <2>22. r = AfterItem(f, a, stop, plan, at)
    <3>1. r = GoOn(f, s.tools.running, stop, plan, at)
      BY <1>1, <1>2, <1>4, <2>1, <2>2, <2>5, <2>8, <2>10, <2>13, <2>15
      DEF SettleTool, AgentStates, AgentConvs
    <3> QED
      BY <2>16, <2>17, <2>19, <3>1 DEF GoOn, ArmLaunch
  <2>23. Settling(s, g, c2, refs, f)
    BY <2>15 DEF Settling
  <2>24. /\ Sound(r.s, r.run \union run, o, n, x, U, TRUE, D \ {k})
         /\ Driven(r.s, r.run \union run, o)
    BY <1>4, <2>7, <2>11, <2>12, <2>14, <2>21, <2>22, <2>23, ItemSettles
  <2> QED
    BY <2>24
<1> QED
  BY <1>3, <1>4

\* The fewer the doomed, the more is said.
LEMMA MoreDoomed ==
  ASSUME NEW s, NEW run, NEW o, NEW n, NEW x, NEW U, NEW D, NEW D2, D \subseteq D2,
         Sound(s, run, o, n, x, U, TRUE, D)
  PROVE  Sound(s, run, o, n, x, U, TRUE, D2)
<1>1. ASSUME NEW k \in AgentIds
      PROVE  Tally(s, k, Plus(o, run, k), Plus(n, run, k), x[k], U, TRUE, D2)
  <2>1. PICK a : a = Plus(o, run, k)
    OBVIOUS
  <2>2. PICK b : b = Plus(n, run, k)
    OBVIOUS
  <2>3. PICK y : y = x[k]
    OBVIOUS
  <2>4. Tally(s, k, a, b, y, U, TRUE, D)
    BY <2>1, <2>2, <2>3 DEF Sound, Tallied
  <2>5. SameCall(s.ladder, s.ladder, k)
    BY DEF SameCall
  <2>6. k \in RunsIn(s) \ D2 /\ Awaits(s, "tools") => k \in RunsIn(s) \ D /\ Awaits(s, "tools")
    OBVIOUS
  <2>7. Tally(s, k, a, b, y, U, TRUE, D2)
    BY <2>4, <2>5, <2>6, OtherTally
  <2> QED
    BY <2>1, <2>2, <2>3, <2>7
<1> QED
  BY <1>1 DEF Sound, Tallied

\* The verbs that are sound with these doomed.
SoundVerbs(o, n, x, U, D) ==
  {v \in [s : AgentStates, run : SUBSET AgentKeys] :
     Sound(v.s, v.run, o, n, x, U, TRUE, D)}

\* The verb w has settled k after v, where those of D were doomed.
Ordered(v, w, o, n, x, U, D, D0, k) ==
  /\ w \in SoundVerbs(o, n, x, U, D0)
  /\ Sound(w.s, w.run, o, n, x, U, TRUE, D \ {k})
  /\ Driven(v.s, v.run, o) => Driven(w.s, w.run, o)

\* The verb is sound, and fewer than D0 are doomed.
MayOrder(v, o, n, x, U, D, D0) ==
  D \subseteq D0 /\ Sound(v.s, v.run, o, n, x, U, TRUE, D)

\* The same, of what the verb is made of.
LEMMA PartOrders ==
  ASSUME NEW v, NEW s, s = v.s, NEW run, run = v.run, NEW no \in BOOLEAN,
         NEW o, NEW n, NEW x, NEW U, NEW D, NEW D0, D \subseteq D0,
         Sound(s, run, o, n, x, U, TRUE, D),
         NEW k \in AgentIds, NEW stop, NEW plan \in Nat, NEW at \in Int,
         NEW r, r = SettleTool(s, k, no, stop, plan, at), NEW w, w = And(r, run)
  PROVE  Ordered(v, w, o, n, x, U, D, D0, k)
<1>1. PICK t : t = r.s
  OBVIOUS
<1>2. PICK f : f = r.run \union run
  OBVIOUS
<1>3. PICK D2 : D2 = D \ {k}
  OBVIOUS
<1>4. /\ Sound(r.s, r.run \union run, o, n, x, U, TRUE, D \ {k})
      /\ Driven(s, run, o) => Driven(r.s, r.run \union run, o)
  BY ToolSettles
<1>5. Sound(t, f, o, n, x, U, TRUE, D2)
  BY <1>1, <1>2, <1>3, <1>4
<1>6. w = [s |-> t, run |-> f]
  BY <1>1, <1>2 DEF And, Verb
<1>7. w.s = t /\ w.run = f
  BY <1>6
<1>8. t \in AgentStates /\ f \in SUBSET AgentKeys
  BY <1>5 DEF Sound, Shaped
<1>9. w \in [s : AgentStates, run : SUBSET AgentKeys]
  BY <1>6, <1>8
<1>10. Sound(t, f, o, n, x, U, TRUE, D0)
  BY <1>3, <1>5, MoreDoomed
<1>11. Sound(w.s, w.run, o, n, x, U, TRUE, D0)
  BY <1>7, <1>10
<1>12. w \in SoundVerbs(o, n, x, U, D0)
  BY <1>9, <1>11 DEF SoundVerbs
<1>13. Driven(v.s, v.run, o) => Driven(t, f, o)
  BY <1>1, <1>2, <1>4
<1>14. Sound(w.s, w.run, o, n, x, U, TRUE, D \ {k})
  BY <1>3, <1>5, <1>7
<1> QED
  BY <1>7, <1>12, <1>13, <1>14 DEF Ordered

\* The ladder's order, one of those.
LEMMA VerbOrders ==
  ASSUME NEW v, NEW o, NEW n, NEW x, NEW U, NEW D, NEW D0, MayOrder(v, o, n, x, U, D, D0),
         NEW k \in AgentIds, NEW stop, NEW plan \in Nat, NEW at \in Int,
         NEW no \in BOOLEAN, NEW w, w = And(SettleTool(v.s, k, no, stop, plan, at), v.run)
  PROVE  Ordered(v, w, o, n, x, U, D, D0, k)
<1>1. PICK t : t = v.s
  OBVIOUS
<1>2. PICK f : f = v.run
  OBVIOUS
<1>5. PICK z : z = SettleTool(t, k, no, stop, plan, at)
  OBVIOUS
<1>3. w = And(z, f)
  BY <1>1, <1>2, <1>5
<1>4. D \subseteq D0 /\ Sound(t, f, o, n, x, U, TRUE, D)
  BY <1>1, <1>2 DEF MayOrder
<1> QED
  BY <1>1, <1>2, <1>3, <1>4, <1>5, PartOrders

\* Places are finitely many.
LEMMA PlacesFinite == \A l \in Nat : IsFiniteSet(1 .. l)
BY FS_Interval

\* All of them: none is doomed any more.
LEMMA LadderApplies ==
  ASSUME NEW s0, NEW y \in LadderSteps, NEW s, s = [s0 EXCEPT !.ladder = y.s],
         NEW run, run = y.run,
         NEW o, NEW n, NEW x, NEW U, NEW D, D \subseteq ToSet(y.settle),
         Sound(s, run, o, n, x, U, TRUE, D),
         NEW stop, NEW plan \in Nat, NEW at \in Int,
         NEW r, r = ApplyLadder(s0, y, stop, plan, at)
  PROVE  /\ Sound(r.s, r.run, o, n, x, U, TRUE, {})
         /\ Driven(s, run, o) => Driven(r.s, r.run, o)
<1>20. PICK q \in Seq(AgentIds) : q = y.settle
  BY DEF LadderSteps
<1> DEFINE S == DOMAIN q
           X == SoundVerbs(o, n, x, U, D)
           base == Verb(s, run)
           next(i, v) == And(SettleTool(v.s, q[i], FALSE, stop, plan, at), v.run)
           G == [p \in S \X X |-> next(p[1], p[2])]
           iter == CHOOSE iter : iter =
                     [T \in SUBSET S |-> IF T = {} THEN base
                        ELSE next(Max(T), iter[T \ {Max(T)}])]
<1>1. r = iter[S]
  BY <1>20 DEF ApplyLadder, FoldLeft, MapThenFoldSet
<1>2. PICK l \in Nat : l = Len(q) /\ S = 1 .. l
  BY <1>20
<1>3. base \in X /\ base.s = s /\ base.run = run
  <2>1. s \in AgentStates /\ run \in SUBSET AgentKeys /\ Sound(s, run, o, n, x, U, TRUE, D)
    BY DEF Sound, Shaped
  <2>2. base = [s |-> s, run |-> run]
    BY DEF Verb
  <2> HIDE DEF base
  <2> QED
    BY <2>1, <2>2 DEF SoundVerbs
<1>4. \A i \in S : q[i] \in AgentIds
  BY <1>2, <1>20
<1>7. ASSUME NEW i \in S, NEW v, NEW M, MayOrder(v, o, n, x, U, M, D), NEW w, w = next(i, v)
      PROVE  Ordered(v, w, o, n, x, U, M, D, q[i])
  <2>1. PICK k \in AgentIds : k = q[i]
    BY <1>4
  <2>5. PICK no \in BOOLEAN : no = FALSE
    OBVIOUS
  <2>2. w = And(SettleTool(v.s, k, no, stop, plan, at), v.run)
    BY <1>7, <2>1, <2>5
  <2>3. MayOrder(v, o, n, x, U, M, D)
    BY <1>7
  <2> HIDE DEF next, X
  <2>4. Ordered(v, w, o, n, x, U, M, D, k)
    BY <2>1, <2>2, <2>3, <2>5, VerbOrders
  <2> QED
    BY <2>1, <2>4
<1>5. \A i \in S, v \in X : next(i, v) \in X
  <2> SUFFICES ASSUME NEW i \in S, NEW v \in X, NEW w, w = next(i, v) PROVE w \in X
    OBVIOUS
  <2>1. MayOrder(v, o, n, x, U, D, D)
    BY DEF SoundVerbs, MayOrder
  <2>2. Ordered(v, w, o, n, x, U, D, D, q[i])
    <3> HIDE DEF next, X
    <3> QED
      BY <1>7, <2>1
  <2> HIDE DEF next
  <2> QED
    BY <2>2 DEF Ordered
<1>6. ASSUME NEW i \in S, NEW v, NEW M, M \subseteq D,
             Sound(v.s, v.run, o, n, x, U, TRUE, M), NEW w, w = next(i, v)
      PROVE  /\ Sound(w.s, w.run, o, n, x, U, TRUE, M \ {q[i]})
             /\ Driven(v.s, v.run, o) => Driven(w.s, w.run, o)
  <2>1. MayOrder(v, o, n, x, U, M, D)
    BY <1>6 DEF MayOrder
  <2> HIDE DEF next, X
  <2>2. Ordered(v, w, o, n, x, U, M, D, q[i])
    BY <1>6, <1>7, <2>1
  <2> QED
    BY <2>2 DEF Ordered
<1> HIDE DEF next, X, base
<1>8. \A i \in S, v \in X : G[<<i, v>>] = next(i, v)
  BY <1>5
<1>9. G \in [(1 .. l) \X X -> X]
  BY <1>2, <1>5
<1> HIDE DEF G
<1>10. PICK f \in [SUBSET S -> X] : \A T \in SUBSET S :
         f[T] = IF T = {} THEN base ELSE G[<<Max(T), f[T \ {Max(T)}]>>]
  <2>1. PlaceFoldings(1 .. l, X, base, G) # {}
    BY <1>2, <1>3, <1>9, PlacesFold
  <2> QED
    BY <1>2, <2>1 DEF PlaceFoldings
<1>11. \A T \in SUBSET S : T # {} => Max(T) \in T
  BY <1>2, LastOfPlaces
<1> HIDE DEF S
<1>12. f = [T \in SUBSET S |-> IF T = {} THEN base ELSE next(Max(T), f[T \ {Max(T)}])]
  <2>1. \A T \in SUBSET S : T # {} => f[T] = next(Max(T), f[T \ {Max(T)}])
    <3> SUFFICES ASSUME NEW T \in SUBSET S, T # {}
                 PROVE  f[T] = next(Max(T), f[T \ {Max(T)}])
      OBVIOUS
    <3>1. PICK i \in S : i = Max(T)
      BY <1>11
    <3>2. f[T \ {i}] \in X
      BY <1>10
    <3>3. f[T] = G[<<i, f[T \ {i}]>>]
      BY <1>10, <3>1
    <3>4. G[<<i, f[T \ {i}]>>] = next(i, f[T \ {i}])
      BY <1>8, <3>1, <3>2
    <3> QED
      BY <3>1, <3>3, <3>4
  <2> QED
    BY <1>10, <2>1
<1>13. iter = [T \in SUBSET S |-> IF T = {} THEN base
                 ELSE next(Max(T), iter[T \ {Max(T)}])]
  BY <1>12
<1> HIDE DEF iter
<1> DEFINE Of(T) == {q[i] : i \in T}
           Fits(v, M) == /\ Sound(v.s, v.run, o, n, x, U, TRUE, M)
                         /\ Driven(s, run, o) => Driven(v.s, v.run, o)
           P == {T \in SUBSET S : Fits(iter[T], D \ Of(T))}
<1>14. {} \in P
  <2>1. iter[{}] = base /\ D \ Of({}) = D
    BY <1>13
  <2>2. Fits(base, D)
    BY <1>3
  <2> HIDE DEF Fits, Of
  <2> QED
    BY <2>1, <2>2
<1>15. \A T \in SUBSET S : T # {} => \E i \in T : T \ {i} \in P => T \in P
  <2> SUFFICES ASSUME NEW T \in SUBSET S, T # {}
               PROVE  \E i \in T : T \ {i} \in P => T \in P
    OBVIOUS
  <2>1. PICK i \in T : i = Max(T)
    BY <1>11
  <2>2. PICK v : v = iter[T \ {i}]
    OBVIOUS
  <2>3. PICK w : w = iter[T]
    OBVIOUS
  <2>4. w = next(i, v)
    BY <1>13, <2>1, <2>2, <2>3
  <2>5. PICK M : M = D \ Of(T \ {i})
    OBVIOUS
  <2>6. M \subseteq D /\ M \ {q[i]} = D \ Of(T)
    BY <2>1, <2>5
  <2>7. ASSUME T \ {i} \in P PROVE T \in P
    <3>1. Fits(v, M)
      BY <2>2, <2>5, <2>7
    <3>2. /\ Sound(w.s, w.run, o, n, x, U, TRUE, M \ {q[i]})
          /\ Driven(v.s, v.run, o) => Driven(w.s, w.run, o)
      <4>1. i \in S /\ Sound(v.s, v.run, o, n, x, U, TRUE, M)
        BY <2>1, <3>1
      <4> QED
        BY <1>6, <2>4, <2>6, <4>1
    <3>3. Fits(w, M \ {q[i]})
      BY <3>1, <3>2
    <3> HIDE DEF Fits, Of
    <3> QED
      BY <2>3, <2>6, <3>3
  <2> QED
    BY <2>7
<1> HIDE DEF P
<1>16. \A T \in SUBSET S : T \in P
  <2>1. IsFiniteSet(S)
    BY <1>2, PlacesFinite
  <2> QED
    BY <1>14, <1>15, <2>1, SubsetInduction
<1>17. Fits(iter[S], D \ Of(S))
  <2> HIDE DEF Fits, Of
  <2> QED
    BY <1>16 DEF P
<1>18. D \ Of(S) = {}
  BY <1>20 DEF ToSet, S
<1> HIDE DEF Of
<1> QED
  BY <1>1, <1>17, <1>18

-----------------------------------------------------------------------------
(* A turn of the brain.                                                    *)

\* The verb is sound, and what it awaits is on its way.
Fair(r, o, n, x, U) ==
  Sound(r.s, r.run, o, n, x, U, TRUE, {}) /\ Driven(r.s, r.run, o)

\* Between two Msgs.
Ready(s, o, n, x, U) == Sound(s, {}, o, n, x, U, TRUE, {})

\* What is known of the state between two Msgs.
LEMMA ReadyIs ==
  ASSUME NEW s, NEW o, NEW n, NEW x, NEW U, Ready(s, o, n, x, U)
  PROVE  /\ s \in AgentStates /\ ToolsFit(s) /\ ConvHolds(s.conv, OpenIn(s), U)
         /\ FanHolds(s.tools, RunsIn(s), WaitsIn(s)) /\ s.conv \in AgentConvs
         /\ s.run \in AgentRuns /\ s.run.phase # "idle" /\ s.ladder \in Ladders
         /\ s.llm \in AgentSlices({"brain"}) /\ s.compaction \in AgentSlices({"compact"})
         /\ Tallied(s, {}, o, n, x, U, TRUE, {}) /\ Books(o, n, x)
         /\ s.conv.awaiting # "tools" =>
              FanHolds(s.tools, {}, {}) /\ ConvHolds(s.conv, {}, U)
<1>1. /\ s \in AgentStates /\ ToolsFit(s) /\ ConvHolds(s.conv, OpenIn(s), U)
      /\ FanHolds(s.tools, RunsIn(s), WaitsIn(s)) /\ s.conv \in AgentConvs
      /\ s.run \in AgentRuns /\ s.run.phase # "idle" /\ s.ladder \in Ladders
      /\ s.llm \in AgentSlices({"brain"}) /\ s.compaction \in AgentSlices({"compact"})
      /\ Tallied(s, {}, o, n, x, U, TRUE, {}) /\ Books(o, n, x)
  BY DEF Ready, Sound, Shaped, ToolsFit, AgentStates
<1>2. s.conv.awaiting # "tools" => OpenIn(s) = {} /\ FanHolds(s.tools, {}, {})
  BY <1>1, NothingOpen
<1> QED
  BY <1>1, <1>2

\* The model asks for nothing: the next stage, or the end.
LEMMA StageAdvances ==
  ASSUME NEW s, NEW o, NEW n, NEW x, NEW U, Ready(s, o, n, x, U), Awaits(s, "llm"),
         NEW c \in AgentConvs, NEW told, told = [s EXCEPT !.conv = c],
         NEW at \in Int, NEW U2, U \subseteq U2, NEW r, r = AdvanceStage(told, at)
  PROVE  Fair(r, o, n, x, U2)
<1>1. /\ s \in AgentStates /\ s.run \in AgentRuns /\ s.run.phase # "idle"
      /\ Tallied(s, {}, o, n, x, U, TRUE, {}) /\ Books(o, n, x)
      /\ FanHolds(s.tools, {}, {})
  BY ReadyIs DEF Awaits
<1>2. PICK g : g = Advance(s.run, at)
  OBVIOUS
<1>3. g \in AgentRuns /\ (g.phase = "done" \/ g.phase = s.run.phase)
  BY <1>1, <1>2, RunAdvances
<1>4. told.run = s.run
  BY <1>1 DEF AgentStates
<1>5. CASE g.phase = "done"
  <2>1. PICK t : t = [s EXCEPT !.run = g, !.conv = NoConv, !.output = TRUE]
    OBVIOUS
  <2>2. r = Verb(t, {})
    BY <1>1, <1>2, <1>4, <1>5, <2>1 DEF AdvanceStage, AgentStates
  <2>3. /\ t \in AgentStates /\ t.tools = s.tools /\ t.ladder = s.ladder
        /\ t.conv = NoConv /\ t.run = g
    BY <1>1, <1>3, <2>1, NewConvs DEF AgentStates
  <2>4. IsSettled(t)
    BY <1>5, <2>3 DEF IsSettled
  <2>5. /\ FanHolds(t.tools, {}, {}) /\ ConvHolds(t.conv, {}, U2)
        /\ t.conv.awaiting # "tools" /\ t.run.phase # "idle"
        /\ (~IsSettled(t) => t.conv.awaiting # "none")
    BY <1>1, <1>5, <2>3, <2>4, NewConvs
  <2>6. PICK run \in SUBSET AgentKeys : run = {}
    OBVIOUS
  <2>7. Tallied(s, run, o, n, x, U, TRUE, {}) /\ (\A k \in AgentIds : k \in run <=> k \in run)
    BY <1>1, <2>6
  <2>8. Sound(t, run, o, n, x, U2, TRUE, {})
    BY <1>1, <2>3, <2>5, <2>7, SoundWithoutTools
  <2>9. Driven(t, run, o)
    BY <2>4, SettledIsDriven
  <2>10. r.s = t /\ r.run = run
    BY <2>2, <2>6 DEF Verb
  <2> QED
    BY <2>8, <2>9, <2>10 DEF Fair
<1>6. CASE g.phase # "done"
  <2>1. PICK t : t = [s EXCEPT !.run = g, !.conv = FreshConv, !.tools = InitFan]
    OBVIOUS
  <2>2. r = FireBrain(t, at)
    BY <1>1, <1>2, <1>4, <1>6, <2>1 DEF AdvanceStage, AgentStates
  <2>3. /\ t \in AgentStates /\ t.tools = InitFan /\ t.ladder = s.ladder
        /\ t.conv = FreshConv /\ t.run = g
    BY <1>1, <1>3, <2>1, NewConvs, NewFan DEF AgentStates, FanHolds
  <2>4. /\ FanHolds(t.tools, {}, {}) /\ ConvHolds(t.conv, {}, U2)
        /\ t.conv.awaiting = "llm" /\ t.run.phase # "idle"
    BY <1>1, <1>3, <1>6, <2>3, NewConvs, NewFan
  <2>5. PICK run \in SUBSET AgentKeys : run = {}
    OBVIOUS
  <2>6. Tallied(s, run, o, n, x, U, TRUE, {}) /\ run \subseteq AgentKeys
    BY <1>1, <2>5
  <2>7. /\ Sound(r.s, r.run \union run, o, n, x, U2, TRUE, {})
        /\ Driven(r.s, r.run \union run, o)
    BY <1>1, <2>2, <2>3, <2>4, <2>6, FiresSound
  <2>8. r.run \union run = r.run
    BY <2>5
  <2> QED
    BY <2>7, <2>8 DEF Fair
<1> QED
  BY <1>5, <1>6

\* The model asks for the tools of N, of which those of M are started.
LEMMA TurnLaunches ==
  ASSUME NEW s, NEW o, NEW n, NEW x, NEW U, Ready(s, o, n, x, U), Awaits(s, "llm"),
         NEW q, NEW N, Lists(q, N), N \intersect U = {}, NEW U2, U \union N \subseteq U2,
         NEW M \in SUBSET N, M # {},
         NEW g, FanHolds(g, M, N \ M), g.items # <<>>,
         NEW a, LadderRan(s.ladder, a, M),
         NEW d, d = [s.conv EXCEPT !.turns = Append(s.conv.turns, q), !.awaiting = "tools"],
         NEW run \in AgentRuns, run.phase # "idle",
         NEW t, t = [s EXCEPT !.conv = d, !.tools = g, !.ladder = a.s, !.run = run]
  PROVE  Sound(t, a.run, o, n, x, U2, TRUE, {}) /\ Driven(t, a.run, o)
<1>1. /\ s \in AgentStates /\ s.conv \in AgentConvs /\ s.conv.awaiting = "llm"
      /\ Tallied(s, {}, o, n, x, U, TRUE, {}) /\ Books(o, n, x)
      /\ ConvHolds(s.conv, {}, U)
  BY ReadyIs DEF Awaits
<1>2. d \in AgentConvs /\ d.awaiting = "tools" /\ ConvHolds(d, N, U2)
  <2>1. PICK c : c = s.conv
    OBVIOUS
  <2>2. /\ c \in AgentConvs /\ ConvHolds(c, {}, U) /\ c.awaiting = "llm"
        /\ d = [c EXCEPT !.turns = Append(c.turns, q), !.awaiting = "tools"]
        /\ U \intersect N = {} /\ Lists(q, N) /\ U \union N \subseteq U2
    BY <1>1, <2>1
  <2> QED
    BY ONLY <2>2, ConvTurns
<1>3. a.s \in Ladders /\ a.run = M /\ M \subseteq AgentIds
  <2>1. N \subseteq AgentIds
    BY ListFacts
  <2> QED
    BY <2>1 DEF LadderRan, LadderSteps
<1>4. /\ t \in AgentStates /\ t.tools = g /\ t.conv = d /\ t.ladder = a.s /\ t.run = run
  BY <1>1, <1>2, <1>3 DEF AgentStates, FanHolds
<1>5. RunsIn(t) = M /\ WaitsIn(t) = N \ M /\ OpenIn(t) = N
  <2>1. ToSet(g.running) = M /\ ToSet(g.pending) = N \ M
    BY ListFacts DEF FanHolds
  <2> QED
    BY <1>4, <2>1 DEF RunsIn, WaitsIn, OpenIn
<1>6. Shaped(t, U2)
  BY <1>2, <1>4, <1>5 DEF Shaped, ToolsFit
<1>7. Tallied(t, a.run, o, n, x, U2, TRUE, {})
  <2>1. Launches(s, U, {}, {}, t, U2, {}, a.run, M)
    BY <1>3, <1>5 DEF Launches
  <2>2. /\ Tallied(s, {}, o, n, x, U, TRUE, {}) /\ Books(o, n, x)
        /\ LadderRan(s.ladder, a, M) /\ t.ladder = a.s
    BY <1>1, <1>4
  <2> QED
    BY <1>3, <2>1, <2>2, LaunchTallies
<1>8. a.run \subseteq AgentKeys
  BY <1>3, AgentFacts
<1>9. Sound(t, a.run, o, n, x, U2, TRUE, {})
  BY <1>1, <1>4, <1>6, <1>7, <1>8 DEF Sound
<1>10. Driven(t, a.run, o)
  BY <1>2, <1>4 DEF Driven
<1> QED
  BY <1>9, <1>10

\* The model answers.
LEMMA TurnFair ==
  ASSUME NEW s, NEW o, NEW n, NEW x, NEW U, Ready(s, o, n, x, U), Awaits(s, "llm"),
         NEW calls, NEW N, Lists(DedupeByCallId(calls), N), calls = <<>> <=> N = {},
         N \intersect U = {}, NEW U2, U \union N \subseteq U2,
         NEW at \in Int, NEW r, r = Turn(s, calls, at)
  PROVE  Fair(r, o, n, x, U2)
<1>1. /\ s \in AgentStates /\ s.conv \in AgentConvs /\ s.run \in AgentRuns
      /\ s.run.phase # "idle" /\ s.ladder \in Ladders
      /\ Tallied(s, {}, o, n, x, U, TRUE, {})
  BY ReadyIs
<1>2. PICK q : q = DedupeByCallId(calls)
  OBVIOUS
<1>3. Lists(q, N) /\ q \in Seq(AgentIds)
  BY <1>2, ListFacts
<1>4. CASE calls = <<>>
  <2>1. PICK c : c = [s.conv EXCEPT !.turns = Append(s.conv.turns, q)]
    OBVIOUS
  <2>2. c \in AgentConvs
    <3>1. PICK z : z = Append(s.conv.turns, q)
      OBVIOUS
    <3>2. z \in Seq(Seq(AgentIds))
      BY <1>1, <1>3, <3>1 DEF AgentConvs
    <3> QED
      BY <1>1, <2>1, <3>1, <3>2 DEF AgentConvs
  <2>3. PICK told : told = [s EXCEPT !.conv = c]
    OBVIOUS
  <2>4. r = AdvanceStage(told, at)
    BY <1>1, <1>2, <1>4, <2>1, <2>3 DEF Turn, AgentStates, AgentConvs
  <2>5. U \subseteq U2
    OBVIOUS
  <2> QED
    BY <2>2, <2>3, <2>4, <2>5, StageAdvances
<1>5. CASE calls # <<>>
  <2>1. PICK v : v = Scatter(InitFan, q, AgentWindow)
    OBVIOUS
  <2>2. PICK M \in SUBSET N : M # {} /\ FanHolds(v.s, M, N \ M) /\ v.s.items # <<>>
    <3>1. StartsSome(v.s, N)
      BY <1>3, <1>5, <2>1, AgentScatters
    <3> QED
      BY <3>1 DEF StartsSome
  <2>3. PICK g : g = v.s
    OBVIOUS
  <2>4. M # {} /\ FanHolds(g, M, N \ M) /\ g.items # <<>>
    BY <2>2, <2>3
  <2>5. PICK p : p = Kept(g.running, ToSet(g.running) \ ToSet(<<>>))
    OBVIOUS
  <2>6. Lists(p, M)
    <3>1. Lists(g.running, M) /\ ToSet(g.running) = M
      BY <2>4, ListFacts DEF FanHolds
    <3>2. PICK Q : Q = ToSet(g.running) \ ToSet(<<>>)
      OBVIOUS
    <3>3. M \intersect Q = M
      BY <3>1, <3>2 DEF ToSet
    <3>4. p = Kept(g.running, Q)
      BY <2>5, <3>2
    <3> QED
      BY <3>1, <3>3, <3>4, ListKept
  <2>7. PICK a : a = LadderLaunch(AgentTool, AgentBare, s.ladder, p, at, AgentDelay)
    OBVIOUS
  <2>8. \A j \in M \ AgentBare : s.ladder.calls[j].phase \notin LivePhases
    <3>1. ASSUME NEW j \in M PROVE s.ladder.calls[j].phase = "none"
      <4>1. j \in AgentIds /\ j \notin U
        BY <1>3, <2>2, ListFacts
      <4>2. Tally(s, j, Plus(o, {}, j), Plus(n, {}, j), x[j], U, TRUE, {})
        BY <1>1, <4>1 DEF Tallied
      <4> QED
        BY <4>1, <4>2 DEF Tally, CallIs
    <3> QED
      BY <3>1 DEF LivePhases
  <2>9. LadderRan(s.ladder, a, M)
    BY <1>1, <2>6, <2>7, <2>8, LadderLaunches
  <2>10. PICK run : run = Progress(s.run, at)
    OBVIOUS
  <2>11. run \in AgentRuns /\ run.phase # "idle"
    BY <1>1, <2>10, RunProgresses DEF LiveRun
  <2>12. PICK d : d = [s.conv EXCEPT !.turns = Append(s.conv.turns, q), !.awaiting = "tools"]
    OBVIOUS
  <2>13. PICK t : t = [s EXCEPT !.conv = d, !.tools = g, !.ladder = a.s, !.run = run]
    OBVIOUS
  <2>14. r = Verb(t, a.run)
    <3>1. a = ArmLaunch(s, <<>>, g.running, at)
      BY <2>5, <2>7 DEF ArmLaunch
    <3>2. g = Scatter(InitFan, q, AgentWindow).s
      BY <2>1, <2>3
    <3> QED
      BY <1>1, <1>2, <1>5, <2>10, <2>12, <2>13, <3>1, <3>2 DEF Turn, AgentStates, AgentConvs
  <2>15. Sound(t, a.run, o, n, x, U2, TRUE, {}) /\ Driven(t, a.run, o)
    BY <1>3, <2>2, <2>4, <2>9, <2>11, <2>12, <2>13, TurnLaunches
  <2>16. r.s = t /\ r.run = a.run
    BY <2>14 DEF Verb
  <2> QED
    BY <2>15, <2>16 DEF Fair
<1> QED
  BY <1>4, <1>5

-----------------------------------------------------------------------------
(* The brain and the compaction, and what stops the run.                   *)

\* The books of the tools do not depend on the brain's count or the compaction's.
LEMMA ReadyOther ==
  ASSUME NEW s, NEW o, NEW n, NEW x, NEW U, Ready(s, o, n, x, U),
         NEW p \in [AgentKeys -> Nat], \A k \in AgentIds : p[k] = o[k]
  PROVE  Ready(s, p, n, x, U)
<1>1. /\ Shaped(s, U) /\ {} \subseteq AgentKeys /\ Books(o, n, x)
      /\ Tallied(s, {}, o, n, x, U, TRUE, {}) /\ s.run.phase # "idle"
  BY DEF Ready, Sound
<1>2. Books(p, n, x)
  BY <1>1 DEF Books
<1>3. \A k \in AgentIds : Plus(p, {}, k) = Plus(o, {}, k)
  BY DEF Plus
<1>4. Tallied(s, {}, p, n, x, U, TRUE, {})
  BY <1>1, <1>3 DEF Tallied
<1> QED
  BY <1>1, <1>2, <1>4 DEF Ready, Sound

\* The tools and the conversation stay.
LEMMA StaysFair ==
  ASSUME NEW s, NEW o, NEW n, NEW x, NEW U, Ready(s, o, n, x, U),
         NEW t \in AgentStates, t.tools = s.tools, t.conv = s.conv, t.ladder = s.ladder,
         t.run.phase # "idle", IsSettled(s) => IsSettled(t),
         NEW run \in SUBSET AgentKeys, run \intersect AgentIds = {}, Driven(t, run, o),
         NEW U2, U \subseteq U2, NEW r, r = Verb(t, run)
  PROVE  Fair(r, o, n, x, U2)
<1>1. PICK none \in SUBSET AgentKeys : none = {}
  OBVIOUS
<1>2. PICK up \in BOOLEAN : up = TRUE
  OBVIOUS
<1>3. PICK D : D = {}
  OBVIOUS
<1>4. Sound(s, none, o, n, x, U, up, D) /\ s.run.phase # "idle"
  BY <1>1, <1>2, <1>3, ReadyIs DEF Ready
<1>5. \A k \in AgentIds : k \in run <=> k \in none
  BY <1>1
<1>6. Sound(t, run, o, n, x, U, up, D)
  BY <1>4, <1>5, StaysSound
<1>7. /\ Shaped(t, U) /\ Books(o, n, x) /\ Tallied(t, run, o, n, x, U, up, D)
  BY <1>6 DEF Sound
<1>8. Tallied(t, run, o, n, x, U2, up, D)
  <2>1. /\ t.ladder = t.ladder /\ RunsIn(t) \subseteq RunsIn(t)
        /\ WaitsIn(t) \subseteq WaitsIn(t)
        /\ (\A k \in AgentIds : k \in run <=> k \in run)
        /\ (Awaits(t, "tools") => Awaits(t, "tools") /\ (up => up))
    OBVIOUS
  <2> QED
    BY <1>7, <2>1, TalliesSame
<1>9. Shaped(t, U2)
  <2>1. ConvHolds(t.conv, OpenIn(t), U)
    BY <1>7 DEF Shaped
  <2>2. ConvHolds(t.conv, OpenIn(t), U2)
    BY <2>1, ConvGrows
  <2> QED
    BY <1>7, <2>2 DEF Shaped
<1>10. Sound(t, run, o, n, x, U2, up, D)
  BY <1>7, <1>8, <1>9 DEF Sound
<1>11. r.s = t /\ r.run = run
  BY DEF Verb
<1> QED
  BY <1>2, <1>3, <1>10, <1>11 DEF Fair

\* The model answers, whether the run waits for it or not.
LEMMA BrainOkFair ==
  ASSUME NEW s, NEW o, NEW n, NEW x, NEW U, Ready(s, o, n, x, U),
         NEW p, Driven(s, {}, p), p["compact"] = o["compact"],
         NEW calls, NEW N, Lists(DedupeByCallId(calls), N), calls = <<>> <=> N = {},
         N \intersect U = {}, NEW U2, U \union N \subseteq U2,
         NEW at \in Int, NEW r, r = BrainOkVerb(s, calls, at)
  PROVE  Fair(r, o, n, x, U2)
<1>1. s \in AgentStates /\ s.run.phase # "idle" /\ s.llm \in AgentSlices({"brain"})
  BY ReadyIs
<1>2. PICK l : l = SettleOk(AgentBrain, s.llm, "brain", at)
  OBVIOUS
<1>3. l \in AgentSlices({"brain"})
  BY <1>1, <1>2, AgentFacts, OwnSliceSettles
<1>4. PICK t : t = [s EXCEPT !.llm = l]
  OBVIOUS
<1>5. /\ t \in AgentStates /\ t.tools = s.tools /\ t.conv = s.conv /\ t.ladder = s.ladder
      /\ t.run = s.run /\ t.failure = s.failure /\ t.compaction = s.compaction
  BY <1>1, <1>3, <1>4 DEF AgentStates
<1>6. r = Turn(t, calls, at)
  BY <1>1, <1>2, <1>4 DEF BrainOkVerb, AgentStates
<1>7. IsSettled(t) <=> IsSettled(s)
  BY <1>5 DEF IsSettled
<1>8. CASE Awaits(t, "llm")
  <2>1. Ready(t, o, n, x, U)
    <3>1. PICK up \in BOOLEAN : up = TRUE
      OBVIOUS
    <3>2. PICK none \in SUBSET AgentKeys : none = {}
      OBVIOUS
    <3>3. PICK D : D = {}
      OBVIOUS
    <3>4. /\ Sound(s, none, o, n, x, U, up, D) /\ s.run.phase # "idle"
          /\ t.run.phase # "idle" /\ (IsSettled(s) => IsSettled(t))
          /\ (\A k \in AgentIds : k \in none <=> k \in none)
      BY <1>1, <1>5, <1>7, <3>1, <3>2, <3>3 DEF Ready
    <3>5. Sound(t, none, o, n, x, U, up, D)
      BY <1>5, <3>4, StaysSound
    <3> QED
      BY <3>1, <3>2, <3>3, <3>5 DEF Ready
  <2> QED
    BY <1>6, <1>8, <2>1, TurnFair
<1>9. CASE ~Awaits(t, "llm")
  <2>1. PICK run \in SUBSET AgentKeys : run = {}
    OBVIOUS
  <2>2. r = Verb(t, run)
    BY <1>6, <1>9, <2>1 DEF Turn
  <2>3. Driven(t, run, o)
    BY <1>5, <1>7, <1>9, <2>1 DEF Driven, Awaits
  <2>4. run \intersect AgentIds = {} /\ U \subseteq U2 /\ t.run.phase # "idle"
    BY <1>1, <1>5, <2>1
  <2> QED
    BY <1>5, <1>7, <2>2, <2>3, <2>4, StaysFair
<1> QED
  BY <1>8, <1>9

\* The brain fails.
LEMMA BrainErrFair ==
  ASSUME NEW s, NEW o, NEW n, NEW x, NEW U, Ready(s, o, n, x, U),
         NEW p, Driven(s, {}, p), p["compact"] = o["compact"],
         NEW at \in Int, NEW r, r = BrainErrVerb(s, at)
  PROVE  Fair(r, o, n, x, U)
<1>1. s \in AgentStates /\ s.run.phase # "idle" /\ s.llm \in AgentSlices({"brain"})
  BY ReadyIs
<1>2. PICK l : l = SettleErr(AgentBrain, s.llm, "brain", at, AgentDelay)
  OBVIOUS
<1>3. l \in AgentSlices({"brain"}) /\ l.calls["brain"].phase \in {"waiting_retry", "failed"}
  BY <1>1, <1>2, AgentFacts, OwnSliceSettles
<1>4. PICK f : f = IF l.calls["brain"].phase = "failed" THEN "llm" ELSE s.failure
  OBVIOUS
<1>5. f \in {"none", "llm", "turn_limit", "elapsed_limit"}
  BY <1>1, <1>4 DEF AgentStates
<1>6. PICK t : t = [s EXCEPT !.llm = l, !.failure = f]
  OBVIOUS
<1>7. /\ t \in AgentStates /\ t.tools = s.tools /\ t.conv = s.conv /\ t.ladder = s.ladder
      /\ t.run = s.run /\ t.failure = f /\ t.compaction = s.compaction /\ t.llm = l
  BY <1>1, <1>3, <1>5, <1>6 DEF AgentStates
<1>8. PICK run \in SUBSET AgentKeys : run = {}
  OBVIOUS
<1>9. r = Verb(t, run)
  BY <1>1, <1>2, <1>4, <1>6, <1>8 DEF BrainErrVerb, AgentStates
<1>10. IsSettled(s) => IsSettled(t)
  BY <1>4, <1>7 DEF IsSettled
<1>11. Driven(t, run, o)
  <2>1. CASE l.calls["brain"].phase = "failed"
    BY <1>4, <1>7, <2>1, SettledIsDriven DEF IsSettled
  <2>2. CASE l.calls["brain"].phase = "waiting_retry"
    BY <1>7, <1>8, <1>10, <2>2 DEF Driven
  <2> QED
    BY <1>3, <2>1, <2>2
<1>12. run \intersect AgentIds = {} /\ U \subseteq U /\ t.run.phase # "idle"
  BY <1>1, <1>7, <1>8
<1> QED
  BY <1>7, <1>9, <1>10, <1>11, <1>12, StaysFair

\* The brain is fired from a state without tools.
LEMMA FiresFair ==
  ASSUME NEW s, NEW o, NEW n, NEW x, NEW U, Ready(s, o, n, x, U),
         s.conv.awaiting # "tools", NEW t \in AgentStates, t.tools = s.tools,
         t.ladder = s.ladder, t.run = s.run,
         ConvHolds(t.conv, {}, U), t.conv.awaiting = "llm",
         NEW at \in Int, NEW r, r = FireBrain(t, at)
  PROVE  Fair(r, o, n, x, U)
<1>1. /\ s.run.phase # "idle" /\ Tallied(s, {}, o, n, x, U, TRUE, {}) /\ Books(o, n, x)
      /\ FanHolds(s.tools, {}, {})
  BY ReadyIs
<1>2. PICK run : run = {}
  OBVIOUS
<1>3. /\ Tallied(s, run, o, n, x, U, TRUE, {}) /\ run \subseteq AgentKeys
      /\ FanHolds(t.tools, {}, {}) /\ t.run.phase # "idle" /\ U \subseteq U
  BY <1>1, <1>2
<1>4. /\ Sound(r.s, r.run \union run, o, n, x, U, TRUE, {})
      /\ Driven(r.s, r.run \union run, o)
  BY <1>1, <1>3, FiresSound
<1>5. r.run \union run = r.run
  BY <1>2
<1> QED
  BY <1>4, <1>5 DEF Fair

\* The summary arrives.
LEMMA CompactOkFair ==
  ASSUME NEW s, NEW o, NEW n, NEW x, NEW U, Ready(s, o, n, x, U),
         NEW p, Driven(s, {}, p), p["brain"] = o["brain"],
         NEW at \in Int, NEW r, r = CompactOkVerb(s, at)
  PROVE  Fair(r, o, n, x, U)
<1>1. /\ s \in AgentStates /\ s.run.phase # "idle"
      /\ s.compaction \in AgentSlices({"compact"}) /\ s.conv \in AgentConvs
  BY ReadyIs
<1>2. PICK l : l = SettleOk(AgentCompact, s.compaction, "compact", at)
  OBVIOUS
<1>3. l \in AgentSlices({"compact"})
  BY <1>1, <1>2, AgentFacts, OwnSliceSettles
<1>4. PICK t : t = [s EXCEPT !.compaction = l]
  OBVIOUS
<1>5. /\ t \in AgentStates /\ t.tools = s.tools /\ t.conv = s.conv /\ t.ladder = s.ladder
      /\ t.run = s.run /\ t.failure = s.failure /\ t.llm = s.llm
  BY <1>1, <1>3, <1>4 DEF AgentStates
<1>6. IsSettled(t) <=> IsSettled(s)
  BY <1>5 DEF IsSettled
<1>7. CASE Awaits(s, "compacting")
  <2>1. s.conv.awaiting = "compacting" /\ ConvHolds(s.conv, {}, U)
    BY <1>7, ReadyIs DEF Awaits
  <2>2. PICK d : d = FoldSummary(s.conv)
    OBVIOUS
  <2>3. d \in AgentConvs /\ d.awaiting = "llm" /\ ConvHolds(d, {}, U)
    BY <1>1, <2>1, <2>2, ConvFolds
  <2>4. PICK w : w = [t EXCEPT !.conv = d]
    OBVIOUS
  <2>5. /\ w \in AgentStates /\ w.tools = s.tools /\ w.ladder = s.ladder /\ w.run = s.run
        /\ w.conv = d
    BY <1>5, <2>3, <2>4 DEF AgentStates
  <2>6. r = FireBrain(w, at)
    BY <1>1, <1>2, <1>4, <1>5, <1>7, <2>2, <2>4 DEF CompactOkVerb, AgentStates
  <2>7. s.conv.awaiting # "tools" /\ ConvHolds(w.conv, {}, U) /\ w.conv.awaiting = "llm"
    BY <2>1, <2>3, <2>5
  <2> QED
    BY <2>5, <2>6, <2>7, FiresFair
<1>8. CASE ~Awaits(s, "compacting")
  <2>1. PICK run \in SUBSET AgentKeys : run = {}
    OBVIOUS
  <2>2. r = Verb(t, run)
    BY <1>1, <1>2, <1>4, <1>8, <2>1 DEF CompactOkVerb, AgentStates
  <2>3. Driven(t, run, o)
    BY <1>5, <1>6, <1>8, <2>1 DEF Driven, Awaits
  <2>4. run \intersect AgentIds = {} /\ U \subseteq U /\ t.run.phase # "idle"
    BY <1>1, <1>5, <2>1
  <2> QED
    BY <1>5, <1>6, <2>2, <2>3, <2>4, StaysFair
<1> QED
  BY <1>7, <1>8

\* A summary that fails.
LEMMA CompactErrFair ==
  ASSUME NEW s, NEW o, NEW n, NEW x, NEW U, Ready(s, o, n, x, U),
         NEW p, Driven(s, {}, p), p["brain"] = o["brain"],
         NEW at \in Int, NEW r, r = CompactErrVerb(s, at)
  PROVE  Fair(r, o, n, x, U)
<1>1. /\ s \in AgentStates /\ s.run.phase # "idle"
      /\ s.compaction \in AgentSlices({"compact"}) /\ s.conv \in AgentConvs
  BY ReadyIs
<1>2. PICK l : l = SettleErr(AgentCompact, s.compaction, "compact", at, AgentDelay)
  OBVIOUS
<1>3. l \in AgentSlices({"compact"})
  BY <1>1, <1>2, AgentFacts, OwnSliceSettles
<1>4. PICK t : t = [s EXCEPT !.compaction = l]
  OBVIOUS
<1>5. /\ t \in AgentStates /\ t.tools = s.tools /\ t.conv = s.conv /\ t.ladder = s.ladder
      /\ t.run = s.run /\ t.failure = s.failure /\ t.llm = s.llm /\ t.compaction = l
  BY <1>1, <1>3, <1>4 DEF AgentStates
<1>6. IsSettled(t) <=> IsSettled(s)
  BY <1>5 DEF IsSettled
<1>7. CASE l.calls["compact"].phase # "waiting_retry" /\ Awaits(s, "compacting")
  <2>1. s.conv.awaiting = "compacting" /\ ConvHolds(s.conv, {}, U)
    BY <1>7, ReadyIs DEF Awaits
  <2>2. PICK d : d = [s.conv EXCEPT !.awaiting = "llm", !.folding = 0]
    OBVIOUS
  <2>3. /\ d \in AgentConvs /\ d.awaiting = "llm" /\ d.turns = s.conv.turns
        /\ d.records = s.conv.records /\ d.count = s.conv.count
    BY <1>1, <2>2 DEF AgentConvs
  <2>4. ConvHolds(d, {}, U)
    BY <2>1, <2>3 DEF ConvHolds, Answer
  <2>5. PICK w : w = [t EXCEPT !.conv = d]
    OBVIOUS
  <2>6. /\ w \in AgentStates /\ w.tools = s.tools /\ w.ladder = s.ladder /\ w.run = s.run
        /\ w.conv = d
    BY <1>5, <2>3, <2>5 DEF AgentStates
  <2>7. r = FireBrain(w, at)
    BY <1>1, <1>2, <1>4, <1>5, <1>7, <2>2, <2>5 DEF CompactErrVerb, AgentStates, AgentConvs
  <2>8. s.conv.awaiting # "tools" /\ ConvHolds(w.conv, {}, U) /\ w.conv.awaiting = "llm"
    BY <2>1, <2>3, <2>4, <2>6
  <2> QED
    BY <2>6, <2>7, <2>8, FiresFair
<1>8. CASE l.calls["compact"].phase = "waiting_retry" \/ ~Awaits(s, "compacting")
  <2>1. PICK run \in SUBSET AgentKeys : run = {}
    OBVIOUS
  <2>2. r = Verb(t, run)
    BY <1>1, <1>2, <1>4, <1>8, <2>1 DEF CompactErrVerb, AgentStates
  <2>3. Driven(t, run, o)
    BY <1>5, <1>6, <1>8, <2>1 DEF Driven, Awaits
  <2>4. run \intersect AgentIds = {} /\ U \subseteq U /\ t.run.phase # "idle"
    BY <1>1, <1>5, <2>1
  <2> QED
    BY <1>5, <1>6, <2>2, <2>3, <2>4, StaysFair
<1> QED
  BY <1>7, <1>8

\* Somebody cancels.
LEMMA CancelFair ==
  ASSUME NEW s, NEW o, NEW n, NEW x, NEW U, Ready(s, o, n, x, U),
         NEW r, r = CancelAgent(s)
  PROVE  Fair(r, o, n, x, U)
<1>1. s \in AgentStates /\ s.run \in AgentRuns
  BY ReadyIs
<1>2. PICK g : g = CancelRun(s.run)
  OBVIOUS
<1>3. g \in AgentRuns /\ ~LiveRun(g) /\ g.phase # "idle"
  BY <1>1, <1>2, RunCancels
<1>4. PICK t : t = [s EXCEPT !.run = g]
  OBVIOUS
<1>5. /\ t \in AgentStates /\ t.tools = s.tools /\ t.conv = s.conv /\ t.ladder = s.ladder
      /\ t.run = g
  BY <1>1, <1>3, <1>4 DEF AgentStates
<1>6. PICK run \in SUBSET AgentKeys : run = {}
  OBVIOUS
<1>7. IsSettled(t)
  BY <1>3, <1>5, PhaseOf
<1>8. r = Verb(t, run)
  BY <1>1, <1>2, <1>4, <1>6 DEF CancelAgent, AgentStates
<1>9. /\ run \intersect AgentIds = {} /\ U \subseteq U /\ t.run.phase # "idle"
      /\ Driven(t, run, o) /\ (IsSettled(s) => IsSettled(t))
  BY <1>3, <1>5, <1>6, <1>7, SettledIsDriven
<1> QED
  BY <1>5, <1>8, <1>9, StaysFair

\* The run's own alarm rings.
LEMMA SafetyFair ==
  ASSUME NEW s, NEW o, NEW n, NEW x, NEW U, Ready(s, o, n, x, U), Driven(s, {}, o),
         NEW id, NEW seq, NEW g, g = OnDeadline(s.run, id, seq),
         NEW r, r = Verb([s EXCEPT !.run = g], {})
  PROVE  Fair(r, o, n, x, U)
<1>1. s \in AgentStates /\ s.run \in AgentRuns /\ s.run.phase # "idle"
  BY ReadyIs
<1>2. g \in AgentRuns /\ (g = s.run \/ g.phase = "failed")
  BY <1>1, RunAlarms
<1>3. PICK t : t = [s EXCEPT !.run = g]
  OBVIOUS
<1>4. /\ t \in AgentStates /\ t.tools = s.tools /\ t.conv = s.conv /\ t.ladder = s.ladder
      /\ t.run = g /\ t.llm = s.llm /\ t.compaction = s.compaction /\ t.failure = s.failure
  BY <1>1, <1>2, <1>3 DEF AgentStates
<1>5. PICK run \in SUBSET AgentKeys : run = {}
  OBVIOUS
<1>6. IsSettled(s) => IsSettled(t)
  BY <1>2, <1>4 DEF IsSettled
<1>7. Driven(t, run, o)
  BY <1>4, <1>5, <1>6 DEF Driven
<1>8. r = Verb(t, run)
  BY <1>3, <1>5
<1>9. run \intersect AgentIds = {} /\ U \subseteq U /\ t.run.phase # "idle"
  BY <1>1, <1>2, <1>4, <1>5
<1> QED
  BY <1>4, <1>6, <1>7, <1>8, <1>9, StaysFair

\* A timer of the brain rings.
LEMMA BrainRings ==
  ASSUME NEW s, NEW o, NEW n, NEW x, NEW U, Ready(s, o, n, x, U), Driven(s, {}, o),
         NEW t, t.key = "brain", t.at \in Int, t.kind # "deadline",
         NEW a, a = OnTimer(AgentBrain, s.llm, t, AgentDelay),
         NEW r, r = InBrain(s, a)
  PROVE  Fair(r, o, n, x, U)
<1>1. s \in AgentStates /\ s.run.phase # "idle" /\ s.llm \in AgentSlices({"brain"})
  BY ReadyIs
<1>2. /\ a.s \in AgentSlices({"brain"})
      /\ (a.run = {"brain"} \/ (a.run = {} /\ a.s = s.llm))
  <2>1. PICK e : e = s.llm
    OBVIOUS
  <2>2. PICK k : k = "brain"
    OBVIOUS
  <2>3. PICK c : c = AgentBrain
    OBVIOUS
  <2>4. /\ e \in AgentSlices({k}) /\ RetryOnly(c) /\ c.deadline = 0 /\ t.key = k
        /\ t.at \in Int /\ t.kind # "deadline" /\ a = OnTimer(c, e, t, AgentDelay)
    BY <1>1, <2>1, <2>2, <2>3, AgentFacts
  <2>5. a.s \in AgentSlices({k}) /\ (a.run = {k} \/ (a.run = {} /\ a.s = e))
    BY ONLY <2>4, OwnSliceRings
  <2> QED
    BY <2>1, <2>2, <2>5
<1>3. PICK w : w = [s EXCEPT !.llm = a.s]
  OBVIOUS
<1>4. /\ w \in AgentStates /\ w.tools = s.tools /\ w.conv = s.conv /\ w.ladder = s.ladder
      /\ w.run = s.run /\ w.llm = a.s /\ w.compaction = s.compaction
      /\ w.failure = s.failure
  BY <1>1, <1>2, <1>3 DEF AgentStates
<1>5. PICK run \in SUBSET AgentKeys : run = a.run
  BY <1>2, AgentFacts
<1>6. IsSettled(s) <=> IsSettled(w)
  BY <1>4 DEF IsSettled
<1>7. Driven(w, run, o)
  BY <1>2, <1>4, <1>5, <1>6 DEF Driven
<1>8. r = Verb(w, run)
  BY <1>3, <1>5 DEF InBrain
<1>9. run \intersect AgentIds = {} /\ U \subseteq U /\ w.run.phase # "idle"
  BY <1>1, <1>2, <1>4, <1>5, AgentFacts
<1> QED
  BY <1>4, <1>6, <1>7, <1>8, <1>9, StaysFair

\* A timer of the compaction rings.
LEMMA CompactionRings ==
  ASSUME NEW s, NEW o, NEW n, NEW x, NEW U, Ready(s, o, n, x, U), Driven(s, {}, o),
         NEW t, t.key = "compact", t.at \in Int, t.kind # "deadline",
         NEW a, a = OnTimer(AgentCompact, s.compaction, t, AgentDelay),
         NEW r, r = InCompaction(s, a)
  PROVE  Fair(r, o, n, x, U)
<1>1. /\ s \in AgentStates /\ s.run.phase # "idle"
      /\ s.compaction \in AgentSlices({"compact"})
  BY ReadyIs
<1>2. /\ a.s \in AgentSlices({"compact"})
      /\ (a.run = {"compact"} \/ (a.run = {} /\ a.s = s.compaction))
  <2>1. PICK e : e = s.compaction
    OBVIOUS
  <2>2. PICK k : k = "compact"
    OBVIOUS
  <2>3. PICK c : c = AgentCompact
    OBVIOUS
  <2>4. /\ e \in AgentSlices({k}) /\ RetryOnly(c) /\ c.deadline = 0 /\ t.key = k
        /\ t.at \in Int /\ t.kind # "deadline" /\ a = OnTimer(c, e, t, AgentDelay)
    BY <1>1, <2>1, <2>2, <2>3, AgentFacts
  <2>5. a.s \in AgentSlices({k}) /\ (a.run = {k} \/ (a.run = {} /\ a.s = e))
    BY ONLY <2>4, OwnSliceRings
  <2> QED
    BY <2>1, <2>2, <2>5
<1>3. PICK w : w = [s EXCEPT !.compaction = a.s]
  OBVIOUS
<1>4. /\ w \in AgentStates /\ w.tools = s.tools /\ w.conv = s.conv /\ w.ladder = s.ladder
      /\ w.run = s.run /\ w.compaction = a.s /\ w.llm = s.llm
      /\ w.failure = s.failure
  BY <1>1, <1>2, <1>3 DEF AgentStates
<1>5. PICK run \in SUBSET AgentKeys : run = a.run
  BY <1>2, AgentFacts
<1>6. IsSettled(s) <=> IsSettled(w)
  BY <1>4 DEF IsSettled
<1>7. Driven(w, run, o)
  BY <1>2, <1>4, <1>5, <1>6 DEF Driven
<1>8. r = Verb(w, run)
  BY <1>3, <1>5 DEF InCompaction
<1>9. run \intersect AgentIds = {} /\ U \subseteq U /\ w.run.phase # "idle"
  BY <1>1, <1>2, <1>4, <1>5, AgentFacts
<1> QED
  BY <1>4, <1>6, <1>7, <1>8, <1>9, StaysFair

\* A new run: what the last one left of tools is forgotten.
LEMMA StartFair ==
  ASSUME NEW s, NEW o, NEW n, NEW x, NEW U, NEW up, Sound(s, {}, o, n, x, U, up, {}),
         NEW at \in Int, NEW r, r = StartAgent(s, at)
  PROVE  Fair(r, o, n, x, U)
<1>1. /\ s \in AgentStates /\ s.run \in AgentRuns /\ s.ladder \in Ladders
      /\ Tallied(s, {}, o, n, x, U, up, {}) /\ Books(o, n, x)
  BY DEF Sound, Shaped, AgentStates
<1>2. PICK g : g = StartRun(s.run, AgentStages, at)
  OBVIOUS
<1>3. g \in AgentRuns /\ g.phase = "running"
  BY <1>1, <1>2, RunStarts
<1>4. PICK c : c = InitSlice(AgentCompact, {"compact"})
  OBVIOUS
<1>5. c \in AgentSlices({"compact"})
  BY <1>4, AgentFacts, AgentInitSlice
<1>6. PICK t : t = [s EXCEPT !.run = g, !.conv = FreshConv, !.failure = "none",
                            !.output = FALSE, !.tools = InitFan, !.compaction = c,
                            !.refused = <<>>]
  OBVIOUS
<1>7. InitFan \in AgentFans /\ FreshConv \in AgentConvs /\ <<>> \in Seq(AgentIds)
  BY NewFan, NewConvs DEF FanHolds
<1>8. /\ t \in AgentStates /\ t.tools = InitFan /\ t.conv = FreshConv
      /\ t.ladder = s.ladder /\ t.run = g
  BY <1>1, <1>3, <1>5, <1>6, <1>7 DEF AgentStates
<1>9. r = FireBrain(t, at)
  BY <1>1, <1>2, <1>4, <1>6 DEF StartAgent, AgentStates
<1>10. PICK run : run = {}
  OBVIOUS
<1>11. /\ Tallied(s, run, o, n, x, U, up, {}) /\ run \subseteq AgentKeys
       /\ FanHolds(t.tools, {}, {}) /\ t.run.phase # "idle" /\ U \subseteq U
       /\ ConvHolds(t.conv, {}, U) /\ t.conv.awaiting = "llm"
  BY <1>1, <1>3, <1>8, <1>10, NewFan, NewConvs
<1>12. /\ Sound(r.s, r.run \union run, o, n, x, U, TRUE, {})
       /\ Driven(r.s, r.run \union run, o)
  BY <1>1, <1>8, <1>9, <1>11, FiresSound
<1>13. r.run \union run = r.run
  BY <1>10
<1> QED
  BY <1>12, <1>13 DEF Fair

-----------------------------------------------------------------------------
(* A tool comes back, or its timer rings.                                  *)

\* A call the ladder gives up is charged nothing more.
LEMMA GivenUpTally ==
  ASSUME NEW s, NEW k \in AgentIds, NEW a, NEW b, NEW y, NEW U, NEW up,
         Tally(s, k, a, b, y, U, up, {}), NEW a2 \in {0, 1}, NEW s2, NEW D, k \in D,
         s2.ladder.calls[k].phase = "none", k \in U, k \notin WaitsIn(s2)
  PROVE  Tally(s2, k, a2, b, y, U, TRUE, D)
<1>1. b \in Nat /\ y \in Nat /\ b <= y + BudgetOf(k)
  BY DEF Tally
<1>2. ~Charged(s2, k, D)
  BY DEF Charged
<1>3. /\ s2.ladder.calls[k].phase \in {"none", "running", "waiting_retry"}
      /\ k \in AgentBare => s2.ladder.calls[k].phase = "none"
      /\ ~(s2.ladder.calls[k].phase = "waiting_retry")
      /\ ~(k \notin U \/ k \in WaitsIn(s2)) /\ ~(Awaits(s2, "tools") /\ k \in RunsIn(s2) \ D)
  OBVIOUS
<1> QED
  BY <1>1, <1>2, <1>3, Zenon DEF Tally

\* A failed call is charged the attempt it has had, and waits.
LEMMA RetriedTally ==
  ASSUME NEW s, NEW k \in AgentIds, k \notin AgentBare, NEW b, NEW y, NEW U,
         Tally(s, k, 1, b, y, U, TRUE, {}), k \in RunsIn(s),
         s.ladder.calls[k].phase = "running",
         NEW m \in Nat, m = s.ladder.retry[k], m + 1 < AgentTool.attempts,
         NEW s2, CallIs(s2.ladder, k, "waiting_retry", m + 1), k \in U, k \notin WaitsIn(s2)
  PROVE  Tally(s2, k, 0, b, y, U, TRUE, {})
<1>1. b \in Nat /\ y \in Nat /\ b <= y + BudgetOf(k)
  BY DEF Tally
<1>2. b <= y + m + 1
  <2>1. Charged(s, k, {})
    BY DEF Charged
  <2> QED
    BY <2>1 DEF Tally
<1>3. AgentTool.attempts \in Nat
  BY AgentAssumption DEF AgentAssumption, RetryOnly, Bricks
<1>4. BudgetOf(k) = AgentTool.attempts
  BY <1>3 DEF BudgetOf
<1>5. s2.ladder.calls[k].phase = "waiting_retry" /\ s2.ladder.retry[k] = m + 1
  BY DEF CallIs
<1>6. b <= y + (m + 1) + 0
  BY <1>1, <1>2
<1>7. Handled(s2, k, 0, TRUE)
  BY <1>5 DEF Handled, LivePhases
<1>8. /\ s2.ladder.calls[k].phase \in {"none", "running", "waiting_retry"}
      /\ k \in AgentBare => s2.ladder.calls[k].phase = "none"
      /\ ~(k \notin U \/ k \in WaitsIn(s2)) /\ 0 \in {0, 1}
  BY <1>5
<1>9. b <= y + s2.ladder.retry[k] + 0 /\ s2.ladder.retry[k] < BudgetOf(k)
  BY <1>4, <1>5, <1>6
<1> QED
  BY <1>1, <1>7, <1>8, <1>9, Zenon DEF Tally

\* A handler that starts is within the budget.
LEMMA FiredTally ==
  ASSUME NEW s, NEW k \in AgentIds, NEW b, NEW y, NEW U, NEW up,
         Tally(s, k, 0, b, y, U, up, {}), Charged(s, k, {}),
         NEW m \in Nat, m = s.ladder.retry[k], NEW s2, NEW D, k \in U, k \notin WaitsIn(s2),
         s2.ladder.calls[k].phase = IF k \in AgentBare THEN "none" ELSE "running",
         s2.ladder.retry[k] = m
  PROVE  Tally(s2, k, 1, b + 1, y, U, TRUE, D)
<1>1. b \in Nat /\ y \in Nat /\ b <= y + m + 0 /\ m < BudgetOf(k)
  BY DEF Tally
<1>2. b + 1 <= y + m + 1 /\ b + 1 <= y + BudgetOf(k) /\ b + 1 \in Nat
  BY <1>1, AgentFacts
<1>3. Handled(s2, k, 1, TRUE)
  BY DEF Handled, LivePhases
<1>4. /\ s2.ladder.calls[k].phase \in {"none", "running", "waiting_retry"}
      /\ k \in AgentBare => s2.ladder.calls[k].phase = "none"
      /\ ~(s2.ladder.calls[k].phase = "waiting_retry")
      /\ ~(k \notin U \/ k \in WaitsIn(s2)) /\ 1 \in {0, 1}
  OBVIOUS
<1>5. b + 1 <= y + s2.ladder.retry[k] + 1 /\ s2.ladder.retry[k] < BudgetOf(k)
  BY <1>1, <1>2
<1> QED
  BY <1>1, <1>2, <1>3, <1>4, <1>5, Zenon DEF Tally

\* A call in the books with no batch that waits for it.
LEMMA StrayTally ==
  ASSUME NEW s, NEW k \in AgentIds, NEW b, NEW y, NEW U,
         Tally(s, k, 1, b, y, U, TRUE, {}), k \notin RunsIn(s)
  PROVE  Tally(s, k, 0, b, y, U, TRUE, {})
<1>1. ~Charged(s, k, {})
  BY DEF Tally, Charged
<1> QED
  BY <1>1 DEF Tally

\* One call of the ladder changes.
Touched(s, k, t, s2) ==
  /\ s2 = [s EXCEPT !.ladder = t] /\ t \in Ladders
  /\ \A j \in AgentIds \ {k} : SameCall(s.ladder, t, j)

\* The books of the others are as they were.
LEMMA TouchSound ==
  ASSUME NEW s, NEW o, NEW n, NEW x, NEW U, Ready(s, o, n, x, U),
         NEW k \in AgentIds, NEW t, NEW s2, Touched(s, k, t, s2),
         NEW p \in [AgentKeys -> Nat], \A j \in AgentIds \ {k} : p[j] = o[j],
         NEW run, run \subseteq {k}, NEW D, D \subseteq {k},
         NEW a, a = Plus(p, run, k), NEW b, b = Plus(n, run, k),
         Tally(s2, k, a, b, x[k], U, TRUE, D)
  PROVE  /\ Sound(s2, run, p, n, x, U, TRUE, D)
         /\ Driven(s, {}, p) => Driven(s2, run, p)
<1>1. /\ s \in AgentStates /\ ToolsFit(s) /\ ConvHolds(s.conv, OpenIn(s), U)
      /\ Books(o, n, x) /\ Tallied(s, {}, o, n, x, U, TRUE, {}) /\ s.run.phase # "idle"
      /\ Shaped(s, U)
  BY DEF Ready, Sound, Shaped
<1>2. /\ s2 \in AgentStates /\ s2.tools = s.tools /\ s2.conv = s.conv /\ s2.run = s.run
      /\ s2.failure = s.failure /\ s2.llm = s.llm /\ s2.compaction = s.compaction
      /\ s2.ladder = t
  BY <1>1 DEF Touched, AgentStates
<1>3. /\ RunsIn(s2) = RunsIn(s) /\ WaitsIn(s2) = WaitsIn(s) /\ OpenIn(s2) = OpenIn(s)
      /\ (IsSettled(s2) <=> IsSettled(s))
  BY <1>2 DEF RunsIn, WaitsIn, OpenIn, IsSettled
<1>4. Shaped(s2, U)
  BY <1>1, <1>2, <1>3 DEF Shaped, ToolsFit
<1>5. Books(p, n, x)
  BY <1>1 DEF Books
<1>6. run \subseteq AgentKeys
  BY AgentFacts
<1>7. ASSUME NEW j \in AgentIds
      PROVE  Tally(s2, j, Plus(p, run, j), Plus(n, run, j), x[j], U, TRUE, D)
  <2>1. CASE j = k
    BY <2>1
  <2>2. CASE j # k
    <3>1. PICK a1 : a1 = Plus(o, {}, j)
      OBVIOUS
    <3>2. PICK b1 : b1 = Plus(n, {}, j)
      OBVIOUS
    <3>3. PICK y : y = x[j]
      OBVIOUS
    <3>4. Tally(s, j, a1, b1, y, U, TRUE, {})
      BY <1>1, <3>1, <3>2, <3>3 DEF Tallied
    <3>5. Plus(p, run, j) = a1 /\ Plus(n, run, j) = b1
      BY <2>2, <3>1, <3>2 DEF Plus
    <3>6. SameCall(s.ladder, s2.ladder, j)
      BY <1>2, <2>2 DEF Touched
    <3>7. /\ j \in RunsIn(s2) => j \in RunsIn(s)
          /\ j \in RunsIn(s2) \ D /\ Awaits(s2, "tools") =>
               j \in RunsIn(s) \ {} /\ Awaits(s, "tools")
          /\ j \notin U \/ j \in WaitsIn(s2) => j \notin U \/ j \in WaitsIn(s)
      BY <1>2, <1>3 DEF Awaits
    <3>8. Tally(s2, j, a1, b1, y, U, TRUE, D)
      BY <3>4, <3>6, <3>7, OtherTally
    <3> QED
      BY <3>3, <3>5, <3>8
  <2> QED
    BY <2>1, <2>2
<1>8. Tallied(s2, run, p, n, x, U, TRUE, D)
  BY <1>7 DEF Tallied
<1>9. Sound(s2, run, p, n, x, U, TRUE, D)
  BY <1>1, <1>2, <1>4, <1>5, <1>6, <1>8 DEF Sound
<1>10. Driven(s, {}, p) => Driven(s2, run, p)
  BY <1>2, <1>3 DEF Driven
<1> QED
  BY <1>9, <1>10

\* What is known of a call whose handler is in flight, answered or not.
LEMMA CallKnown ==
  ASSUME NEW s, NEW o, NEW n, NEW x, NEW U, Ready(s, o, n, x, U), NEW k \in AgentIds
  PROVE  /\ o[k] \in {0, 1} /\ n[k] \in Nat /\ s.ladder.retry[k] \in Nat
         /\ Tally(s, k, o[k], n[k], x[k], U, TRUE, {})
         /\ Contains(s.tools.running, k) <=> k \in RunsIn(s)
         /\ k \in RunsIn(s) => k \in U /\ k \notin WaitsIn(s)
         /\ k \in AgentBare => s.ladder.calls[k].phase = "none"
<1>1. /\ ConvHolds(s.conv, OpenIn(s), U) /\ FanHolds(s.tools, RunsIn(s), WaitsIn(s))
      /\ Tallied(s, {}, o, n, x, U, TRUE, {}) /\ Books(o, n, x) /\ s.ladder \in Ladders
  BY ReadyIs
<1>2. o[k] \in Nat /\ n[k] \in Nat
  BY <1>1, AgentFacts DEF Books
<1>3. Plus(o, {}, k) = o[k] /\ Plus(n, {}, k) = n[k]
  BY <1>2 DEF Plus
<1>4. PICK a : a = o[k]
  OBVIOUS
<1>5. PICK b : b = n[k]
  OBVIOUS
<1>6. PICK y : y = x[k]
  OBVIOUS
<1>7. Tally(s, k, a, b, y, U, TRUE, {})
  BY <1>1, <1>3, <1>4, <1>5, <1>6 DEF Tallied
<1>8. a \in {0, 1} /\ k \in AgentBare => s.ladder.calls[k].phase = "none"
  BY <1>7 DEF Tally
<1>9. s.ladder.retry[k] \in Nat
  BY <1>1 DEF Ladders, AgentSlices
<1>10. k \in RunsIn(s) => k \in U /\ k \notin WaitsIn(s)
  BY <1>1 DEF ConvHolds, OpenIn, FanHolds
<1>11. Contains(s.tools.running, k) <=> k \in RunsIn(s)
  BY <1>1, ListFacts DEF FanHolds
<1>12. a \in {0, 1}
  BY <1>7 DEF Tally
<1> QED
  BY <1>2, <1>4, <1>5, <1>6, <1>7, <1>8, <1>9, <1>10, <1>11, <1>12

\* The handler of k has answered.
Answered(o, p, k) ==
  /\ p \in [AgentKeys -> Nat] /\ \A j \in AgentIds \ {k} : p[j] = o[j]
  /\ o[k] = 1 /\ p[k] = 0

\* An answer that no batch waits for.
LEMMA StrayFair ==
  ASSUME NEW s, NEW o, NEW n, NEW x, NEW U, Ready(s, o, n, x, U), NEW k \in AgentIds,
         NEW p, Answered(o, p, k), Driven(s, {}, p), k \notin RunsIn(s),
         NEW r, r = Verb(s, {})
  PROVE  Fair(r, p, n, x, U)
<1>1. s \in AgentStates /\ s.ladder \in Ladders /\ Books(o, n, x)
  BY ReadyIs
<1>2. PICK b : b = n[k]
  OBVIOUS
<1>3. PICK y : y = x[k]
  OBVIOUS
<1>4. Tally(s, k, 1, b, y, U, TRUE, {}) /\ b \in Nat
  BY <1>2, <1>3, CallKnown DEF Answered
<1>5. Tally(s, k, 0, b, y, U, TRUE, {})
  BY <1>4, StrayTally
<1>6. PICK t : t = s.ladder
  OBVIOUS
<1>7. Touched(s, k, t, s)
  <2>1. s = [s EXCEPT !.ladder = t]
    BY <1>1, <1>6 DEF AgentStates
  <2> QED
    BY <1>1, <1>6, <2>1 DEF Touched, SameCall
<1>8. PICK run : run = {}
  OBVIOUS
<1>9. PICK D : D = {}
  OBVIOUS
<1>10. PICK a : a = Plus(p, run, k)
  OBVIOUS
<1>11. a = 0 /\ b = Plus(n, run, k)
  BY <1>2, <1>4, <1>8, <1>10 DEF Plus, Answered
<1>12. /\ p \in [AgentKeys -> Nat] /\ (\A j \in AgentIds \ {k} : p[j] = o[j])
       /\ run \subseteq {k} /\ D \subseteq {k} /\ a = Plus(p, run, k) /\ b = Plus(n, run, k)
       /\ Tally(s, k, a, b, x[k], U, TRUE, D)
  BY <1>3, <1>5, <1>8, <1>9, <1>10, <1>11 DEF Answered
<1>13. Sound(s, run, p, n, x, U, TRUE, D)
  BY <1>7, <1>12, TouchSound
<1>14. r.s = s /\ r.run = run
  BY <1>8 DEF Verb
<1> QED
  BY <1>8, <1>9, <1>13, <1>14 DEF Fair

\* The call is done with, and about to settle.
LEMMA DoomedSound ==
  ASSUME NEW s, NEW o, NEW n, NEW x, NEW U, Ready(s, o, n, x, U),
         NEW k \in AgentIds, k \in U, k \notin WaitsIn(s),
         NEW p \in [AgentKeys -> Nat], \A j \in AgentIds \ {k} : p[j] = o[j], p[k] \in {0, 1},
         NEW t, NEW s2, Touched(s, k, t, s2), t.calls[k].phase = "none"
  PROVE  /\ Sound(s2, {}, p, n, x, U, TRUE, {k})
         /\ Driven(s, {}, p) => Driven(s2, {}, p)
<1>1. s \in AgentStates /\ Books(o, n, x)
  BY ReadyIs
<1>2. PICK b : b = n[k]
  OBVIOUS
<1>3. PICK y : y = x[k]
  OBVIOUS
<1>4. PICK a : a = o[k]
  OBVIOUS
<1>5. Tally(s, k, a, b, y, U, TRUE, {}) /\ b \in Nat
  BY <1>2, <1>3, <1>4, CallKnown
<1>6. s2.ladder = t /\ s2.tools = s.tools
  BY <1>1 DEF Touched, AgentStates
<1>7. WaitsIn(s2) = WaitsIn(s)
  BY <1>6 DEF WaitsIn
<1>8. PICK a2 \in {0, 1} : a2 = p[k]
  OBVIOUS
<1>9. PICK D : D = {k}
  OBVIOUS
<1>10. Tally(s2, k, a2, b, y, U, TRUE, D)
  <2>1. k \in D /\ s2.ladder.calls[k].phase = "none" /\ k \notin WaitsIn(s2)
    BY <1>6, <1>7, <1>9
  <2> QED
    BY <1>5, <1>8, <2>1, GivenUpTally
<1>11. PICK run : run = {}
  OBVIOUS
<1>12. a2 = Plus(p, run, k) /\ b = Plus(n, run, k)
  BY <1>2, <1>5, <1>8, <1>11 DEF Plus
<1>13. /\ run \subseteq {k} /\ D \subseteq {k} /\ a2 = Plus(p, run, k) /\ b = Plus(n, run, k)
       /\ Tally(s2, k, a2, b, x[k], U, TRUE, D) /\ Ready(s, o, n, x, U)
       /\ Touched(s, k, t, s2) /\ k \in AgentIds /\ p \in [AgentKeys -> Nat]
       /\ \A j \in AgentIds \ {k} : p[j] = o[j]
  BY <1>3, <1>9, <1>10, <1>11, <1>12
<1>14. /\ Sound(s2, run, p, n, x, U, TRUE, D)
       /\ Driven(s, {}, p) => Driven(s2, run, p)
  BY ONLY <1>13, TouchSound
<1> QED
  BY <1>9, <1>11, <1>14

\* A tool answers.
LEMMA ToolOkFair ==
  ASSUME NEW s, NEW o, NEW n, NEW x, NEW U, Ready(s, o, n, x, U), NEW k \in AgentIds,
         NEW p, Answered(o, p, k), Driven(s, {}, p),
         NEW stop, NEW plan \in Nat, NEW at \in Int,
         NEW r, r = ToolOkVerb(s, k, stop, plan, at)
  PROVE  Fair(r, p, n, x, U)
<1>1. s \in AgentStates /\ s.ladder \in Ladders
  BY ReadyIs
<1>2. /\ Contains(s.tools.running, k) <=> k \in RunsIn(s)
      /\ k \in RunsIn(s) => k \in U /\ k \notin WaitsIn(s)
      /\ k \in AgentBare => s.ladder.calls[k].phase = "none"
  BY CallKnown
<1>3. CASE k \notin RunsIn(s)
  <2>1. r = Verb(s, {})
    BY <1>2, <1>3 DEF ToolOkVerb
  <2> QED
    BY <1>3, <2>1, StrayFair
<1>4. CASE k \in RunsIn(s)
  <2>1. PICK t : t = LadderOk(AgentTool, AgentBare, s.ladder, k, at)
    OBVIOUS
  <2>2. /\ t \in Ladders /\ \A j \in AgentIds \ {k} : SameCall(s.ladder, t, j)
        /\ IF k \in AgentBare THEN t = s.ladder ELSE CallIs(t, k, "none", 0)
    BY <1>1, <2>1, LadderOks
  <2>3. t.calls[k].phase = "none"
    BY <1>2, <2>2 DEF CallIs
  <2>4. PICK s2 : s2 = [s EXCEPT !.ladder = t]
    OBVIOUS
  <2>5. Touched(s, k, t, s2)
    BY <2>2, <2>4 DEF Touched
  <2>6. PICK D : D = {k}
    OBVIOUS
  <2>7. PICK run : run = {}
    OBVIOUS
  <2>8. /\ Sound(s2, run, p, n, x, U, TRUE, D)
        /\ Driven(s, {}, p) => Driven(s2, run, p)
    <3>1. /\ p \in [AgentKeys -> Nat] /\ (\A j \in AgentIds \ {k} : p[j] = o[j])
          /\ p[k] \in {0, 1} /\ k \in U /\ k \notin WaitsIn(s)
      BY <1>2, <1>4 DEF Answered
    <3>2. /\ Sound(s2, {}, p, n, x, U, TRUE, {k})
          /\ Driven(s, {}, p) => Driven(s2, {}, p)
      BY <2>3, <2>5, <3>1, DoomedSound
    <3> QED
      BY <2>6, <2>7, <3>2
  <2>9. PICK ok \in BOOLEAN : ok = TRUE
    OBVIOUS
  <2>10. r = SettleTool(s2, k, ok, stop, plan, at)
    BY <1>1, <1>2, <1>4, <2>1, <2>4, <2>9 DEF ToolOkVerb, AgentStates
  <2>11. /\ Sound(r.s, r.run \union run, p, n, x, U, TRUE, D \ {k})
         /\ Driven(s2, run, p) => Driven(r.s, r.run \union run, p)
    BY <2>8, <2>10, ToolSettles
  <2>12. r.run \union run = r.run /\ D \ {k} = {}
    BY <2>6, <2>7
  <2> QED
    BY <2>8, <2>11, <2>12 DEF Fair
<1> QED
  BY <1>3, <1>4

\* What the ladder decided is applied.
LEMMA AppliesFair ==
  ASSUME NEW s, NEW y \in LadderSteps, NEW s2, s2 = [s EXCEPT !.ladder = y.s],
         NEW run, run = y.run, NEW p, NEW n, NEW x, NEW U, NEW D,
         D \subseteq ToSet(y.settle),
         Sound(s2, run, p, n, x, U, TRUE, D), Driven(s2, run, p),
         NEW stop, NEW plan \in Nat, NEW at \in Int,
         NEW r, r = ApplyLadder(s, y, stop, plan, at)
  PROVE  Fair(r, p, n, x, U)
<1>1. /\ Sound(r.s, r.run, p, n, x, U, TRUE, {})
      /\ Driven(s2, run, p) => Driven(r.s, r.run, p)
  BY LadderApplies
<1> QED
  BY <1>1 DEF Fair

\* A live call has been made, and does not wait.
LEMMA LiveCall ==
  ASSUME NEW s, NEW o, NEW n, NEW x, NEW U, Ready(s, o, n, x, U), NEW k \in AgentIds,
         s.ladder.calls[k].phase \in LivePhases
  PROVE  /\ k \in U /\ k \notin WaitsIn(s) /\ k \notin AgentBare
         /\ s.ladder.calls[k].phase = "waiting_retry" => o[k] = 0
<1>1. Tally(s, k, o[k], n[k], x[k], U, TRUE, {})
  BY CallKnown
<1> QED
  BY <1>1 DEF Tally, CallIs, LivePhases

\* A tool fails.
LEMMA ToolErrFair ==
  ASSUME NEW s, NEW o, NEW n, NEW x, NEW U, Ready(s, o, n, x, U), NEW k \in AgentIds,
         NEW p, Answered(o, p, k), Driven(s, {}, p),
         NEW stop, NEW plan \in Nat, NEW at \in Int,
         NEW r, r = ToolErrVerb(s, k, stop, plan, at)
  PROVE  Fair(r, p, n, x, U)
<1>1. s \in AgentStates /\ s.ladder \in Ladders
  BY ReadyIs
<1>2. /\ Contains(s.tools.running, k) <=> k \in RunsIn(s)
      /\ k \in RunsIn(s) => k \in U /\ k \notin WaitsIn(s)
      /\ k \in AgentBare => s.ladder.calls[k].phase = "none"
      /\ s.ladder.retry[k] \in Nat
  BY CallKnown
<1>3. CASE k \notin RunsIn(s)
  <2>1. r = Verb(s, {})
    BY <1>2, <1>3 DEF ToolErrVerb
  <2> QED
    BY <1>3, <2>1, StrayFair
<1>4. CASE k \in RunsIn(s)
  <2>1. PICK y : y = LadderErr(AgentTool, AgentBare, s.ladder, k, at, AgentDelay)
    OBVIOUS
  <2>2. PICK t \in Ladders :
          /\ \A j \in AgentIds \ {k} : SameCall(s.ladder, t, j)
          /\ \/ k \in AgentBare /\ t = s.ladder /\ OneStep(y, t, {}, {k})
             \/ /\ k \notin AgentBare /\ CallIs(t, k, "none", 0)
                /\ OneStep(y, t, {}, {k})
             \/ /\ k \notin AgentBare /\ s.ladder.calls[k].phase = "running"
                /\ s.ladder.retry[k] + 1 < AgentTool.attempts
                /\ CallIs(t, k, "waiting_retry", s.ladder.retry[k] + 1)
                /\ OneStep(y, t, {}, {})
    <3>1. PICK e \in Ladders : e = s.ladder
      BY <1>1
    <3> QED
      BY <2>1, <3>1, LadderErrs
  <2>3. PICK s2 : s2 = [s EXCEPT !.ladder = t]
    OBVIOUS
  <2>4. Touched(s, k, t, s2)
    BY <2>2, <2>3 DEF Touched
  <2>5. /\ y \in LadderSteps /\ y.s = t /\ y.run = {}
    BY <2>2 DEF OneStep
  <2>6. PICK run : run = {}
    OBVIOUS
  <2>7. r = ApplyLadder(s, y, stop, plan, at) /\ s2 = [s EXCEPT !.ladder = y.s] /\ run = y.run
    BY <1>2, <1>4, <2>1, <2>3, <2>5, <2>6 DEF ToolErrVerb
  <2>8. CASE t.calls[k].phase = "none" /\ OneStep(y, t, {}, {k})
    <3>1. PICK D : D = {k}
      OBVIOUS
    <3>2. D \subseteq ToSet(y.settle)
      BY <2>8, <3>1 DEF OneStep
    <3>3. /\ p \in [AgentKeys -> Nat] /\ (\A j \in AgentIds \ {k} : p[j] = o[j])
          /\ p[k] \in {0, 1} /\ k \in U /\ k \notin WaitsIn(s)
      BY <1>2, <1>4 DEF Answered
    <3>4. /\ Sound(s2, {}, p, n, x, U, TRUE, {k})
          /\ Driven(s, {}, p) => Driven(s2, {}, p)
      BY <2>4, <2>8, <3>3, DoomedSound
    <3>5. Sound(s2, run, p, n, x, U, TRUE, D) /\ Driven(s2, run, p)
      BY <2>6, <3>1, <3>4
    <3> QED
      BY <2>5, <2>7, <3>2, <3>5, AppliesFair
  <2>9. CASE /\ k \notin AgentBare /\ s.ladder.calls[k].phase = "running"
             /\ s.ladder.retry[k] + 1 < AgentTool.attempts
             /\ CallIs(t, k, "waiting_retry", s.ladder.retry[k] + 1)
    <3>1. PICK b : b = n[k]
      OBVIOUS
    <3>2. PICK z : z = x[k]
      OBVIOUS
    <3>3. Tally(s, k, 1, b, z, U, TRUE, {}) /\ b \in Nat
      BY <3>1, <3>2, CallKnown DEF Answered
    <3>4. PICK m \in Nat : m = s.ladder.retry[k]
      BY <1>2
    <3>5. s2.ladder = t /\ s2.tools = s.tools
      BY <1>1, <2>3 DEF AgentStates
    <3>6. WaitsIn(s2) = WaitsIn(s)
      BY <3>5 DEF WaitsIn
    <3>7. Tally(s2, k, 0, b, z, U, TRUE, {})
      <4>1. /\ CallIs(s2.ladder, k, "waiting_retry", m + 1) /\ m + 1 < AgentTool.attempts
            /\ k \in U /\ k \notin WaitsIn(s2)
        BY <1>2, <1>4, <2>9, <3>4, <3>5, <3>6
      <4> QED
        BY <1>4, <2>9, <3>3, <3>4, <4>1, RetriedTally
    <3>8. PICK D : D = {}
      OBVIOUS
    <3>9. PICK a : a = Plus(p, run, k)
      OBVIOUS
    <3>10. a = 0 /\ b = Plus(n, run, k)
      BY <2>6, <3>1, <3>3, <3>9 DEF Plus, Answered
    <3>11. /\ p \in [AgentKeys -> Nat] /\ (\A j \in AgentIds \ {k} : p[j] = o[j])
           /\ run \subseteq {k} /\ D \subseteq {k} /\ a = Plus(p, run, k)
           /\ b = Plus(n, run, k) /\ Tally(s2, k, a, b, x[k], U, TRUE, D)
           /\ Ready(s, o, n, x, U) /\ Touched(s, k, t, s2) /\ k \in AgentIds
      BY <2>4, <2>6, <3>2, <3>7, <3>8, <3>9, <3>10 DEF Answered
    <3>12. /\ Sound(s2, run, p, n, x, U, TRUE, D)
           /\ Driven(s, {}, p) => Driven(s2, run, p)
      BY ONLY <3>11, TouchSound
    <3>13. D \subseteq ToSet(y.settle)
      BY <3>8
    <3> QED
      BY <2>5, <2>7, <3>12, <3>13, AppliesFair
  <2> QED
    BY <1>2, <2>2, <2>8, <2>9 DEF CallIs
<1> QED
  BY <1>3, <1>4

\* A timer of a tool rings.
LEMMA ToolRings ==
  ASSUME NEW s, NEW o, NEW n, NEW x, NEW U, Ready(s, o, n, x, U), Driven(s, {}, o),
         NEW k \in AgentIds, NEW t, t.key = k, t.at \in Int,
         NEW stop, NEW plan \in Nat, NEW at \in Int, NEW y,
         y = LadderTimer(AgentTool, s.ladder, t, AgentDelay),
         NEW r, r = ApplyLadder(s, y, stop, plan, at)
  PROVE  Fair(r, o, n, x, U)
<1>1. s \in AgentStates /\ s.ladder \in Ladders /\ Books(o, n, x)
  BY ReadyIs
<1>2. PICK u \in Ladders :
        /\ \A j \in AgentIds \ {k} : SameCall(s.ladder, u, j)
        /\ \/ u = s.ladder /\ OneStep(y, u, {}, {})
           \/ /\ s.ladder.calls[k].phase = "waiting_retry"
              /\ CallIs(u, k, "running", s.ladder.retry[k]) /\ OneStep(y, u, {k}, {})
           \/ /\ s.ladder.calls[k].phase \in LivePhases
              /\ CallIs(u, k, "none", 0) /\ OneStep(y, u, {}, {k})
  <2>1. PICK e \in Ladders : e = s.ladder
    BY <1>1
  <2> QED
    BY <2>1, LadderRings
<1>3. PICK s2 : s2 = [s EXCEPT !.ladder = u]
  OBVIOUS
<1>4. Touched(s, k, u, s2)
  BY <1>2, <1>3 DEF Touched
<1>5. y \in LadderSteps /\ y.s = u /\ y.run \subseteq {k} /\ s2 = [s EXCEPT !.ladder = y.s]
  BY <1>2, <1>3 DEF OneStep
<1>6. PICK run : run = y.run
  OBVIOUS
<1>7. s2.ladder = u /\ s2.tools = s.tools
  BY <1>1, <1>3 DEF AgentStates
<1>8. WaitsIn(s2) = WaitsIn(s)
  BY <1>7 DEF WaitsIn
<1>9. PICK b : b = n[k]
  OBVIOUS
<1>10. PICK z : z = x[k]
  OBVIOUS
<1>11. PICK c : c = o[k]
  OBVIOUS
<1>12. Tally(s, k, c, b, z, U, TRUE, {}) /\ b \in Nat /\ c \in {0, 1} /\ s.ladder.retry[k] \in Nat
  BY <1>9, <1>10, <1>11, CallKnown
<1>13. o \in [AgentKeys -> Nat]
  BY <1>1 DEF Books
<1>14. ASSUME NEW a, a = Plus(o, run, k), NEW b2, b2 = Plus(n, run, k),
              Tally(s2, k, a, b2, x[k], U, TRUE, {})
       PROVE  Fair(r, o, n, x, U)
  <2>1. PICK D : D = {}
    OBVIOUS
  <2>2. /\ o \in [AgentKeys -> Nat] /\ (\A j \in AgentIds \ {k} : o[j] = o[j])
        /\ run \subseteq {k} /\ D \subseteq {k} /\ a = Plus(o, run, k)
        /\ b2 = Plus(n, run, k) /\ Tally(s2, k, a, b2, x[k], U, TRUE, D)
        /\ Ready(s, o, n, x, U) /\ Touched(s, k, u, s2) /\ k \in AgentIds
    BY <1>4, <1>5, <1>6, <1>13, <1>14, <2>1
  <2>3. /\ Sound(s2, run, o, n, x, U, TRUE, D)
        /\ Driven(s, {}, o) => Driven(s2, run, o)
    BY ONLY <2>2, TouchSound
  <2>4. D \subseteq ToSet(y.settle)
    BY <2>1
  <2> QED
    BY <1>5, <1>6, <2>3, <2>4, AppliesFair
<1>15. CASE u = s.ladder /\ OneStep(y, u, {}, {})
  <2>1. s2 = s
    BY <1>1, <1>3, <1>15 DEF AgentStates
  <2>2. c = Plus(o, run, k) /\ b = Plus(n, run, k)
    BY <1>6, <1>9, <1>11, <1>12, <1>15 DEF OneStep, Plus
  <2>3. Tally(s2, k, c, b, x[k], U, TRUE, {})
    BY <1>10, <1>12, <2>1
  <2> QED
    BY <1>14, <2>2, <2>3
<1>16. CASE /\ s.ladder.calls[k].phase = "waiting_retry"
            /\ CallIs(u, k, "running", s.ladder.retry[k]) /\ OneStep(y, u, {k}, {})
  <2>1. k \in U /\ k \notin WaitsIn(s2) /\ k \notin AgentBare /\ c = 0
    <3>1. s.ladder.calls[k].phase \in LivePhases
      BY <1>16 DEF LivePhases
    <3> QED
      BY <1>8, <1>11, <1>16, <3>1, LiveCall
  <2>2. Charged(s, k, {})
    BY <1>16 DEF Charged
  <2>3. PICK m \in Nat : m = s.ladder.retry[k]
    BY <1>12
  <2>4. /\ s2.ladder.calls[k].phase = IF k \in AgentBare THEN "none" ELSE "running"
        /\ s2.ladder.retry[k] = m
    BY <1>7, <1>16, <2>1, <2>3 DEF CallIs
  <2>5. Tally(s, k, 0, b, z, U, TRUE, {})
    BY <1>12, <2>1
  <2>6. Tally(s2, k, 1, b + 1, z, U, TRUE, {})
    BY <2>1, <2>2, <2>3, <2>4, <2>5, FiredTally
  <2>7. 1 = Plus(o, run, k) /\ b + 1 = Plus(n, run, k)
    BY <1>6, <1>9, <1>11, <1>12, <1>16, <2>1 DEF OneStep, Plus
  <2> QED
    BY <1>10, <1>14, <2>6, <2>7
<1>17. CASE /\ s.ladder.calls[k].phase \in LivePhases
            /\ CallIs(u, k, "none", 0) /\ OneStep(y, u, {}, {k})
  <2>1. PICK D : D = {k}
    OBVIOUS
  <2>2. D \subseteq ToSet(y.settle)
    BY <1>17, <2>1 DEF OneStep
  <2>3. /\ o \in [AgentKeys -> Nat] /\ (\A j \in AgentIds \ {k} : o[j] = o[j])
        /\ o[k] \in {0, 1} /\ k \in U /\ k \notin WaitsIn(s) /\ u.calls[k].phase = "none"
    BY <1>11, <1>12, <1>13, <1>17, LiveCall DEF CallIs
  <2>4. /\ Sound(s2, {}, o, n, x, U, TRUE, {k})
        /\ Driven(s, {}, o) => Driven(s2, {}, o)
    BY <1>4, <2>3, DoomedSound
  <2>5. run = {}
    BY <1>6, <1>17 DEF OneStep
  <2>6. Sound(s2, run, o, n, x, U, TRUE, D) /\ Driven(s2, run, o)
    BY <2>1, <2>4, <2>5
  <2> QED
    BY <1>5, <1>6, <2>2, <2>6, AppliesFair
<1> QED
  BY <1>2, <1>15, <1>16, <1>17

-----------------------------------------------------------------------------
(* A process that wakes.                                                   *)

\* A call that was open when the process went has no handler.
LEMMA WokenTally ==
  ASSUME NEW s, NEW k \in AgentIds, NEW b, NEW y, NEW U, NEW up,
         Tally(s, k, 0, b, y, U, up, {}), s.ladder.retry[k] \in Nat,
         k \in RunsIn(s), Awaits(s, "tools"), k \in U,
         NEW s2, k \notin WaitsIn(s2), NEW z, NEW N, k \in N, LadderWoke(s.ladder, z, N),
         s2.ladder = z.s, NEW D, D = ToSet(z.settle)
  PROVE  IF k \in z.run THEN Tally(s2, k, 1, b + 1, y, U, TRUE, D)
           ELSE Tally(s2, k, 0, b, y, U, TRUE, D)
<1>1. /\ s.ladder.calls[k].phase \in {"none", "running", "waiting_retry"}
      /\ k \in AgentBare => s.ladder.calls[k].phase = "none"
      /\ k \notin AgentBare => s.ladder.calls[k].phase \in LivePhases
  BY DEF Tally, Handled
<1>2. PICK m \in Nat : m = s.ladder.retry[k]
  OBVIOUS
<1>3. k \in RunsIn(s) \ {}
  OBVIOUS
<1>4. ASSUME k \in z.run, s.ladder.calls[k].phase # "waiting_retry",
             s2.ladder.calls[k].phase = IF k \in AgentBare THEN "none" ELSE "running",
             s2.ladder.retry[k] = m
      PROVE  Tally(s2, k, 1, b + 1, y, U, TRUE, D)
  <2>1. Charged(s, k, {})
    BY <1>1, <1>3, <1>4 DEF Charged, LivePhases
  <2> QED
    BY <1>2, <1>4, <2>1, FiredTally
<1>5. CASE k \in AgentBare
  <2>1. k \in z.run /\ SameCall(s.ladder, z.s, k)
    BY <1>5 DEF LadderWoke
  <2>2. s2.ladder.calls[k].phase = "none" /\ s2.ladder.retry[k] = m
    BY <1>1, <1>2, <1>5, <2>1 DEF SameCall
  <2> QED
    BY <1>1, <1>4, <1>5, <2>1, <2>2
<1>6. CASE k \notin AgentBare
  <2>1. Rebooted(s.ladder, z, k)
    BY <1>6 DEF LadderWoke
  <2>2. CASE /\ s.ladder.calls[k].phase = "waiting_retry" /\ SameCall(s.ladder, z.s, k)
             /\ k \notin z.run /\ k \notin ToSet(z.settle)
    <3>1. SameCall(s.ladder, s2.ladder, k)
      BY <2>2
    <3>2. s2.ladder.calls[k].phase = "waiting_retry" /\ s2.ladder.retry[k] = s.ladder.retry[k]
      BY <2>2, <3>1 DEF SameCall
    <3>3. /\ b \in Nat /\ y \in Nat /\ b <= y + BudgetOf(k) /\ 0 \in {0, 1}
          /\ b <= y + s2.ladder.retry[k] + 0 /\ s2.ladder.retry[k] < BudgetOf(k)
      <4>1. Charged(s, k, {})
        BY <2>2 DEF Charged
      <4> QED
        BY <3>2, <4>1 DEF Tally
    <3>4. Handled(s2, k, 0, TRUE)
      BY <1>6, <3>2 DEF Handled, LivePhases
    <3>5. /\ s2.ladder.calls[k].phase \in {"none", "running", "waiting_retry"}
          /\ k \in AgentBare => s2.ladder.calls[k].phase = "none"
          /\ ~(k \notin U \/ k \in WaitsIn(s2))
      BY <1>6, <3>2
    <3>6. Tally(s2, k, 0, b, y, U, TRUE, D)
      BY <3>3, <3>4, <3>5, Zenon DEF Tally
    <3> QED
      BY <2>2, <3>6
  <2>3. CASE /\ s.ladder.calls[k].phase # "waiting_retry"
             /\ CallIs(z.s, k, "running", s.ladder.retry[k])
             /\ k \in z.run /\ k \notin ToSet(z.settle)
    BY <1>2, <1>4, <1>6, <2>3 DEF CallIs
  <2>4. CASE /\ s.ladder.calls[k].phase # "waiting_retry" /\ CallIs(z.s, k, "none", 0)
             /\ k \notin z.run /\ k \in ToSet(z.settle)
    <3>1. s2.ladder.calls[k].phase = "none" /\ k \in D /\ 0 \in {0, 1}
      BY <2>4 DEF CallIs
    <3>2. Tally(s2, k, 0, b, y, U, TRUE, D)
      BY <3>1, GivenUpTally
    <3> QED
      BY <2>4, <3>2
  <2> QED
    BY <2>1, <2>2, <2>3, <2>4 DEF Rebooted
<1> QED
  BY <1>5, <1>6

\* A call that was not open stays as it is.
LEMMA AsleepTally ==
  ASSUME NEW s, NEW k \in AgentIds, NEW a, NEW b, NEW y, NEW U, NEW up,
         Tally(s, k, a, b, y, U, up, {}), k \notin RunsIn(s),
         NEW s2, RunsIn(s2) = RunsIn(s), WaitsIn(s2) = WaitsIn(s),
         SameCall(s.ladder, s2.ladder, k), NEW D
  PROVE  Tally(s2, k, a, b, y, U, TRUE, D)
<1>1. /\ s2.ladder.calls[k].phase = s.ladder.calls[k].phase
      /\ s2.ladder.retry[k] = s.ladder.retry[k]
  BY DEF SameCall
<1>2. Charged(s2, k, D) => Charged(s, k, {})
  BY <1>1 DEF Charged
<1>4. /\ s2.ladder.calls[k].phase \in {"none", "running", "waiting_retry"}
      /\ k \in AgentBare => s2.ladder.calls[k].phase = "none"
      /\ a \in {0, 1} /\ b \in Nat /\ y \in Nat /\ b <= y + BudgetOf(k)
      /\ s2.ladder.calls[k].phase = "waiting_retry" => a = 0
  BY <1>1 DEF Tally
<1>5. Charged(s2, k, D) =>
        b <= y + s2.ladder.retry[k] + a /\ s2.ladder.retry[k] < BudgetOf(k)
  BY <1>1, <1>2 DEF Tally
<1>6. k \notin U \/ k \in WaitsIn(s2) =>
        b = 0 /\ a = 0 /\ y = 0 /\ CallIs(s2.ladder, k, "none", 0)
  BY <1>1 DEF Tally, CallIs
<1>7. ~(Awaits(s2, "tools") /\ k \in RunsIn(s2) \ D)
  OBVIOUS
<1> QED
  BY <1>4, <1>5, <1>6, <1>7, Zenon DEF Tally

\* The batch that was under way goes on: every open call has a handler or another
\* attempt, or is given up.
LEMMA BatchWakes ==
  ASSUME NEW s, NEW o, NEW n, NEW x, NEW U, NEW up, Sound(s, {}, o, n, x, U, up, {}),
         Awaits(s, "tools"), \A k \in AgentIds : o[k] = 0,
         NEW g \in AgentRuns, LiveRun(g),
         NEW z, LadderWoke(s.ladder, z, RunsIn(s)), NEW D, D = ToSet(z.settle),
         NEW s2, s2 = [s EXCEPT !.run = g, !.ladder = z.s]
  PROVE  Sound(s2, z.run, o, n, x, U, TRUE, D) /\ Driven(s2, z.run, o)
<1>1. /\ s \in AgentStates /\ ToolsFit(s) /\ ConvHolds(s.conv, OpenIn(s), U)
      /\ FanHolds(s.tools, RunsIn(s), WaitsIn(s)) /\ s.ladder \in Ladders
      /\ Tallied(s, {}, o, n, x, U, up, {}) /\ Books(o, n, x)
  BY DEF Sound, Shaped, ToolsFit, AgentStates
<1>2. z.s \in Ladders /\ z.run \subseteq AgentIds
  BY DEF LadderWoke, LadderSteps
<1>3. /\ s2 \in AgentStates /\ s2.tools = s.tools /\ s2.conv = s.conv /\ s2.run = g
      /\ s2.ladder = z.s
  BY <1>1, <1>2 DEF AgentStates
<1>4. RunsIn(s2) = RunsIn(s) /\ WaitsIn(s2) = WaitsIn(s) /\ OpenIn(s2) = OpenIn(s)
  BY <1>3 DEF RunsIn, WaitsIn, OpenIn
<1>5. s.conv.awaiting = "tools"
  BY DEF Awaits
<1>6. Shaped(s2, U)
  BY <1>1, <1>3, <1>4, <1>5 DEF Shaped, ToolsFit
<1>7. ASSUME NEW k \in AgentIds
      PROVE  Tally(s2, k, Plus(o, z.run, k), Plus(n, z.run, k), x[k], U, TRUE, D)
  <2>1. PICK b : b = n[k]
    OBVIOUS
  <2>2. PICK y : y = x[k]
    OBVIOUS
  <2>3. b \in Nat /\ s.ladder.retry[k] \in Nat
    BY <1>1, <2>1 DEF Books, Ladders, AgentSlices
  <2>4. Plus(o, {}, k) = 0 /\ Plus(n, {}, k) = b
    BY <2>1, <2>3 DEF Plus
  <2>5. Tally(s, k, 0, b, y, U, up, {})
    BY <1>1, <2>2, <2>4 DEF Tallied
  <2>6. CASE k \in RunsIn(s)
    <3>1. k \in U /\ k \notin WaitsIn(s2)
      BY <1>1, <1>4, <2>6 DEF ConvHolds, OpenIn, FanHolds
    <3>2. IF k \in z.run THEN Tally(s2, k, 1, b + 1, y, U, TRUE, D)
            ELSE Tally(s2, k, 0, b, y, U, TRUE, D)
      <4>1. PICK N : N = RunsIn(s)
        OBVIOUS
      <4>2. k \in N /\ LadderWoke(s.ladder, z, N)
        BY <2>6, <4>1
      <4> QED
        BY <1>3, <2>3, <2>5, <2>6, <3>1, <4>2, WokenTally
    <3>3. CASE k \in z.run
      <4>1. Plus(o, z.run, k) = 1 /\ Plus(n, z.run, k) = b + 1
        BY <2>1, <3>3 DEF Plus
      <4> QED
        BY <2>2, <3>2, <3>3, <4>1
    <3>4. CASE k \notin z.run
      <4>1. Plus(o, z.run, k) = 0 /\ Plus(n, z.run, k) = b
        BY <2>1, <2>3, <3>4 DEF Plus
      <4> QED
        BY <2>2, <3>2, <3>4, <4>1
    <3> QED
      BY <3>3, <3>4
  <2>7. CASE k \notin RunsIn(s)
    <3>1. k \notin z.run /\ SameCall(s.ladder, s2.ladder, k)
      BY <1>3, <2>7 DEF LadderWoke
    <3>2. Plus(o, z.run, k) = 0 /\ Plus(n, z.run, k) = b
      BY <2>1, <2>3, <3>1 DEF Plus
    <3>3. Tally(s2, k, 0, b, y, U, TRUE, D)
      BY <1>4, <2>5, <2>7, <3>1, AsleepTally
    <3> QED
      BY <2>2, <3>2, <3>3
  <2> QED
    BY <2>6, <2>7
<1>8. Tallied(s2, z.run, o, n, x, U, TRUE, D)
  BY <1>7 DEF Tallied
<1>9. z.run \subseteq AgentKeys /\ s2.run.phase # "idle"
  BY <1>2, <1>3, AgentFacts DEF LiveRun
<1>10. Sound(s2, z.run, o, n, x, U, TRUE, D)
  BY <1>1, <1>6, <1>8, <1>9 DEF Sound
<1>11. Driven(s2, z.run, o)
  BY <1>3, <1>5 DEF Driven
<1> QED
  BY <1>10, <1>11

\* The boot re-emits what the run waits for.
LEMMA BootFair ==
  ASSUME NEW s, NEW o, NEW n, NEW x, NEW U, NEW up, Sound(s, {}, o, n, x, U, up, {}),
         IsMidRun(s), \A k \in AgentIds : o[k] = 0,
         NEW stop, NEW plan \in Nat, NEW at \in Int,
         NEW r, r = BootVerb(s, stop, plan, at)
  PROVE  Fair(r, o, n, x, U)
<1>1. /\ s \in AgentStates /\ ToolsFit(s) /\ ConvHolds(s.conv, OpenIn(s), U)
      /\ FanHolds(s.tools, RunsIn(s), WaitsIn(s)) /\ s.ladder \in Ladders
      /\ Tallied(s, {}, o, n, x, U, up, {}) /\ Books(o, n, x)
      /\ s.run \in AgentRuns /\ s.conv \in AgentConvs
      /\ LiveRun(s.run) /\ ~IsSettled(s) => s.conv.awaiting # "none"
  BY DEF Sound, Shaped, ToolsFit, AgentStates
<1>2. LiveRun(s.run) /\ s.failure = "none"
  BY DEF IsMidRun
<1>3. ~IsSettled(s)
  BY <1>2 DEF IsSettled, LiveRun
<1>4. s.conv.awaiting # "none"
  BY <1>1, <1>2, <1>3
<1>5. PICK g : g = BootRun(s.run, at)
  OBVIOUS
<1>6. g \in AgentRuns /\ LiveRun(g) /\ g.phase # "idle"
  BY <1>1, <1>2, <1>5, RunProgresses DEF LiveRun
<1>7. PICK w : w = [s EXCEPT !.run = g]
  OBVIOUS
<1>8. /\ w \in AgentStates /\ w.tools = s.tools /\ w.conv = s.conv /\ w.ladder = s.ladder
      /\ w.run = g /\ w.failure = s.failure /\ w.compaction = s.compaction
  BY <1>1, <1>6, <1>7 DEF AgentStates
<1>9. ~IsSettled(w)
  BY <1>2, <1>6, <1>8 DEF IsSettled, LiveRun
<1>10. w = [s EXCEPT !.run = BootRun(@, at)]
  BY <1>1, <1>5, <1>7 DEF AgentStates
<1>11. CASE s.conv.awaiting = "llm"
  <2>1. r = FireBrain(w, at)
    BY <1>4, <1>9, <1>10, <1>11 DEF BootVerb
  <2>2. OpenIn(s) = {} /\ FanHolds(s.tools, {}, {})
    BY <1>1, <1>11, NothingOpen
  <2>3. PICK run : run = {}
    OBVIOUS
  <2>4. /\ Tallied(s, run, o, n, x, U, up, {}) /\ run \subseteq AgentKeys
        /\ FanHolds(w.tools, {}, {}) /\ w.run.phase # "idle" /\ U \subseteq U
        /\ ConvHolds(w.conv, {}, U) /\ w.conv.awaiting = "llm" /\ Books(o, n, x)
        /\ w \in AgentStates /\ w.ladder = s.ladder /\ at \in Int /\ r = FireBrain(w, at)
    BY <1>1, <1>6, <1>8, <1>11, <2>1, <2>2, <2>3
  <2>5. /\ Sound(r.s, r.run \union run, o, n, x, U, TRUE, {})
        /\ Driven(r.s, r.run \union run, o)
    BY ONLY <2>4, FiresSound
  <2>6. r.run \union run = r.run
    BY <2>3
  <2> QED
    BY <2>5, <2>6 DEF Fair
<1>12. CASE s.conv.awaiting = "compacting"
  <2>1. PICK c \in AgentSlices({"compact"}) : c = s.compaction
    BY <1>1 DEF AgentStates
  <2>2. PICK a : a = Attempt(AgentCompact, c, "compact", at, AgentDelay)
    OBVIOUS
  <2>3. a.s \in AgentSlices({"compact"}) /\ a.run = {"compact"}
    BY <2>2, CompactionFires
  <2>4. PICK t : t = [w EXCEPT !.compaction = a.s]
    OBVIOUS
  <2>5. /\ t \in AgentStates /\ t.tools = s.tools /\ t.conv = s.conv /\ t.ladder = s.ladder
        /\ t.run = g
    BY <1>8, <2>3, <2>4 DEF AgentStates
  <2>6. r = Verb(t, a.run)
    BY <1>4, <1>9, <1>10, <1>12, <2>1, <2>2, <2>4 DEF BootVerb, InCompaction, Recompact
  <2>7. OpenIn(s) = {} /\ FanHolds(s.tools, {}, {})
    BY <1>1, <1>12, NothingOpen
  <2>8. PICK none : none = {}
    OBVIOUS
  <2>9. PICK run \in SUBSET AgentKeys : run = {"compact"}
    BY AgentFacts
  <2>10. PICK D : D = {}
    OBVIOUS
  <2>11. /\ Tallied(s, none, o, n, x, U, up, D) /\ Books(o, n, x)
         /\ FanHolds(t.tools, {}, {}) /\ U \subseteq U /\ ConvHolds(t.conv, {}, U)
         /\ t.conv.awaiting # "tools" /\ t.run.phase # "idle"
         /\ (~IsSettled(t) => t.conv.awaiting # "none")
         /\ (\A k \in AgentIds : k \in run <=> k \in none)
    BY <1>1, <1>6, <1>12, <2>5, <2>7, <2>8, <2>9, <2>10, AgentFacts
  <2>12. Sound(t, run, o, n, x, U, TRUE, D)
    BY <2>5, <2>11, SoundWithoutTools
  <2>13. Driven(t, run, o)
    BY <1>12, <2>5, <2>9 DEF Driven
  <2>14. r.s = t /\ r.run = run
    BY <2>3, <2>6, <2>9 DEF Verb
  <2> QED
    BY <2>10, <2>12, <2>13, <2>14 DEF Fair
<1>13. CASE s.conv.awaiting = "tools"
  <2>1. PICK z : z = LadderBoot(AgentTool, AgentBare, s.ladder, s.tools.running, at,
                                AgentDelay)
    OBVIOUS
  <2>2. LadderWoke(s.ladder, z, RunsIn(s))
    <3>1. PICK N : N = RunsIn(s)
      OBVIOUS
    <3>2. PICK q : q = s.tools.running
      OBVIOUS
    <3>3. PICK e \in Ladders : e = s.ladder
      BY <1>1
    <3>4. Lists(q, N)
      BY <1>1, <3>1, <3>2 DEF FanHolds
    <3>5. LadderWoke(e, z, N)
      BY <2>1, <3>2, <3>3, <3>4, LadderBoots
    <3> QED
      BY <3>1, <3>3, <3>5
  <2>3. PICK D : D = ToSet(z.settle)
    OBVIOUS
  <2>4. PICK s2 : s2 = [s EXCEPT !.run = g, !.ladder = z.s]
    OBVIOUS
  <2>5. Awaits(s, "tools")
    BY <1>3, <1>13 DEF Awaits
  <2>6. Sound(s2, z.run, o, n, x, U, TRUE, D) /\ Driven(s2, z.run, o)
    BY <1>6, <2>2, <2>3, <2>4, <2>5, BatchWakes
  <2>7. z \in LadderSteps
    BY <2>2 DEF LadderWoke
  <2>8. s2 = [w EXCEPT !.ladder = z.s]
    BY <1>1, <1>7, <2>4 DEF AgentStates
  <2>9. r = ApplyLadder(w, z, stop, plan, at)
    BY <1>4, <1>9, <1>10, <1>13, <2>1 DEF BootVerb
  <2>10. PICK run : run = z.run
    OBVIOUS
  <2>11. /\ D \subseteq ToSet(z.settle) /\ Sound(s2, run, o, n, x, U, TRUE, D)
         /\ Driven(s2, run, o)
    BY <2>3, <2>6, <2>10
  <2> QED
    BY <2>7, <2>8, <2>9, <2>10, <2>11, AppliesFair
<1> QED
  BY <1>1, <1>4, <1>11, <1>12, <1>13 DEF AgentConvs

-----------------------------------------------------------------------------
(* The batches of the model.                                               *)

\* A list with one more call.
LEMMA ListAdds ==
  ASSUME NEW q, NEW S, Lists(q, S), NEW k \in AgentIds \ S, NEW r, r = Added(q, k)
  PROVE  Lists(r, S \union {k}) /\ Len(r) = Len(q) + 1
<1>1. /\ q \in Seq(AgentIds) /\ S \subseteq AgentIds
      /\ \A i, j \in 1 .. Len(q) : q[i] = q[j] => i = j
      /\ \A i \in 1 .. Len(q) : q[i] \in S
      /\ \A h \in S : \E i \in 1 .. Len(q) : q[i] = h
  BY ListIs
<1>2. PICK n \in Nat : n = Len(q)
  BY <1>1
<1>3. /\ r \in Seq(AgentIds) /\ Len(r) = n + 1 /\ r[n + 1] = k
      /\ \A i \in 1 .. n : r[i] = q[i]
  BY <1>1, <1>2 DEF Added
<1>4. \A i \in 1 .. (n + 1) : i \in 1 .. n \/ i = n + 1
  BY <1>2
<1>5. \A i, j \in 1 .. Len(r) : r[i] = r[j] => i = j
  BY <1>1, <1>2, <1>3, <1>4
<1>6. \A i \in 1 .. Len(r) : r[i] \in S \union {k}
  BY <1>1, <1>2, <1>3, <1>4
<1>7. \A h \in S \union {k} : \E i \in 1 .. Len(r) : r[i] = h
  <2>1. \A i \in 1 .. n : i \in 1 .. Len(r)
    BY <1>2, <1>3
  <2>2. n + 1 \in 1 .. Len(r)
    BY <1>2, <1>3
  <2> QED
    BY <1>1, <1>2, <1>3, <2>1, <2>2
<1>8. S \union {k} \subseteq AgentIds
  BY <1>1
<1>9. PICK T : T = S \union {k}
  OBVIOUS
<1>10. Lists(r, T)
  BY <1>3, <1>5, <1>6, <1>7, <1>8, <1>9, ListIs
<1> QED
  BY <1>2, <1>3, <1>9, <1>10

\* The ids of a batch, once each.
LEMMA Dedupes ==
  ASSUME NEW q \in Seq(AgentIds), NEW r, r = DedupeByCallId(q)
  PROVE  Lists(r, ToSet(q))
<1> DEFINE S == DOMAIN q
           X == {p \in Seq(AgentIds) : Lists(p, ToSet(p))}
           base == <<>>
           next(i, x) == IF Contains(x, q[i]) THEN x ELSE Append(x, q[i])
           G == [p \in S \X X |-> next(p[1], p[2])]
           iter == CHOOSE iter : iter =
                     [T \in SUBSET S |-> IF T = {} THEN base
                        ELSE next(Max(T), iter[T \ {Max(T)}])]
           Of(T) == {q[i] : i \in T}
<1>1. r = iter[S]
  BY DEF DedupeByCallId, FoldLeft, MapThenFoldSet
<1>2. PICK n \in Nat : n = Len(q) /\ S = 1 .. n
  OBVIOUS
<1>3. base \in X /\ Lists(base, {})
  BY DEF Lists, IsInjective, ToSet
<1>4. ASSUME NEW i \in S, NEW x, NEW M, Lists(x, M), NEW y, y = next(i, x)
      PROVE  Lists(y, M \union {q[i]}) /\ y \in X
  <2>1. q[i] \in AgentIds
    BY <1>2
  <2>2. Contains(x, q[i]) <=> q[i] \in M
    BY <1>4, ListFacts
  <2>3. PICK M2 : M2 = M \union {q[i]}
    OBVIOUS
  <2>4. Lists(y, M2)
    <3>1. CASE q[i] \in M
      <4>1. M2 = M /\ y = x
        BY <1>4, <2>2, <2>3, <3>1
      <4> QED
        BY <1>4, <4>1
    <3>2. CASE q[i] \notin M
      <4>1. PICK k \in AgentIds \ M : k = q[i]
        BY <2>1, <3>2
      <4>2. y = Added(x, k) /\ Lists(x, M)
        BY <1>4, <2>2, <3>2, <4>1 DEF Added
      <4>3. Lists(y, M \union {k})
        BY <4>1, <4>2, ListAdds
      <4> QED
        BY <2>3, <4>1, <4>3
    <3> QED
      BY <3>1, <3>2
  <2>5. y \in Seq(AgentIds) /\ ToSet(y) = M2
    BY <2>4, ListFacts
  <2> QED
    BY <2>3, <2>4, <2>5
<1>5. \A i \in S, x \in X : next(i, x) \in X
  BY <1>4
<1> HIDE DEF next, X
<1>6. \A i \in S, x \in X : G[<<i, x>>] = next(i, x)
  BY <1>5
<1>7. G \in [(1 .. n) \X X -> X]
  BY <1>2, <1>5
<1> HIDE DEF G, base
<1>8. PICK f \in [SUBSET S -> X] : \A T \in SUBSET S :
         f[T] = IF T = {} THEN base ELSE G[<<Max(T), f[T \ {Max(T)}]>>]
  <2>1. PlaceFoldings(1 .. n, X, base, G) # {}
    BY <1>3, <1>7, PlacesFold
  <2> QED
    BY <1>2, <2>1 DEF PlaceFoldings
<1>9. \A T \in SUBSET S : T # {} => Max(T) \in T
  BY <1>2, LastOfPlaces
<1> HIDE DEF S
<1>10. f = [T \in SUBSET S |-> IF T = {} THEN base ELSE next(Max(T), f[T \ {Max(T)}])]
  <2>1. \A T \in SUBSET S : T # {} => f[T] = next(Max(T), f[T \ {Max(T)}])
    BY <1>6, <1>8, <1>9
  <2> QED
    BY <1>8, <2>1
<1>11. iter = [T \in SUBSET S |-> IF T = {} THEN base
                 ELSE next(Max(T), iter[T \ {Max(T)}])]
  BY <1>10
<1> HIDE DEF iter
<1> DEFINE P == {T \in SUBSET S : Lists(iter[T], Of(T))}
<1>12. {} \in P
  <2>1. iter[{}] = base /\ Of({}) = {}
    BY <1>11
  <2> QED
    BY <1>3, <2>1
<1>13. \A T \in SUBSET S : T # {} => \E x \in T : T \ {x} \in P => T \in P
  <2> SUFFICES ASSUME NEW T \in SUBSET S, T # {}
               PROVE  \E x \in T : T \ {x} \in P => T \in P
    OBVIOUS
  <2>1. PICK i \in T : i = Max(T)
    BY <1>9
  <2>2. PICK x : x = iter[T \ {i}]
    OBVIOUS
  <2>3. PICK y : y = iter[T]
    OBVIOUS
  <2>4. y = next(i, x)
    BY <1>11, <2>1, <2>2, <2>3
  <2>5. PICK M : M = Of(T \ {i})
    OBVIOUS
  <2>6. M \union {q[i]} = Of(T)
    BY <2>1, <2>5
  <2>7. ASSUME T \ {i} \in P PROVE T \in P
    <3>1. Lists(x, M) /\ i \in S
      BY <2>1, <2>2, <2>5, <2>7
    <3>2. Lists(y, M \union {q[i]})
      BY <1>4, <2>4, <3>1
    <3>3. PICK M2 : M2 = Of(T)
      OBVIOUS
    <3>4. Lists(y, M2)
      BY <2>6, <3>2, <3>3
    <3> QED
      BY <2>3, <3>3, <3>4
  <2> QED
    BY <2>7
<1> HIDE DEF P
<1>14. \A T \in SUBSET S : T \in P
  <2>1. IsFiniteSet(S)
    BY <1>2, PlacesFinite
  <2> QED
    BY <1>12, <1>13, <2>1, SubsetInduction
<1>15. Lists(iter[S], Of(S))
  <2> HIDE DEF Of
  <2> QED
    BY <1>14 DEF P
<1>16. Of(S) = ToSet(q)
  BY DEF ToSet, S
<1> HIDE DEF Of
<1>17. PICK M : M = ToSet(q)
  OBVIOUS
<1>18. PICK h : h = iter[S]
  OBVIOUS
<1>19. Lists(h, M)
  BY <1>15, <1>16, <1>17, <1>18
<1> QED
  BY <1>1, <1>17, <1>18, <1>19

\* A list of as many calls as are in it.
LEMMA ListCounts ==
  ASSUME NEW q, NEW S, Lists(q, S)
  PROVE  /\ S = {} => Len(q) = 0
         /\ \A a \in S : S = {a} => Len(q) = 1
         /\ \A a, b \in S : a # b /\ S = {a, b} => Len(q) = 2
<1>1. /\ q \in Seq(AgentIds)
      /\ \A i, j \in 1 .. Len(q) : q[i] = q[j] => i = j
      /\ \A i \in 1 .. Len(q) : q[i] \in S
      /\ \A h \in S : \E i \in 1 .. Len(q) : q[i] = h
  BY ListIs
<1>2. PICK n \in Nat : n = Len(q)
  BY <1>1
<1>3. S = {} => n = 0
  <2>1. n # 0 => 1 \in 1 .. n
    BY <1>2
  <2> QED
    BY <1>1, <1>2, <2>1
<1>4. ASSUME NEW a \in S, S = {a} PROVE n = 1
  <2>1. n # 0
    BY <1>1, <1>2, <1>4
  <2>2. n >= 2 => 1 \in 1 .. n /\ 2 \in 1 .. n
    BY <1>2
  <2>3. ~(n >= 2)
    <3>1. ASSUME n >= 2 PROVE FALSE
      <4>1. 1 \in 1 .. n /\ 2 \in 1 .. n
        BY <2>2, <3>1
      <4>2. q[1] \in S /\ q[2] \in S
        BY <1>1, <1>2, <4>1
      <4>3. q[1] = a /\ q[2] = a
        BY <1>4, <4>2
      <4>4. q[1] = q[2] => 1 = 2
        BY <1>1, <1>2, <4>1
      <4> QED
        BY <4>3, <4>4
    <3> QED
      BY <3>1
  <2> QED
    BY <1>2, <2>1, <2>3
<1>5. ASSUME NEW a \in S, NEW b \in S, a # b, S = {a, b} PROVE n = 2
  <2>1. PICK i \in 1 .. n : q[i] = a
    BY <1>1, <1>2
  <2>2. PICK j \in 1 .. n : q[j] = b
    BY <1>1, <1>2
  <2>3. i # j
    BY <1>5, <2>1, <2>2
  <2>4. \A h \in 1 .. n : h = i \/ h = j
    <3>1. ASSUME NEW h \in 1 .. n PROVE h = i \/ h = j
      <4>1. q[h] = a \/ q[h] = b
        BY <1>1, <1>2, <1>5
      <4> QED
        BY <1>1, <1>2, <2>1, <2>2, <4>1
    <3> QED
      BY <3>1
  <2>5. i \in Int /\ j \in Int /\ i >= 1 /\ i <= n /\ j >= 1 /\ j <= n
    BY <1>2, <2>1, <2>2
  <2>6. n >= 2
    BY <1>2, <2>3, <2>5
  <2>7. n >= 3 => 1 \in 1 .. n /\ 2 \in 1 .. n /\ 3 \in 1 .. n
    BY <1>2
  <2>8. ~(n >= 3)
    BY <2>3, <2>4, <2>7
  <2> QED
    BY <1>2, <2>6, <2>8
<1> QED
  BY <1>2, <1>3, <1>4, <1>5

\* The batch is of the calls of N, all new, after which m ids are used.
BatchOf(calls, N, m) ==
  /\ Lists(DedupeByCallId(calls), N) /\ (calls = <<>> <=> N = {})
  /\ N \intersect UsedIds = {} /\ m \in 0 .. Len(AgentCalls)
  /\ UsedIds \union N \subseteq {AgentCalls[i] : i \in 1 .. m}

\* Every batch is.
LEMMA BatchesAreNew ==
  ASSUME agentUsed \in 0 .. Len(AgentCalls), NEW calls \in AgentBatches,
         NEW m, m = agentUsed + Len(DedupeByCallId(calls))
  PROVE  \E N : BatchOf(calls, N, m)
<1>1. /\ AgentCalls \in Seq(AgentIds)
      /\ \A i, j \in DOMAIN AgentCalls : AgentCalls[i] = AgentCalls[j] => i = j
  BY AgentAssumption DEF AgentAssumption, IsInjective
<1>2. PICK l \in Nat : l = Len(AgentCalls) /\ DOMAIN AgentCalls = 1 .. l
  BY <1>1
<1>3. PICK u \in 0 .. l : u = agentUsed
  BY <1>2
<1>4. u \in Nat /\ u <= l /\ UsedIds = {AgentCalls[i] : i \in 1 .. u}
  BY <1>2, <1>3 DEF UsedIds
<1>5. \A i \in 1 .. l : AgentCalls[i] \in AgentIds
  BY <1>2 DEF AgentIds
<1>6. PICK a : a = AgentCalls[u + 1]
  OBVIOUS
<1>7. PICK b : b = AgentCalls[u + 2]
  OBVIOUS
<1>8. u + 1 <= l => /\ a \in AgentIds /\ a \notin UsedIds
                    /\ u + 1 \in 0 .. l
                    /\ UsedIds \union {a} \subseteq {AgentCalls[i] : i \in 1 .. (u + 1)}
  <2>1. u + 1 <= l => u + 1 \in 1 .. l /\ u + 1 \in 0 .. l
    BY <1>4
  <2>2. \A i \in 1 .. u : i \in 1 .. l /\ i \in 1 .. (u + 1) /\ i # u + 1
    BY <1>2, <1>4
  <2>3. u + 1 \in 1 .. (u + 1)
    BY <1>4
  <2>4. u + 1 <= l => a \notin UsedIds
    BY <1>1, <1>2, <1>4, <1>6, <2>1, <2>2
  <2> QED
    BY <1>4, <1>5, <1>6, <2>1, <2>2, <2>3, <2>4
<1>9. u + 2 <= l => /\ b \in AgentIds /\ b \notin UsedIds /\ a # b
                    /\ u + 2 \in 0 .. l /\ u + 1 <= l
                    /\ UsedIds \union {a, b} \subseteq {AgentCalls[i] : i \in 1 .. (u + 2)}
  <2>1. u + 2 <= l => u + 2 \in 1 .. l /\ u + 2 \in 0 .. l /\ u + 1 \in 1 .. l /\ u + 1 <= l
    BY <1>4
  <2>2. \A i \in 1 .. u : i \in 1 .. l /\ i \in 1 .. (u + 2) /\ i # u + 2
    BY <1>2, <1>4
  <2>3. u + 1 \in 1 .. (u + 2) /\ u + 2 \in 1 .. (u + 2) /\ u + 1 # u + 2
    BY <1>4
  <2>4. u + 2 <= l => b \notin UsedIds
    BY <1>1, <1>2, <1>4, <1>7, <2>1, <2>2
  <2>5. u + 2 <= l => a # b
    BY <1>1, <1>2, <1>6, <1>7, <2>1, <2>3
  <2> QED
    BY <1>4, <1>5, <1>6, <1>7, <2>1, <2>2, <2>3, <2>4, <2>5
<1>10. ASSUME NEW S, S \subseteq AgentIds, calls \in Seq(AgentIds), ToSet(calls) = S
       PROVE  Lists(DedupeByCallId(calls), S)
  <2>1. PICK r : r = DedupeByCallId(calls)
    OBVIOUS
  <2>2. Lists(r, ToSet(calls))
    BY <1>10, <2>1, Dedupes
  <2>3. Lists(r, S)
    BY <1>10, <2>2
  <2> QED
    BY <2>1, <2>3
<1>11. \/ calls = <<>>
       \/ u + 1 <= l /\ (calls = <<a>> \/ calls = <<a, a>>)
       \/ u + 2 <= l /\ calls = <<a, b>>
  <2>1. \/ calls = <<>>
        \/ l - u >= 1 /\ (calls = <<a>> \/ calls = <<a, a>>)
        \/ l - u >= 2 /\ calls = <<a, b>>
    BY <1>2, <1>3, <1>6, <1>7 DEF AgentBatches
  <2> QED
    BY <1>4, <2>1
<1>12. CASE calls = <<>>
  <2>1. calls \in Seq(AgentIds) /\ ToSet(calls) = {}
    BY <1>12 DEF ToSet
  <2>2. PICK S : S = {}
    OBVIOUS
  <2>3. Lists(DedupeByCallId(calls), S)
    BY <1>10, <2>1, <2>2
  <2>4. Len(DedupeByCallId(calls)) = 0
    BY <2>2, <2>3, ListCounts
  <2>5. m = u
    BY <1>3, <1>4, <2>4
  <2>6. BatchOf(calls, S, m)
    BY <1>2, <1>3, <1>4, <1>12, <2>2, <2>3, <2>5 DEF BatchOf
  <2> QED
    BY <2>6
<1>13. CASE u + 1 <= l /\ (calls = <<a>> \/ calls = <<a, a>>)
  <2>1. calls \in Seq(AgentIds) /\ ToSet(calls) = {a} /\ calls # <<>>
    <3>1. CASE calls = <<a>>
      BY <1>8, <1>13, <3>1 DEF ToSet
    <3>2. CASE calls = <<a, a>>
      BY <1>8, <1>13, <3>2 DEF ToSet
    <3> QED
      BY <1>13, <3>1, <3>2
  <2>2. PICK S : S = {a}
    OBVIOUS
  <2>3. Lists(DedupeByCallId(calls), S)
    BY <1>8, <1>10, <1>13, <2>1, <2>2
  <2>4. Len(DedupeByCallId(calls)) = 1
    BY <2>2, <2>3, ListCounts
  <2>5. m = u + 1
    BY <1>3, <2>4
  <2>6. BatchOf(calls, S, m)
    BY <1>2, <1>8, <1>13, <2>1, <2>2, <2>3, <2>5 DEF BatchOf
  <2> QED
    BY <2>6
<1>14. CASE u + 2 <= l /\ calls = <<a, b>>
  <2>1. calls \in Seq(AgentIds) /\ ToSet(calls) = {a, b} /\ calls # <<>>
    BY <1>8, <1>9, <1>14 DEF ToSet
  <2>2. PICK S : S = {a, b}
    OBVIOUS
  <2>3. Lists(DedupeByCallId(calls), S)
    BY <1>8, <1>9, <1>10, <1>14, <2>1, <2>2
  <2>4. Len(DedupeByCallId(calls)) = 2
    BY <1>9, <1>14, <2>2, <2>3, ListCounts
  <2>5. m = u + 2
    BY <1>3, <2>4
  <2>6. BatchOf(calls, S, m)
    BY <1>2, <1>8, <1>9, <1>14, <2>1, <2>2, <2>3, <2>5 DEF BatchOf
  <2> QED
    BY <2>6
<1> QED
  BY <1>11, <1>12, <1>13, <1>14

-----------------------------------------------------------------------------
(* A fold.                                                                 *)

\* The counts, once the handlers of run have started.
Started(f, run, K) == [k \in K |-> f[k] + (IF k \in run THEN 1 ELSE 0)]

\* What a verb leaves is what the next Msg finds.
LEMMA FoldedReady ==
  ASSUME NEW r, NEW o, NEW n, NEW x, NEW U, Fair(r, o, n, x, U),
         NEW o2, o2 = Started(o, r.run, AgentKeys), NEW n2, n2 = Started(n, r.run, AgentIds)
  PROVE  Ready(r.s, o2, n2, x, U) /\ Driven(r.s, {}, o2)
<1>1. PICK s : s = r.s
  OBVIOUS
<1>2. PICK run : run = r.run
  OBVIOUS
<1>3. Sound(s, run, o, n, x, U, TRUE, {}) /\ Driven(s, run, o)
  BY <1>1, <1>2 DEF Fair
<1>4. /\ Shaped(s, U) /\ run \subseteq AgentKeys /\ Books(o, n, x)
      /\ Tallied(s, run, o, n, x, U, TRUE, {}) /\ s.run.phase # "idle"
  BY <1>3 DEF Sound
<1>5. /\ o2 \in [AgentKeys -> Nat] /\ n2 \in [AgentIds -> Nat]
      /\ \A k \in AgentKeys : o2[k] = Plus(o, run, k)
      /\ \A k \in AgentIds : n2[k] = Plus(n, run, k)
  BY <1>2, <1>4 DEF Books, Started, Plus
<1>6. Books(o2, n2, x)
  BY <1>4, <1>5 DEF Books
<1>7. \A k \in AgentIds : /\ Plus(o2, {}, k) = Plus(o, run, k)
                          /\ Plus(n2, {}, k) = Plus(n, run, k)
  <2>1. \A k \in AgentIds : k \in AgentKeys /\ o2[k] \in Nat /\ n2[k] \in Nat
    BY <1>5, AgentFacts
  <2>2. \A k \in AgentIds : Plus(o2, {}, k) = o2[k] /\ Plus(n2, {}, k) = n2[k]
    BY <2>1 DEF Plus
  <2> QED
    BY <1>5, <2>1, <2>2
<1>8. Tallied(s, {}, o2, n2, x, U, TRUE, {})
  BY <1>4, <1>7 DEF Tallied
<1>9. Ready(s, o2, n2, x, U)
  BY <1>4, <1>6, <1>8 DEF Ready, Sound
<1>10. \A k \in {"brain", "compact"} : k \in run \/ o[k] > 0 => o2[k] > 0
  <2>1. \A k \in {"brain", "compact"} : k \in AgentKeys /\ o[k] \in Nat
    BY <1>4, AgentFacts DEF Books
  <2> QED
    BY <1>5, <2>1 DEF Plus
<1>11. Driven(s, {}, o2)
  BY <1>3, <1>10 DEF Driven
<1> QED
  BY <1>1, <1>9, <1>11

\* The state, when the host is up.
LEMMA AgentUp ==
  ASSUME AgentInv, agentHost = "up"
  PROVE  /\ Ready(agent, agentOut, agentSent, agentKilled, UsedIds)
         /\ Driven(agent, {}, agentOut) /\ agentNow \in Int
         /\ agentOut \in [AgentKeys -> Nat] /\ agentUsed \in 0 .. Len(AgentCalls)
<1>1. PICK up \in BOOLEAN : up = (agentHost = "up")
  OBVIOUS
<1>2. Sound(agent, {}, agentOut, agentSent, agentKilled, UsedIds, up, {})
  BY <1>1 DEF AgentInv
<1>3. up = TRUE
  BY <1>1
<1>4. Ready(agent, agentOut, agentSent, agentKilled, UsedIds)
  BY <1>2, <1>3 DEF Ready
<1>5. Books(agentOut, agentSent, agentKilled)
  BY <1>2 DEF Sound
<1>6. agentNow \in Int
  BY AgentAssumption DEF AgentInv, AgentAssumption
<1> QED
  BY <1>4, <1>5, <1>6 DEF AgentInv, Books

\* The counts, without the handlers whose answers are folded.
CountsWithout(back) == [k \in AgentKeys |-> agentOut[k] - (IF k \in back THEN 1 ELSE 0)]

\* A fold keeps the invariant.
LEMMA FoldKeeps ==
  ASSUME AgentInv, NEW r, NEW back, Folds(r, back), NEW p, p = CountsWithout(back),
         NEW U, U = UsedIds', Fair(r, p, agentSent, agentKilled, U),
         agentHost' = "up", agentUsed' \in 0 .. Len(AgentCalls),
         \A t \in agentRing' : t \in agentRing
  PROVE  AgentInv'
<1>1. /\ agent' = r.s /\ agentKilled' = agentKilled /\ agentNow' = agentNow
      /\ agentSent' = Started(agentSent, r.run, AgentIds)
  BY DEF Folds, Started
<1>2. agentOut' = Started(p, r.run, AgentKeys)
  <2>1. \A k \in AgentKeys : p[k] = agentOut[k] - (IF k \in back THEN 1 ELSE 0)
    BY DEF CountsWithout
  <2> QED
    BY <2>1 DEF Folds, Started
<1>3. PICK o2 : o2 = Started(p, r.run, AgentKeys)
  OBVIOUS
<1>4. PICK n2 : n2 = Started(agentSent, r.run, AgentIds)
  OBVIOUS
<1>5. Ready(r.s, o2, n2, agentKilled, U) /\ Driven(r.s, {}, o2)
  BY <1>3, <1>4, FoldedReady
<1>6. Ready(agent', agentOut', agentSent', agentKilled', UsedIds') /\ Driven(agent', {}, agentOut')
  BY <1>1, <1>2, <1>3, <1>4, <1>5
<1>7. PICK up \in BOOLEAN : up = (agentHost' = "up")
  OBVIOUS
<1>8. up = TRUE
  BY <1>7
<1>9. Sound(agent', {}, agentOut', agentSent', agentKilled', UsedIds', up, {})
  BY <1>6, <1>8 DEF Ready
<1>10. Sound(agent', {}, agentOut', agentSent', agentKilled', UsedIds', agentHost' = "up", {})
  BY <1>7, <1>9
<1>11. /\ agentNow' \in 0 .. AgentHorizon /\ agentHost' \in {"down", "woken", "up"}
       /\ \A t \in agentRing' : RingFits(t)
  BY <1>1 DEF AgentInv
<1> QED
  BY <1>6, <1>10, <1>11 DEF AgentInv

\* An answer of the brain or the compaction changes no count of the tools.
LEMMA OwnAnswers ==
  ASSUME AgentInv, agentHost = "up", NEW k \in {"brain", "compact"}, agentOut[k] > 0,
         NEW p, p = CountsWithout({k})
  PROVE  /\ Ready(agent, p, agentSent, agentKilled, UsedIds)
         /\ \A j \in AgentKeys \ {k} : p[j] = agentOut[j]
<1>1. /\ Ready(agent, agentOut, agentSent, agentKilled, UsedIds)
      /\ agentOut \in [AgentKeys -> Nat]
  BY AgentUp
<1>2. \A j \in AgentKeys \ {k} : p[j] = agentOut[j]
  BY <1>1 DEF CountsWithout
<1>3. p \in [AgentKeys -> Nat]
  BY <1>1 DEF CountsWithout
<1>4. \A j \in AgentIds : p[j] = agentOut[j]
  BY <1>2, AgentFacts
<1>5. Ready(agent, p, agentSent, agentKilled, UsedIds)
  BY <1>1, <1>3, <1>4, ReadyOther
<1> QED
  BY <1>2, <1>5

\* An answer of a tool is counted once.
LEMMA ToolAnswers ==
  ASSUME AgentInv, agentHost = "up", NEW k \in AgentIds, agentOut[k] > 0,
         NEW p, p = CountsWithout({k})
  PROVE  Answered(agentOut, p, k) /\ Driven(agent, {}, p)
<1>1. /\ Ready(agent, agentOut, agentSent, agentKilled, UsedIds)
      /\ agentOut \in [AgentKeys -> Nat] /\ Driven(agent, {}, agentOut)
  BY AgentUp
<1>2. agentOut[k] \in {0, 1}
  BY <1>1, CallKnown
<1>3. agentOut[k] = 1
  BY <1>2
<1>4. p \in [AgentKeys -> Nat] /\ p[k] = 0
  BY <1>1, <1>3, AgentFacts DEF CountsWithout
<1>5. \A j \in AgentKeys \ {k} : p[j] = agentOut[j]
  BY <1>1 DEF CountsWithout
<1>6. \A j \in AgentIds \ {k} : p[j] = agentOut[j]
  BY <1>5, AgentFacts
<1>7. Answered(agentOut, p, k)
  BY <1>3, <1>4, <1>6 DEF Answered
<1>8. p["brain"] = agentOut["brain"] /\ p["compact"] = agentOut["compact"]
  BY <1>5, AgentFacts
<1>9. Driven(agent, {}, p)
  BY <1>1, <1>8 DEF Driven
<1> QED
  BY <1>7, <1>9

\* The ids used stay where the count does.
LEMMA UsedStays ==
  ASSUME UNCHANGED agentUsed
  PROVE  UsedIds' = UsedIds
BY DEF UsedIds

-----------------------------------------------------------------------------
(* The actions.                                                            *)

\* The brain answers.
LEMMA BrainOkKeeps ==
  ASSUME AgentInv, BrainOk
  PROVE  AgentInv'
<1>1. PICK calls \in AgentBatches :
        /\ Answers("brain")
        /\ Folds(BrainOkVerb(agent, calls, agentNow), {"brain"})
        /\ agentUsed' = agentUsed + Len(DedupeByCallId(calls))
  BY DEF BrainOk
<1>2. agentHost = "up" /\ agentOut["brain"] > 0 /\ agentRing' = agentRing /\ agentHost' = "up"
  BY <1>1 DEF Answers
<1>3. /\ Driven(agent, {}, agentOut) /\ agentNow \in Int
      /\ agentUsed \in 0 .. Len(AgentCalls)
  BY <1>2, AgentUp
<1>4. PICK p : p = CountsWithout({"brain"})
  OBVIOUS
<1>5. /\ Ready(agent, p, agentSent, agentKilled, UsedIds)
      /\ \A j \in AgentKeys \ {"brain"} : p[j] = agentOut[j]
  <2>1. PICK k \in {"brain", "compact"} : k = "brain"
    OBVIOUS
  <2>2. agentOut[k] > 0 /\ p = CountsWithout({k})
    BY <1>2, <1>4, <2>1
  <2>3. /\ Ready(agent, p, agentSent, agentKilled, UsedIds)
        /\ \A j \in AgentKeys \ {k} : p[j] = agentOut[j]
    BY <1>2, <2>2, OwnAnswers
  <2> QED
    BY <2>1, <2>3
<1>6. agentOut["compact"] = p["compact"]
  BY <1>5, AgentFacts
<1>7. PICK m : m = agentUsed + Len(DedupeByCallId(calls))
  OBVIOUS
<1>8. PICK N : BatchOf(calls, N, m)
  BY <1>3, <1>7, BatchesAreNew
<1>9. PICK r : r = BrainOkVerb(agent, calls, agentNow)
  OBVIOUS
<1>10. PICK U2 : U2 = UsedIds'
  OBVIOUS
<1>11. U2 = {AgentCalls[i] : i \in 1 .. m}
  BY <1>1, <1>7, <1>10 DEF UsedIds
<1>12. PICK U : U = UsedIds
  OBVIOUS
<1>13. /\ Lists(DedupeByCallId(calls), N) /\ (calls = <<>> <=> N = {})
       /\ N \intersect U = {} /\ m \in 0 .. Len(AgentCalls) /\ U \union N \subseteq U2
  BY <1>8, <1>11, <1>12 DEF BatchOf
<1>14. PICK s : s = agent
  OBVIOUS
<1>15. PICK at \in Int : at = agentNow
  BY <1>3
<1>16. PICK o : o = agentOut
  OBVIOUS
<1>17. PICK n : n = agentSent
  OBVIOUS
<1>18. PICK x : x = agentKilled
  OBVIOUS
<1>19. /\ Ready(s, p, n, x, U) /\ Driven(s, {}, o) /\ o["compact"] = p["compact"]
       /\ Lists(DedupeByCallId(calls), N) /\ (calls = <<>> <=> N = {})
       /\ N \intersect U = {} /\ U \union N \subseteq U2
       /\ at \in Int /\ r = BrainOkVerb(s, calls, at)
  BY <1>3, <1>5, <1>6, <1>9, <1>12, <1>13, <1>14, <1>15, <1>16, <1>17, <1>18
<1>20. Fair(r, p, n, x, U2)
  BY ONLY <1>19, BrainOkFair
<1>21. Fair(r, p, agentSent, agentKilled, U2)
  BY <1>17, <1>18, <1>20
<1>22. agentUsed' \in 0 .. Len(AgentCalls)
  BY <1>1, <1>7, <1>13
<1> QED
  BY <1>1, <1>2, <1>4, <1>9, <1>10, <1>21, <1>22, FoldKeeps

\* The brain fails.
LEMMA BrainErrKeeps ==
  ASSUME AgentInv, BrainErr
  PROVE  AgentInv'
<1>1. /\ Answers("brain") /\ Folds(BrainErrVerb(agent, agentNow), {"brain"})
      /\ UNCHANGED agentUsed
  BY DEF BrainErr
<1>2. agentHost = "up" /\ agentOut["brain"] > 0 /\ agentRing' = agentRing /\ agentHost' = "up"
  BY <1>1 DEF Answers
<1>3. /\ Driven(agent, {}, agentOut) /\ agentNow \in Int
      /\ agentUsed \in 0 .. Len(AgentCalls)
  BY <1>2, AgentUp
<1>4. PICK p : p = CountsWithout({"brain"})
  OBVIOUS
<1>5. /\ Ready(agent, p, agentSent, agentKilled, UsedIds)
      /\ \A j \in AgentKeys \ {"brain"} : p[j] = agentOut[j]
  <2>1. PICK k \in {"brain", "compact"} : k = "brain"
    OBVIOUS
  <2>2. agentOut[k] > 0 /\ p = CountsWithout({k})
    BY <1>2, <1>4, <2>1
  <2>3. /\ Ready(agent, p, agentSent, agentKilled, UsedIds)
        /\ \A j \in AgentKeys \ {k} : p[j] = agentOut[j]
    BY <1>2, <2>2, OwnAnswers
  <2> QED
    BY <2>1, <2>3
<1>6. agentOut["compact"] = p["compact"]
  BY <1>5, AgentFacts
<1>7. PICK r : r = BrainErrVerb(agent, agentNow)
  OBVIOUS
<1>8. PICK U : U = UsedIds' /\ U = UsedIds
  BY <1>1, UsedStays
<1>9. PICK s : s = agent
  OBVIOUS
<1>10. PICK at \in Int : at = agentNow
  BY <1>3
<1>11. PICK o : o = agentOut
  OBVIOUS
<1>12. PICK n : n = agentSent
  OBVIOUS
<1>13. PICK x : x = agentKilled
  OBVIOUS
<1>14. /\ Ready(s, p, n, x, U) /\ Driven(s, {}, o) /\ o["compact"] = p["compact"]
       /\ at \in Int /\ r = BrainErrVerb(s, at)
  BY <1>3, <1>5, <1>6, <1>7, <1>8, <1>9, <1>10, <1>11, <1>12, <1>13
<1>15. Fair(r, p, n, x, U)
  BY ONLY <1>14, BrainErrFair
<1>16. Fair(r, p, agentSent, agentKilled, U) /\ agentUsed' \in 0 .. Len(AgentCalls)
  BY <1>1, <1>3, <1>12, <1>13, <1>15
<1> QED
  BY <1>1, <1>2, <1>4, <1>7, <1>8, <1>16, FoldKeeps

\* The summary arrives.
LEMMA CompactOkKeeps ==
  ASSUME AgentInv, CompactOk
  PROVE  AgentInv'
<1>1. /\ Answers("compact") /\ Folds(CompactOkVerb(agent, agentNow), {"compact"})
      /\ UNCHANGED agentUsed
  BY DEF CompactOk
<1>2. agentHost = "up" /\ agentOut["compact"] > 0 /\ agentRing' = agentRing /\ agentHost' = "up"
  BY <1>1 DEF Answers
<1>3. /\ Driven(agent, {}, agentOut) /\ agentNow \in Int
      /\ agentUsed \in 0 .. Len(AgentCalls)
  BY <1>2, AgentUp
<1>4. PICK p : p = CountsWithout({"compact"})
  OBVIOUS
<1>5. /\ Ready(agent, p, agentSent, agentKilled, UsedIds)
      /\ \A j \in AgentKeys \ {"compact"} : p[j] = agentOut[j]
  <2>1. PICK k \in {"brain", "compact"} : k = "compact"
    OBVIOUS
  <2>2. agentOut[k] > 0 /\ p = CountsWithout({k})
    BY <1>2, <1>4, <2>1
  <2>3. /\ Ready(agent, p, agentSent, agentKilled, UsedIds)
        /\ \A j \in AgentKeys \ {k} : p[j] = agentOut[j]
    BY <1>2, <2>2, OwnAnswers
  <2> QED
    BY <2>1, <2>3
<1>6. agentOut["brain"] = p["brain"]
  BY <1>5, AgentFacts
<1>7. PICK r : r = CompactOkVerb(agent, agentNow)
  OBVIOUS
<1>8. PICK U : U = UsedIds' /\ U = UsedIds
  BY <1>1, UsedStays
<1>9. PICK s : s = agent
  OBVIOUS
<1>10. PICK at \in Int : at = agentNow
  BY <1>3
<1>11. PICK o : o = agentOut
  OBVIOUS
<1>12. PICK n : n = agentSent
  OBVIOUS
<1>13. PICK x : x = agentKilled
  OBVIOUS
<1>14. /\ Ready(s, p, n, x, U) /\ Driven(s, {}, o) /\ o["brain"] = p["brain"]
       /\ at \in Int /\ r = CompactOkVerb(s, at)
  BY <1>3, <1>5, <1>6, <1>7, <1>8, <1>9, <1>10, <1>11, <1>12, <1>13
<1>15. Fair(r, p, n, x, U)
  BY ONLY <1>14, CompactOkFair
<1>16. Fair(r, p, agentSent, agentKilled, U) /\ agentUsed' \in 0 .. Len(AgentCalls)
  BY <1>1, <1>3, <1>12, <1>13, <1>15
<1> QED
  BY <1>1, <1>2, <1>4, <1>7, <1>8, <1>16, FoldKeeps

\* The summary fails.
LEMMA CompactErrKeeps ==
  ASSUME AgentInv, CompactErr
  PROVE  AgentInv'
<1>1. /\ Answers("compact") /\ Folds(CompactErrVerb(agent, agentNow), {"compact"})
      /\ UNCHANGED agentUsed
  BY DEF CompactErr
<1>2. agentHost = "up" /\ agentOut["compact"] > 0 /\ agentRing' = agentRing /\ agentHost' = "up"
  BY <1>1 DEF Answers
<1>3. /\ Driven(agent, {}, agentOut) /\ agentNow \in Int
      /\ agentUsed \in 0 .. Len(AgentCalls)
  BY <1>2, AgentUp
<1>4. PICK p : p = CountsWithout({"compact"})
  OBVIOUS
<1>5. /\ Ready(agent, p, agentSent, agentKilled, UsedIds)
      /\ \A j \in AgentKeys \ {"compact"} : p[j] = agentOut[j]
  <2>1. PICK k \in {"brain", "compact"} : k = "compact"
    OBVIOUS
  <2>2. agentOut[k] > 0 /\ p = CountsWithout({k})
    BY <1>2, <1>4, <2>1
  <2>3. /\ Ready(agent, p, agentSent, agentKilled, UsedIds)
        /\ \A j \in AgentKeys \ {k} : p[j] = agentOut[j]
    BY <1>2, <2>2, OwnAnswers
  <2> QED
    BY <2>1, <2>3
<1>6. agentOut["brain"] = p["brain"]
  BY <1>5, AgentFacts
<1>7. PICK r : r = CompactErrVerb(agent, agentNow)
  OBVIOUS
<1>8. PICK U : U = UsedIds' /\ U = UsedIds
  BY <1>1, UsedStays
<1>9. PICK s : s = agent
  OBVIOUS
<1>10. PICK at \in Int : at = agentNow
  BY <1>3
<1>11. PICK o : o = agentOut
  OBVIOUS
<1>12. PICK n : n = agentSent
  OBVIOUS
<1>13. PICK x : x = agentKilled
  OBVIOUS
<1>14. /\ Ready(s, p, n, x, U) /\ Driven(s, {}, o) /\ o["brain"] = p["brain"]
       /\ at \in Int /\ r = CompactErrVerb(s, at)
  BY <1>3, <1>5, <1>6, <1>7, <1>8, <1>9, <1>10, <1>11, <1>12, <1>13
<1>15. Fair(r, p, n, x, U)
  BY ONLY <1>14, CompactErrFair
<1>16. Fair(r, p, agentSent, agentKilled, U) /\ agentUsed' \in 0 .. Len(AgentCalls)
  BY <1>1, <1>3, <1>12, <1>13, <1>15
<1> QED
  BY <1>1, <1>2, <1>4, <1>7, <1>8, <1>16, FoldKeeps

\* A tool answers.
LEMMA ToolOkKeeps ==
  ASSUME AgentInv, NEW k \in AgentIds, ToolOk(k)
  PROVE  AgentInv'
<1>1. PICK stop \in AgentStopWhen, plan \in AgentFolds :
        /\ Answers(k) /\ Folds(ToolOkVerb(agent, k, stop, plan, agentNow), {k})
        /\ UNCHANGED agentUsed
  BY DEF ToolOk
<1>2. agentHost = "up" /\ agentOut[k] > 0 /\ agentRing' = agentRing /\ agentHost' = "up"
  BY <1>1 DEF Answers
<1>3. /\ Ready(agent, agentOut, agentSent, agentKilled, UsedIds) /\ agentNow \in Int
      /\ agentUsed \in 0 .. Len(AgentCalls)
  BY <1>2, AgentUp
<1>4. PICK p : p = CountsWithout({k})
  OBVIOUS
<1>5. Answered(agentOut, p, k) /\ Driven(agent, {}, p)
  BY <1>2, <1>4, ToolAnswers
<1>6. plan \in Nat
  BY <1>1, AgentFacts
<1>7. PICK r : r = ToolOkVerb(agent, k, stop, plan, agentNow)
  OBVIOUS
<1>8. PICK U : U = UsedIds' /\ U = UsedIds
  BY <1>1, UsedStays
<1>9. PICK s : s = agent
  OBVIOUS
<1>10. PICK at \in Int : at = agentNow
  BY <1>3
<1>11. PICK o : o = agentOut
  OBVIOUS
<1>12. PICK n : n = agentSent
  OBVIOUS
<1>13. PICK x : x = agentKilled
  OBVIOUS
<1>14. /\ Ready(s, o, n, x, U) /\ k \in AgentIds /\ Answered(o, p, k) /\ Driven(s, {}, p)
       /\ plan \in Nat /\ at \in Int /\ r = ToolOkVerb(s, k, stop, plan, at)
  BY <1>3, <1>5, <1>6, <1>7, <1>8, <1>9, <1>10, <1>11, <1>12, <1>13
<1>15. Fair(r, p, n, x, U)
  BY ONLY <1>14, ToolOkFair
<1>16. Fair(r, p, agentSent, agentKilled, U) /\ agentUsed' \in 0 .. Len(AgentCalls)
  BY <1>1, <1>3, <1>12, <1>13, <1>15
<1> QED
  BY <1>1, <1>2, <1>4, <1>7, <1>8, <1>16, FoldKeeps

\* A tool fails.
LEMMA ToolErrKeeps ==
  ASSUME AgentInv, NEW k \in AgentIds, ToolErr(k)
  PROVE  AgentInv'
<1>1. PICK stop \in AgentStopWhen, plan \in AgentFolds :
        /\ Answers(k) /\ Folds(ToolErrVerb(agent, k, stop, plan, agentNow), {k})
        /\ UNCHANGED agentUsed
  BY DEF ToolErr
<1>2. agentHost = "up" /\ agentOut[k] > 0 /\ agentRing' = agentRing /\ agentHost' = "up"
  BY <1>1 DEF Answers
<1>3. /\ Ready(agent, agentOut, agentSent, agentKilled, UsedIds) /\ agentNow \in Int
      /\ agentUsed \in 0 .. Len(AgentCalls)
  BY <1>2, AgentUp
<1>4. PICK p : p = CountsWithout({k})
  OBVIOUS
<1>5. Answered(agentOut, p, k) /\ Driven(agent, {}, p)
  BY <1>2, <1>4, ToolAnswers
<1>6. plan \in Nat
  BY <1>1, AgentFacts
<1>7. PICK r : r = ToolErrVerb(agent, k, stop, plan, agentNow)
  OBVIOUS
<1>8. PICK U : U = UsedIds' /\ U = UsedIds
  BY <1>1, UsedStays
<1>9. PICK s : s = agent
  OBVIOUS
<1>10. PICK at \in Int : at = agentNow
  BY <1>3
<1>11. PICK o : o = agentOut
  OBVIOUS
<1>12. PICK n : n = agentSent
  OBVIOUS
<1>13. PICK x : x = agentKilled
  OBVIOUS
<1>14. /\ Ready(s, o, n, x, U) /\ k \in AgentIds /\ Answered(o, p, k) /\ Driven(s, {}, p)
       /\ plan \in Nat /\ at \in Int /\ r = ToolErrVerb(s, k, stop, plan, at)
  BY <1>3, <1>5, <1>6, <1>7, <1>8, <1>9, <1>10, <1>11, <1>12, <1>13
<1>15. Fair(r, p, n, x, U)
  BY ONLY <1>14, ToolErrFair
<1>16. Fair(r, p, agentSent, agentKilled, U) /\ agentUsed' \in 0 .. Len(AgentCalls)
  BY <1>1, <1>3, <1>12, <1>13, <1>15
<1> QED
  BY <1>1, <1>2, <1>4, <1>7, <1>8, <1>16, FoldKeeps

\* A fold that answers no handler.
LEMMA PlainFold ==
  ASSUME AgentInv, agentHost = "up"
  PROVE  CountsWithout({}) = agentOut
BY AgentUp DEF CountsWithout

\* Somebody cancels.
LEMMA CancelKeeps ==
  ASSUME AgentInv, Cancel
  PROVE  AgentInv'
<1>1. /\ agentHost = "up" /\ Folds(CancelAgent(agent), {})
      /\ agentRing' = agentRing /\ agentHost' = agentHost /\ UNCHANGED agentUsed
  BY DEF Cancel
<1>2. PICK p : p = CountsWithout({}) /\ p = agentOut
  BY <1>1, PlainFold
<1>3. /\ Ready(agent, p, agentSent, agentKilled, UsedIds)
      /\ agentUsed \in 0 .. Len(AgentCalls)
  BY <1>1, <1>2, AgentUp
<1>4. PICK r : r = CancelAgent(agent)
  OBVIOUS
<1>5. PICK U : U = UsedIds' /\ U = UsedIds
  BY <1>1, UsedStays
<1>6. Ready(agent, p, agentSent, agentKilled, U)
  BY <1>3, <1>5
<1>7. Fair(r, p, agentSent, agentKilled, U)
  BY <1>4, <1>6, CancelFair
<1>8. agentUsed' \in 0 .. Len(AgentCalls) /\ agentHost' = "up"
  BY <1>1, <1>3
<1> QED
  BY <1>1, <1>2, <1>4, <1>5, <1>7, <1>8, FoldKeeps

\* A timer that has rung is folded.
LEMMA TimerFoldsKeeps ==
  ASSUME AgentInv, TimerFolds
  PROVE  AgentInv'
<1>1. PICK t \in agentRing, stop \in AgentStopWhen, plan \in AgentFolds :
        /\ agentHost = "up" /\ agentRing' = {}
        /\ Folds(OnTimerVerb(agent, t, stop, plan), {})
        /\ agentHost' = agentHost /\ UNCHANGED agentUsed
  BY DEF TimerFolds
<1>2. PICK p : p = CountsWithout({}) /\ p = agentOut
  BY <1>1, PlainFold
<1>3. /\ Ready(agent, p, agentSent, agentKilled, UsedIds) /\ Driven(agent, {}, p)
      /\ agentUsed \in 0 .. Len(AgentCalls)
  BY <1>1, <1>2, AgentUp
<1>4. RingFits(t)
  BY <1>1 DEF AgentInv
<1>5. plan \in Nat
  BY <1>1, AgentFacts
<1>6. PICK r : r = OnTimerVerb(agent, t, stop, plan)
  OBVIOUS
<1>7. PICK U : U = UsedIds' /\ U = UsedIds
  BY <1>1, UsedStays
<1>8. PICK s : s = agent
  OBVIOUS
<1>9. PICK n : n = agentSent
  OBVIOUS
<1>10. PICK x : x = agentKilled
  OBVIOUS
<1>11. /\ Ready(s, p, n, x, U) /\ Driven(s, {}, p) /\ r = OnTimerVerb(s, t, stop, plan)
       /\ plan \in Nat /\ RingFits(t)
  BY <1>3, <1>4, <1>5, <1>6, <1>7, <1>8, <1>9, <1>10
<1>12. Fair(r, p, n, x, U)
  <2>1. CASE t.kind = "safety"
    <3>1. PICK g : g = OnDeadline(s.run, t.key, t.seq)
      OBVIOUS
    <3>2. s \in AgentStates
      BY <1>11, ReadyIs
    <3>3. r = Verb([s EXCEPT !.run = g], {})
      BY <1>11, <2>1, <3>1, <3>2 DEF OnTimerVerb, AgentStates
    <3>4. Ready(s, p, n, x, U) /\ Driven(s, {}, p)
      BY <1>11
    <3> QED
      BY <3>1, <3>3, <3>4, SafetyFair
  <2>2. CASE t.kind # "safety" /\ t.key = "compact"
    <3>1. t.at \in Int /\ t.kind # "deadline" /\ t.key = "compact"
      BY <1>11, <2>2, AgentFacts DEF RingFits
    <3>2. PICK a : a = OnTimer(AgentCompact, s.compaction, t, AgentDelay)
      OBVIOUS
    <3>3. r = InCompaction(s, a) /\ Ready(s, p, n, x, U) /\ Driven(s, {}, p)
      BY <1>11, <2>2, <3>2 DEF OnTimerVerb
    <3> QED
      BY <3>1, <3>2, <3>3, CompactionRings
  <2>3. CASE t.kind # "safety" /\ t.key = "brain"
    <3>1. t.at \in Int /\ t.kind # "deadline" /\ t.key = "brain"
      BY <1>11, <2>3, AgentFacts DEF RingFits
    <3>2. PICK a : a = OnTimer(AgentBrain, s.llm, t, AgentDelay)
      OBVIOUS
    <3>3. r = InBrain(s, a) /\ Ready(s, p, n, x, U) /\ Driven(s, {}, p)
      BY <1>11, <2>3, <3>2 DEF OnTimerVerb
    <3> QED
      BY <3>1, <3>2, <3>3, BrainRings
  <2>4. CASE t.kind # "safety" /\ t.key # "compact" /\ t.key # "brain"
    <3>1. PICK k \in AgentIds : k = t.key
      BY <1>11, <2>4, AgentFacts DEF RingFits
    <3>2. PICK at \in Int : at = t.at
      BY <1>11, <2>4 DEF RingFits
    <3>3. PICK y : y = LadderTimer(AgentTool, s.ladder, t, AgentDelay)
      OBVIOUS
    <3>4. /\ r = ApplyLadder(s, y, stop, plan, at) /\ t.key = k /\ t.at \in Int
          /\ Ready(s, p, n, x, U) /\ Driven(s, {}, p) /\ plan \in Nat
      BY <1>11, <2>4, <3>1, <3>2, <3>3 DEF OnTimerVerb
    <3> QED
      BY <3>1, <3>2, <3>3, <3>4, ToolRings
  <2> QED
    BY <2>1, <2>2, <2>3, <2>4
<1>13. /\ Fair(r, p, agentSent, agentKilled, U) /\ agentUsed' \in 0 .. Len(AgentCalls)
       /\ agentHost' = "up" /\ \A e \in agentRing' : e \in agentRing
  BY <1>1, <1>3, <1>9, <1>10, <1>12
<1> QED
  BY <1>1, <1>2, <1>6, <1>7, <1>13, FoldKeeps

\* The first Msg of a process.
LEMMA BeginKeeps ==
  ASSUME AgentInv, Begin
  PROVE  AgentInv'
<1>1. PICK stop \in AgentStopWhen, plan \in AgentFolds :
        /\ agentHost = "woken" /\ agentHost' = "up"
        /\ IF IsMidRun(agent)
             THEN Folds(BootVerb(agent, stop, plan, agentNow), {})
             ELSE /\ agent.run.id < AgentMaxStarts
                  /\ Folds(StartAgent(agent, agentNow), {})
        /\ agentRing' = agentRing /\ UNCHANGED agentUsed
  BY DEF Begin
<1>2. PICK up : up = (agentHost = "up")
  OBVIOUS
<1>3. Sound(agent, {}, agentOut, agentSent, agentKilled, UsedIds, up, {})
  BY <1>2 DEF AgentInv
<1>4. agentOut \in [AgentKeys -> Nat] /\ \A k \in AgentKeys : agentOut[k] = 0
  BY <1>1, <1>3 DEF AgentInv, Sound, Books
<1>5. PICK p : p = CountsWithout({}) /\ p = agentOut
  BY <1>4 DEF CountsWithout
<1>6. plan \in Nat /\ agentNow \in Int /\ agentUsed \in 0 .. Len(AgentCalls)
  BY <1>1, AgentFacts, AgentAssumption DEF AgentInv, AgentAssumption
<1>7. PICK U : U = UsedIds' /\ U = UsedIds
  BY <1>1, UsedStays
<1>8. PICK s : s = agent
  OBVIOUS
<1>9. PICK at \in Int : at = agentNow
  BY <1>6
<1>10. PICK n : n = agentSent
  OBVIOUS
<1>11. PICK x : x = agentKilled
  OBVIOUS
<1>12. Sound(s, {}, p, n, x, U, up, {}) /\ \A k \in AgentIds : p[k] = 0
  BY <1>3, <1>4, <1>5, <1>7, <1>8, <1>10, <1>11, AgentFacts
<1>13. CASE IsMidRun(agent)
  <2>1. PICK r : r = BootVerb(s, stop, plan, at)
    OBVIOUS
  <2>2. /\ Sound(s, {}, p, n, x, U, up, {}) /\ IsMidRun(s) /\ (\A k \in AgentIds : p[k] = 0)
        /\ plan \in Nat /\ at \in Int /\ r = BootVerb(s, stop, plan, at)
    BY <1>6, <1>8, <1>9, <1>12, <1>13, <2>1
  <2>3. Fair(r, p, n, x, U)
    BY ONLY <2>2, BootFair
  <2>4. /\ Fair(r, p, agentSent, agentKilled, U) /\ agentUsed' \in 0 .. Len(AgentCalls)
        /\ Folds(r, {})
    BY <1>1, <1>6, <1>8, <1>9, <1>10, <1>11, <1>13, <2>1, <2>3
  <2> QED
    BY <1>1, <1>5, <1>7, <2>4, FoldKeeps
<1>14. CASE ~IsMidRun(agent)
  <2>1. PICK r : r = StartAgent(s, at)
    OBVIOUS
  <2>2. Sound(s, {}, p, n, x, U, up, {}) /\ at \in Int /\ r = StartAgent(s, at)
    BY <1>9, <1>12, <2>1
  <2>3. Fair(r, p, n, x, U)
    BY ONLY <2>2, StartFair
  <2>4. /\ Fair(r, p, agentSent, agentKilled, U) /\ agentUsed' \in 0 .. Len(AgentCalls)
        /\ Folds(r, {})
    BY <1>1, <1>6, <1>8, <1>9, <1>10, <1>11, <1>14, <2>1, <2>3
  <2> QED
    BY <1>1, <1>5, <1>7, <2>4, FoldKeeps
<1> QED
  BY <1>13, <1>14

\* The timers of a slice are of its calls, and a deadline of a call with one.
LEMMA SliceTimers ==
  ASSUME NEW K, K \subseteq AgentKeys, NEW s \in AgentSlices(K), NEW c,
         c.deadline > 0 => K \subseteq AgentIds, NEW t \in Deadlines(c, s)
  PROVE  RingFits(t)
<1>1. DOMAIN s.calls = K /\ \A k \in K : s.calls[k] \in Calls
  BY DEF AgentSlices
<1>2. \A k \in K : /\ s.calls[k].retryAt \in Int
                   /\ s.calls[k].since + s.calls[k].left \in Int
  BY <1>1 DEF Calls
<1>3. CASE \E k \in K : t = Timer("retry", k, s.calls[k].retryAt)
  <2>1. PICK k \in K : t = Timer("retry", k, s.calls[k].retryAt)
    BY <1>3
  <2> QED
    BY <1>2, <2>1 DEF RingFits, Timer
<1>4. CASE \E k \in K : /\ c.deadline > 0
                        /\ t = Timer("deadline", k, s.calls[k].since + s.calls[k].left)
  <2>1. PICK k \in K : /\ c.deadline > 0
                       /\ t = Timer("deadline", k, s.calls[k].since + s.calls[k].left)
    BY <1>4
  <2>2. PICK at \in Int : at = s.calls[k].since + s.calls[k].left
    BY <1>2, <2>1
  <2>3. t.kind = "deadline" /\ t.key = k /\ t.at = at
    BY <2>1, <2>2 DEF Timer
  <2>4. k \in AgentIds /\ k \in AgentKeys
    BY <2>1
  <2> QED
    BY <2>2, <2>3, <2>4 DEF RingFits
<1> QED
  BY <1>1, <1>3, <1>4 DEF Deadlines

\* A timer of the agent has a key to ring for.
LEMMA TimersFit ==
  ASSUME NEW s \in AgentStates, NEW t \in AgentTimers(s)
  PROVE  RingFits(t)
<1>1. /\ s.llm \in AgentSlices({"brain"}) /\ s.compaction \in AgentSlices({"compact"})
      /\ s.ladder \in AgentSlices(AgentIds)
  BY DEF AgentStates, Ladders
<1>2. CASE t \in Deadlines(AgentBrain, s.llm)
  <2>1. {"brain"} \subseteq AgentKeys /\ ~(AgentBrain.deadline > 0)
    BY AgentFacts
  <2> QED
    BY <1>1, <1>2, <2>1, SliceTimers
<1>3. CASE t \in Deadlines(AgentCompact, s.compaction)
  <2>1. {"compact"} \subseteq AgentKeys /\ ~(AgentCompact.deadline > 0)
    BY AgentFacts
  <2> QED
    BY <1>1, <1>3, <2>1, SliceTimers
<1>4. CASE t \in Deadlines(AgentTool, s.ladder)
  BY <1>1, <1>4, AgentFacts, SliceTimers
<1>5. CASE t \in RunDeadlines(s.run, AgentWatchdog)
  <2>1. t.kind = "safety"
    BY <1>5 DEF RunDeadlines
  <2> QED
    BY <2>1 DEF RingFits
<1> QED
  BY <1>2, <1>3, <1>4, <1>5 DEF AgentTimers

\* A timer rings into the line.
LEMMA TimerRingsKeeps ==
  ASSUME AgentInv, TimerRings
  PROVE  AgentInv'
<1>1. PICK t \in AgentTimers(agent) :
        /\ agentHost = "up" /\ agentRing' = {t}
        /\ UNCHANGED <<agent, agentOut, agentHost, agentNow, agentUsed, agentSent, agentKilled>>
  BY DEF TimerRings, agentHistory
<1>2. agent \in AgentStates
  BY DEF AgentInv, Sound, Shaped
<1>3. RingFits(t)
  BY <1>1, <1>2, TimersFit
<1>4. UsedIds' = UsedIds
  BY <1>1, UsedStays
<1>5. Sound(agent', {}, agentOut', agentSent', agentKilled', UsedIds', agentHost' = "up", {})
  <2>1. Sound(agent, {}, agentOut, agentSent, agentKilled, UsedIds, agentHost = "up", {})
    BY DEF AgentInv
  <2> QED
    BY <1>1, <1>4, <2>1
<1>6. Driven(agent', {}, agentOut')
  BY <1>1 DEF AgentInv
<1> QED
  BY <1>1, <1>3, <1>5, <1>6 DEF AgentInv

\* The books of a call whose handler a crash kills.
LEMMA KilledTally ==
  ASSUME NEW s, NEW k \in AgentIds, NEW a, NEW b, NEW y, NEW U, NEW up,
         Tally(s, k, a, b, y, U, up, {}), NEW down, down = FALSE,
         s.ladder.retry[k] \in Nat
  PROVE  Tally(s, k, 0, b, y + a, U, down, {})
<1>1. /\ a \in {0, 1} /\ b \in Nat /\ y \in Nat /\ b <= y + BudgetOf(k)
      /\ s.ladder.calls[k].phase \in {"none", "running", "waiting_retry"}
      /\ k \in AgentBare => s.ladder.calls[k].phase = "none"
  BY DEF Tally
<1>2. BudgetOf(k) \in Nat
  BY AgentFacts
<1>3. 0 \in {0, 1} /\ y + a \in Nat /\ b <= (y + a) + BudgetOf(k)
  BY <1>1, <1>2
<1>4. Charged(s, k, {}) =>
        b <= (y + a) + s.ladder.retry[k] + 0 /\ s.ladder.retry[k] < BudgetOf(k)
  <2>1. Charged(s, k, {}) => b <= y + s.ladder.retry[k] + a /\ s.ladder.retry[k] < BudgetOf(k)
    BY DEF Tally
  <2>2. a \in Nat
    BY <1>1
  <2> QED
    BY <1>1, <2>1, <2>2
<1>5. k \notin U \/ k \in WaitsIn(s) =>
        b = 0 /\ 0 = 0 /\ y + a = 0 /\ CallIs(s.ladder, k, "none", 0)
  BY DEF Tally
<1>6. Handled(s, k, a, up) => Handled(s, k, 0, down)
  BY DEF Handled
<1>7. Awaits(s, "tools") /\ k \in RunsIn(s) \ {} => Handled(s, k, 0, down)
  BY <1>6 DEF Tally
<1> QED
  BY <1>1, <1>3, <1>4, <1>5, <1>7, Zenon DEF Tally

\* A crash keeps the slice, and kills the handlers.
LEMMA CrashKeeps ==
  ASSUME AgentInv, Crash
  PROVE  AgentInv'
<1>1. /\ agentHost' = "down" /\ agentRing' = {}
      /\ agentOut' = [k \in AgentKeys |-> 0]
      /\ agentKilled' = [k \in AgentIds |-> agentKilled[k] + agentOut[k]]
      /\ UNCHANGED <<agent, agentNow, agentUsed, agentSent>>
  BY DEF Crash
<1>2. PICK up : up = (agentHost = "up")
  OBVIOUS
<1>3. Sound(agent, {}, agentOut, agentSent, agentKilled, UsedIds, up, {})
  BY <1>2 DEF AgentInv
<1>4. PICK down : down = FALSE
  OBVIOUS
<1>5. PICK s : s = agent
  OBVIOUS
<1>6. PICK o : o = agentOut
  OBVIOUS
<1>7. PICK n : n = agentSent
  OBVIOUS
<1>8. PICK x : x = agentKilled
  OBVIOUS
<1>9. PICK U : U = UsedIds
  OBVIOUS
<1>10. PICK o2 : o2 = agentOut'
  OBVIOUS
<1>11. PICK x2 : x2 = agentKilled'
  OBVIOUS
<1>12. /\ Shaped(s, U) /\ Books(o, n, x) /\ Tallied(s, {}, o, n, x, U, up, {})
       /\ s.ladder \in Ladders
  BY <1>3, <1>5, <1>6, <1>7, <1>8, <1>9 DEF Sound, Shaped, AgentStates
<1>13. /\ o2 \in [AgentKeys -> Nat] /\ (\A k \in AgentKeys : o2[k] = 0)
       /\ x2 \in [AgentIds -> Nat] /\ (\A k \in AgentIds : x2[k] = x[k] + o[k])
  <2>1. \A k \in AgentIds : x[k] + o[k] \in Nat
    BY <1>12, AgentFacts DEF Books
  <2> QED
    BY <1>1, <1>6, <1>8, <1>10, <1>11, <2>1
<1>14. Books(o2, n, x2)
  BY <1>12, <1>13 DEF Books
<1>15. Tallied(s, {}, o2, n, x2, U, down, {})
  <2>1. ASSUME NEW k \in AgentIds
        PROVE  Tally(s, k, Plus(o2, {}, k), Plus(n, {}, k), x2[k], U, down, {})
    <3>1. PICK a : a = o[k]
      OBVIOUS
    <3>2. PICK b : b = n[k]
      OBVIOUS
    <3>3. PICK y : y = x[k]
      OBVIOUS
    <3>4. a \in Nat /\ b \in Nat /\ s.ladder.retry[k] \in Nat
      BY <1>12, <3>1, <3>2, AgentFacts DEF Books, Ladders, AgentSlices
    <3>5. Plus(o, {}, k) = a /\ Plus(n, {}, k) = b
      BY <3>1, <3>2, <3>4 DEF Plus
    <3>6. Tally(s, k, a, b, y, U, up, {})
      BY <1>12, <3>3, <3>5 DEF Tallied
    <3>7. Tally(s, k, 0, b, y + a, U, down, {})
      BY <1>4, <3>4, <3>6, KilledTally
    <3>8. Plus(o2, {}, k) = 0 /\ x2[k] = y + a
      BY <1>13, <3>1, <3>3, AgentFacts DEF Plus
    <3> QED
      BY <3>5, <3>7, <3>8
  <2> QED
    BY <2>1 DEF Tallied
<1>16. Sound(s, {}, o2, n, x2, U, down, {})
  BY <1>4, <1>12, <1>14, <1>15 DEF Sound
<1>17. UsedIds' = UsedIds
  BY <1>1, UsedStays
<1>18. Sound(agent', {}, agentOut', agentSent', agentKilled', UsedIds', agentHost' = "up", {})
  <2>1. (agentHost' = "up") = down
    BY <1>1, <1>4
  <2> QED
    BY <1>1, <1>5, <1>7, <1>9, <1>10, <1>11, <1>16, <1>17, <2>1
<1>19. \A k \in AgentKeys : agentOut'[k] = 0
  BY <1>1
<1> QED
  BY <1>1, <1>18, <1>19 DEF AgentInv

\* The process is started again.
LEMMA WakeKeeps ==
  ASSUME AgentInv, Wake
  PROVE  AgentInv'
<1>1. /\ agentHost = "down" /\ agentHost' = "woken"
      /\ UNCHANGED <<agent, agentOut, agentRing, agentNow, agentUsed, agentSent, agentKilled>>
  BY DEF Wake, agentHistory
<1>2. UsedIds' = UsedIds
  BY <1>1, UsedStays
<1>3. (agentHost' = "up") = (agentHost = "up")
  BY <1>1
<1>4. Sound(agent', {}, agentOut', agentSent', agentKilled', UsedIds', agentHost' = "up", {})
  <2>1. Sound(agent, {}, agentOut, agentSent, agentKilled, UsedIds, agentHost = "up", {})
    BY DEF AgentInv
  <2> QED
    BY <1>1, <1>2, <1>3, <2>1
<1> QED
  BY <1>1, <1>4 DEF AgentInv

\* Nothing but the clock and the bound of the crashes moves.
LEMMA AgentRests ==
  ASSUME AgentInv, agentNow' \in 0 .. AgentHorizon,
         UNCHANGED <<agent, agentOut, agentRing, agentHost, agentUsed, agentSent, agentKilled>>
  PROVE  AgentInv'
<1>1. UsedIds' = UsedIds
  BY UsedStays
<1>2. Sound(agent', {}, agentOut', agentSent', agentKilled', UsedIds', agentHost' = "up", {})
  <2>1. Sound(agent, {}, agentOut, agentSent, agentKilled, UsedIds, agentHost = "up", {})
    BY DEF AgentInv
  <2> QED
    BY <1>1, <2>1
<1>3. agentHost' = "up" => Driven(agent', {}, agentOut')
  BY DEF AgentInv
<1> QED
  BY <1>2, <1>3 DEF AgentInv

\* The clock moves.
LEMMA AgentTimeKeeps ==
  ASSUME AgentInv, AgentTime
  PROVE  AgentInv'
<1>1. /\ agentNow < AgentHorizon /\ agentNow' = agentNow + 1
      /\ UNCHANGED <<agent, agentOut, agentRing, agentHost, agentUsed, agentSent, agentKilled>>
  BY DEF AgentTime
<1>2. agentNow' \in 0 .. AgentHorizon
  BY <1>1, AgentAssumption DEF AgentInv, AgentAssumption
<1> QED
  BY <1>1, <1>2, AgentRests

-----------------------------------------------------------------------------
(* The invariant of the agent, and what it says.                           *)

\* The agent that has not been started.
LEMMA InitAgentIs ==
  ASSUME NEW s, s = InitAgent
  PROVE  /\ s \in AgentStates /\ RunsIn(s) = {} /\ WaitsIn(s) = {}
         /\ FanHolds(s.tools, {}, {}) /\ s.conv = NoConv /\ ~LiveRun(s.run)
         /\ \A k \in AgentIds : CallIs(s.ladder, k, "none", 0)
<1>1. /\ s.run = InitRun /\ s.tools = InitFan /\ s.conv = NoConv
      /\ s.llm = InitSlice(AgentBrain, {"brain"})
      /\ s.compaction = InitSlice(AgentCompact, {"compact"})
      /\ s.ladder = InitSlice(AgentTool, AgentIds)
      /\ s.refused = <<>> /\ s.failure = "none" /\ s.output = FALSE
      /\ s = [run |-> s.run, llm |-> s.llm, compaction |-> s.compaction,
              ladder |-> s.ladder, tools |-> s.tools, conv |-> s.conv,
              refused |-> s.refused, failure |-> s.failure, output |-> s.output]
  BY DEF InitAgent
<1>2. s.run \in AgentRuns /\ ~LiveRun(s.run)
  BY <1>1 DEF InitRun, AgentRuns, RunPhases, LiveRun, QueueOf
<1>3. s.llm \in AgentSlices({"brain"}) /\ s.compaction \in AgentSlices({"compact"})
  BY <1>1, AgentFacts, AgentInitSlice
<1>4. s.ladder \in Ladders /\ \A k \in AgentIds : CallIs(s.ladder, k, "none", 0)
  <2>1. RetryOnly(AgentTool)
    BY AgentAssumption DEF AgentAssumption
  <2> QED
    BY <1>1, <2>1, AgentInitSlice DEF Ladders, CallIs
<1>5. FanHolds(s.tools, {}, {}) /\ s.tools \in AgentFans
  BY <1>1, NewFan DEF FanHolds
<1>6. s.conv \in AgentConvs
  BY <1>1, NewConvs
<1>7. RunsIn(s) = {} /\ WaitsIn(s) = {}
  BY <1>5 DEF FanHolds, Lists, RunsIn, WaitsIn
<1>8. s.refused \in Seq(AgentIds) /\ s.failure = "none" /\ s.output \in BOOLEAN
  <2>1. s.output \in BOOLEAN
    BY <1>1, Zenon
  <2>2. s.refused \in Seq(AgentIds)
    BY <1>1
  <2> QED
    BY <1>1, <2>1, <2>2, Zenon
<1>9. s \in AgentStates
  BY <1>1, <1>2, <1>3, <1>4, <1>5, <1>6, <1>8 DEF AgentStates
<1> QED
  BY <1>1, <1>2, <1>4, <1>5, <1>7, <1>9

\* The invariant holds at the start.
LEMMA AgentInitial ==
  ASSUME InitAgentHost
  PROVE  AgentInv
<1>1. PICK s : s = agent
  OBVIOUS
<1>2. /\ s = InitAgent /\ agentRing = {} /\ agentHost = "woken"
      /\ agentNow = 0 /\ agentUsed = 0
      /\ agentOut = [k \in AgentKeys |-> 0] /\ agentSent = [k \in AgentIds |-> 0]
      /\ agentKilled = [k \in AgentIds |-> 0]
  BY <1>1 DEF InitAgentHost
<1>3. /\ s \in AgentStates /\ RunsIn(s) = {} /\ WaitsIn(s) = {}
      /\ FanHolds(s.tools, {}, {}) /\ s.conv = NoConv /\ ~LiveRun(s.run)
      /\ \A k \in AgentIds : CallIs(s.ladder, k, "none", 0)
  BY <1>2, InitAgentIs
<1>4. UsedIds = {}
  BY <1>2 DEF UsedIds
<1>5. s.conv.awaiting = "none" /\ ConvHolds(s.conv, {}, {})
  BY <1>3, NewConvs
<1>6. OpenIn(s) = {}
  BY <1>3 DEF OpenIn
<1>7. Shaped(s, {})
  BY <1>3, <1>5, <1>6 DEF Shaped, ToolsFit
<1>8. PICK o : o = agentOut
  OBVIOUS
<1>9. PICK n : n = agentSent
  OBVIOUS
<1>10. PICK x : x = agentKilled
  OBVIOUS
<1>11. Books(o, n, x)
  BY <1>2, <1>8, <1>9, <1>10 DEF Books
<1>12. PICK up \in BOOLEAN : up = (agentHost = "up") /\ up = FALSE
  BY <1>2
<1>13. Tallied(s, {}, o, n, x, {}, up, {})
  <2> SUFFICES ASSUME NEW k \in AgentIds
               PROVE  Tally(s, k, Plus(o, {}, k), Plus(n, {}, k), x[k], {}, up, {})
    BY DEF Tallied
  <2>1. Plus(o, {}, k) = 0 /\ Plus(n, {}, k) = 0 /\ x[k] = 0
    BY <1>2, <1>8, <1>9, <1>10, AgentFacts DEF Plus
  <2>2. s.ladder.calls[k].phase = "none" /\ CallIs(s.ladder, k, "none", 0)
    BY <1>3 DEF CallIs
  <2>3. ~Charged(s, k, {}) /\ ~Awaits(s, "tools")
    BY <1>3, <1>5, <2>2 DEF Charged, Awaits
  <2>4. 0 <= 0 + BudgetOf(k)
    BY AgentFacts
  <2> QED
    BY <2>1, <2>2, <2>3, <2>4 DEF Tally
<1>14. Sound(s, {}, o, n, x, {}, up, {})
  BY <1>7, <1>11, <1>12, <1>13 DEF Sound
<1>15. Sound(agent, {}, agentOut, agentSent, agentKilled, UsedIds, agentHost = "up", {})
  BY <1>1, <1>4, <1>8, <1>9, <1>10, <1>12, <1>14
<1>16. agentUsed \in 0 .. Len(AgentCalls) /\ agentNow \in 0 .. AgentHorizon
  BY <1>2, AgentAssumption DEF AgentAssumption
<1>17. \A k \in AgentKeys : agentOut[k] = 0
  BY <1>2
<1> QED
  BY <1>2, <1>15, <1>16, <1>17 DEF AgentInv

\* And every step keeps it.
LEMMA AgentStep ==
  ASSUME AgentInv, [AgentNext]_agentVars
  PROVE  AgentInv'
<1>1. CASE UNCHANGED agentVars
  BY <1>1, AgentRests DEF agentVars, agentHistory, AgentInv
<1>2. CASE \E k \in AgentIds : ToolOk(k) \/ ToolErr(k)
  BY <1>2, ToolOkKeeps, ToolErrKeeps
<1>3. CASE BrainOk
  BY <1>3, BrainOkKeeps
<1>4. CASE BrainErr
  BY <1>4, BrainErrKeeps
<1>5. CASE CompactOk
  BY <1>5, CompactOkKeeps
<1>6. CASE CompactErr
  BY <1>6, CompactErrKeeps
<1>7. CASE TimerRings
  BY <1>7, TimerRingsKeeps
<1>8. CASE TimerFolds
  BY <1>8, TimerFoldsKeeps
<1>9. CASE Cancel
  BY <1>9, CancelKeeps
<1>10. CASE Begin
  BY <1>10, BeginKeeps
<1>11. CASE Crash
  BY <1>11, CrashKeeps
<1>12. CASE Wake
  BY <1>12, WakeKeeps
<1>13. CASE AgentTime
  BY <1>13, AgentTimeKeeps
<1> QED
  BY <1>1, <1>2, <1>3, <1>4, <1>5, <1>6, <1>7, <1>8, <1>9, <1>10, <1>11, <1>12,
     <1>13 DEF AgentNext

\* The state, the conversation, the calls in flight and the books of the
\* attempts keep to one another, whatever answers, rings, crashes and boots.
THEOREM AgentInvariant == AgentSpec => []AgentInv
<1>1. InitAgentHost => AgentInv
  BY AgentInitial
<1>2. AgentInv /\ [AgentNext]_agentVars => AgentInv'
  BY AgentStep
<1> QED
  BY <1>1, <1>2, PTL DEF AgentSpec

\* The agent's state keeps its shape.
THEOREM AgentTypes == AgentSpec => []AgentTypeOK
<1>1. AgentInv => AgentTypeOK
  <2> SUFFICES ASSUME AgentInv PROVE AgentTypeOK
    OBVIOUS
  <2>1. agent \in AgentStates /\ agentOut \in [AgentKeys -> Nat]
    BY DEF AgentInv, Sound, Shaped, Books
  <2>2. agent.run \in AgentRuns /\ agent.conv \in AgentConvs
    BY <2>1 DEF AgentStates
  <2>3. agent.run.phase \in RunPhases
    BY <2>2 DEF AgentRuns
  <2>4. /\ agent.conv.awaiting \in {"none", "llm", "tools", "compacting"}
        /\ agent.conv.records \in Seq([call : AgentIds, ok : BOOLEAN, turn : Nat])
    BY <2>2 DEF AgentConvs, AgentRecords
  <2> QED
    BY <2>1, <2>3, <2>4 DEF AgentInv, AgentTypeOK
<1> QED
  BY <1>1, AgentInvariant, PTL

\* Whenever the agent goes on to the model, every call of the conversation has
\* exactly one answer, however the answers, timeouts, retries and crashes fell.
THEOREM EveryCallIsAnsweredOnce == AgentSpec => []EveryCallAnsweredOnce
<1>1. AgentInv => EveryCallAnsweredOnce
  <2> SUFFICES ASSUME AgentInv, agent.conv.awaiting # "tools",
                      NEW i \in DOMAIN agent.conv.turns, NEW k \in AgentIds,
                      Contains(agent.conv.turns[i], k)
               PROVE  Cardinality({j \in DOMAIN agent.conv.records :
                                     agent.conv.records[j].call = k}) = 1
    BY DEF EveryCallAnsweredOnce
  <2>1. /\ ToolsFit(agent)
        /\ ConvHolds(agent.conv, OpenIn(agent), UsedIds)
    BY DEF AgentInv, Sound, Shaped
  <2>2. OpenIn(agent) = {}
    BY <2>1 DEF ToolsFit, FanHolds, OpenIn
  <2>3. k \in ToSet(agent.conv.turns[i])
    BY DEF Contains, ToSet
  <2>4. PICK j \in DOMAIN agent.conv.records : Answer(agent.conv, j, k, i)
    BY <2>1, <2>2, <2>3 DEF ConvHolds
  <2>5. {l \in DOMAIN agent.conv.records : agent.conv.records[l].call = k} = {j}
    BY <2>4 DEF Answer
  <2> QED
    BY <2>5, FS_Singleton
<1> QED
  BY <1>1, AgentInvariant, PTL

\* While the host is up, a run that has not settled has a handler in flight or
\* a timer armed that will move it.
THEOREM TheAgentIsNeverStuck == AgentSpec => []NeverStuck
<1>1. AgentInv => NeverStuck
  <2> SUFFICES ASSUME AgentInv, agentHost = "up", ~IsSettled(agent)
               PROVE  \/ \E k \in AgentKeys : agentOut[k] > 0
                      \/ \E t \in AgentTimers(agent) : t.kind # "safety"
    BY DEF NeverStuck
  <2>1. PICK up \in BOOLEAN : up = (agentHost = "up") /\ up = TRUE
    OBVIOUS
  <2>2. /\ Sound(agent, {}, agentOut, agentSent, agentKilled, UsedIds, up, {})
        /\ Driven(agent, {}, agentOut)
    BY <2>1 DEF AgentInv
  <2>3. /\ agent \in AgentStates /\ ToolsFit(agent) /\ Books(agentOut, agentSent, agentKilled)
        /\ LiveRun(agent.run) => agent.conv.awaiting # "none"
        /\ agent.run.phase # "idle"
    BY <2>1, <2>2 DEF Sound, Shaped
  <2>4. /\ agent.llm \in AgentSlices({"brain"}) /\ agent.compaction \in AgentSlices({"compact"})
        /\ agent.ladder \in AgentSlices(AgentIds)
        /\ agent.conv.awaiting \in {"none", "llm", "tools", "compacting"}
        /\ agent.run.phase \in RunPhases
    BY <2>3 DEF AgentStates, Ladders, AgentConvs, AgentRuns
  <2>5. agent.conv.awaiting \in {"llm", "tools", "compacting"}
    BY <2>3, <2>4 DEF IsSettled, LiveRun, RunPhases
  <2>6. ASSUME NEW c, NEW K, NEW s \in AgentSlices(K), NEW k \in K,
               s.calls[k].phase = "waiting_retry", Deadlines(c, s) \subseteq AgentTimers(agent)
        PROVE  \E t \in AgentTimers(agent) : t.kind # "safety"
    <3>1. DOMAIN s.calls = K
      BY DEF AgentSlices
    <3>2. Timer("retry", k, s.calls[k].retryAt) \in Deadlines(c, s)
      BY <2>6, <3>1 DEF Deadlines
    <3>3. Timer("retry", k, s.calls[k].retryAt).kind = "retry"
      BY DEF Timer
    <3> QED
      BY <2>6, <3>2, <3>3
  <2>7. /\ Deadlines(AgentBrain, agent.llm) \subseteq AgentTimers(agent)
        /\ Deadlines(AgentCompact, agent.compaction) \subseteq AgentTimers(agent)
        /\ Deadlines(AgentTool, agent.ladder) \subseteq AgentTimers(agent)
    BY DEF AgentTimers
  <2>8. CASE agent.conv.awaiting = "llm"
    <3>1. agentOut["brain"] > 0 \/ agent.llm.calls["brain"].phase = "waiting_retry"
      BY <2>2, <2>8 DEF Driven
    <3> QED
      BY <2>4, <2>6, <2>7, <3>1, AgentFacts
  <2>9. CASE agent.conv.awaiting = "compacting"
    <3>1. agentOut["compact"] > 0 \/ agent.compaction.calls["compact"].phase = "waiting_retry"
      BY <2>2, <2>9 DEF Driven
    <3> QED
      BY <2>4, <2>6, <2>7, <3>1, AgentFacts
  <2>10. CASE agent.conv.awaiting = "tools"
    <3>1. PICK k : k \in RunsIn(agent)
      BY <2>3, <2>10 DEF ToolsFit
    <3>2. k \in AgentIds
      BY <2>3, <3>1, ListIs DEF ToolsFit, FanHolds
    <3>3. Handled(agent, k, Plus(agentOut, {}, k), up)
      BY <2>2, <2>10, <3>1, <3>2 DEF Sound, Tallied, Tally, Awaits
    <3>4. Plus(agentOut, {}, k) = agentOut[k]
      BY <2>3, <3>2, AgentFacts DEF Plus, Books
    <3>5. agentOut[k] = 1 \/ agent.ladder.calls[k].phase = "waiting_retry"
      BY <2>1, <3>3, <3>4 DEF Handled, LivePhases
    <3>6. CASE agentOut[k] = 1
      <4>1. agentOut[k] > 0
        BY <3>6
      <4> QED
        BY <3>2, <4>1, AgentFacts
    <3>7. CASE agent.ladder.calls[k].phase = "waiting_retry"
      BY <2>4, <2>6, <2>7, <3>2, <3>7
    <3> QED
      BY <3>5, <3>6, <3>7
  <2> QED
    BY <2>5, <2>8, <2>9, <2>10
<1> QED
  BY <1>1, AgentInvariant, PTL

\* A tool's handler starts no more often than its policy grants, and once more
\* for each crash that killed it.
THEOREM AttemptsKeepToTheBudget == AgentSpec => []AttemptsAreBudgeted
<1>1. AgentInv => AttemptsAreBudgeted
  <2> SUFFICES ASSUME AgentInv, NEW k \in AgentIds
               PROVE  agentSent[k] <= agentKilled[k] + BudgetOf(k)
    BY DEF AttemptsAreBudgeted, BudgetOf
  <2>1. PICK up \in BOOLEAN : up = (agentHost = "up")
    OBVIOUS
  <2>2. Sound(agent, {}, agentOut, agentSent, agentKilled, UsedIds, up, {})
    BY <2>1 DEF AgentInv
  <2>3. Plus(agentSent, {}, k) <= agentKilled[k] + BudgetOf(k)
    BY <2>2 DEF Sound, Tallied, Tally
  <2>4. Plus(agentSent, {}, k) = agentSent[k]
    BY <2>2 DEF Plus, Sound, Books
  <2> QED
    BY <2>3, <2>4
<1> QED
  BY <1>1, AgentInvariant, PTL
=============================================================================
