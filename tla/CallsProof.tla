----------------------------- MODULE CallsProof -----------------------------
(***************************************************************************)
(* The batteries that hold what waits: the authed call with its parked     *)
(* calls and its breaker, the throttled input, and the asks in batches;    *)
(* and before them what the folds, the filters and the inductions of every *)
(* proof rest on.                                                          *)
(***************************************************************************)
EXTENDS AuthedCall, ThrottledInput, ClassifyBatch, Kept, FiniteSetTheorems,
        WellFoundedInduction, SequenceTheorems, TLAPS

-----------------------------------------------------------------------------
(* Folds and induction, in the form the provers can use: with sets in the  *)
(* place of predicates, and the foldings of a finite set as a set of       *)
(* functions.                                                              *)

\* A set of numbers that is not empty has a least one.
LEMMA NatLeast ==
  ASSUME NEW T, T \subseteq Nat, T # {}
  PROVE  \E x \in T : \A y \in T : x <= y
<1> DEFINE R == OpToRel(<, Nat)
<1>1. IsWellFoundedOn(R, Nat)
  BY NatLessThanWellFounded, Zenon
<1>2. \A x, y \in Nat : (<<x, y>> \in R) <=> x < y
  BY DEF OpToRel
<1> HIDE DEF R
<1>3. \E x \in T : \A y \in T : ~(<<y, x>> \in R)
  BY <1>1, WFMin
<1>4. PICK x \in T : \A y \in T : ~(<<y, x>> \in R)
  BY <1>3
<1>5. \A y \in T : x <= y
  <2> TAKE y \in T
  <2>1. x \in Nat /\ y \in Nat
    OBVIOUS
  <2>2. ~(y < x)
    BY <1>2, <1>4, <2>1
  <2> QED BY <2>1, <2>2
<1> QED BY <1>5

\* A set of numbers that holds 0, and the next of each it holds, holds them all.
LEMMA NumberInduction ==
  ASSUME NEW P, 0 \in P, \A n \in Nat : n \in P => n + 1 \in P
  PROVE  \A n \in Nat : n \in P
<1> SUFFICES ASSUME Nat \ P # {} PROVE FALSE
  OBVIOUS
<1>1. PICK n \in Nat \ P : \A m \in Nat \ P : n <= m
  BY NatLeast
<1>2. n - 1 \in Nat /\ n - 1 \notin P
  BY <1>1
<1> QED
  BY <1>1, <1>2

\* What holds of the empty set, and of a set if it does of what some element of
\* it leaves behind, holds of every finite set.
LEMMA SubsetInduction ==
  ASSUME NEW S, IsFiniteSet(S), NEW P, {} \in P,
         \A T \in SUBSET S : T # {} => \E x \in T : T \ {x} \in P => T \in P
  PROVE  \A T \in SUBSET S : T \in P
<1> DEFINE Q == {n \in Nat : \A T \in SUBSET S : Cardinality(T) = n => T \in P}
<1>1. \A T \in SUBSET S : IsFiniteSet(T) /\ Cardinality(T) \in Nat
  BY FS_Subset, FS_CardinalityType
<1>2. 0 \in Q
  BY <1>1, FS_EmptySet
<1>3. ASSUME NEW n \in Nat, n \in Q PROVE n + 1 \in Q
  <2> SUFFICES ASSUME NEW T \in SUBSET S, Cardinality(T) = n + 1 PROVE T \in P
    OBVIOUS
  <2>1. T # {}
    BY <1>1, FS_EmptySet
  <2>2. PICK x \in T : T \ {x} \in P => T \in P
    BY <2>1
  <2>3. Cardinality(T \ {x}) = n
    <3>1. IsFiniteSet(T) /\ Cardinality(T) \in Nat
      BY <1>1
    <3>2. Cardinality(T \ {x}) = Cardinality(T) - 1
      BY <3>1, FS_RemoveElement
    <3> QED
      BY <3>1, <3>2
  <2> QED
    BY <1>3, <2>2, <2>3
<1> HIDE DEF Q
<1>4. \A n \in Nat : n \in Q
  BY <1>2, <1>3, NumberInduction
<1> QED
  BY <1>1, <1>4 DEF Q

\* The functions that fold G over the subsets of S, the picked element last.
Foldings(S, X, base, pick, G) ==
  {f \in [SUBSET S -> X] :
     \A T \in SUBSET S :
       f[T] = IF T = {} THEN base ELSE G[pick[T], f[T \ {pick[T]}]]}

\* The function a fold chooses exists: it takes the picked element last.
LEMMA FoldExists ==
  ASSUME NEW S, IsFiniteSet(S), NEW X, NEW base \in X,
         NEW pick \in [(SUBSET S) \ {{}} -> S],
         \A T \in SUBSET S : T # {} => pick[T] \in T,
         NEW G \in [S \X X -> X]
  PROVE  Foldings(S, X, base, pick, G) # {}
<1> DEFINE Small(n) == {T \in SUBSET S : Cardinality(T) <= n}
           Folds(n, g) ==
             /\ g \in [Small(n) -> X]
             /\ \A T \in Small(n) :
                  g[T] = IF T = {} THEN base ELSE G[pick[T], g[T \ {pick[T]}]]
           Q == {n \in Nat : \E g : Folds(n, g)}
<1>1. \A T \in SUBSET S : IsFiniteSet(T) /\ Cardinality(T) \in Nat
        /\ (Cardinality(T) = 0 <=> T = {})
  BY FS_Subset, FS_CardinalityType, FS_EmptySet
<1>2. \A T \in SUBSET S : T # {} =>
        /\ T \ {pick[T]} \in SUBSET S
        /\ Cardinality(T \ {pick[T]}) = Cardinality(T) - 1
  BY <1>1, FS_RemoveElement
<1>3. 0 \in Q
  <2> DEFINE g == [T \in Small(0) |-> base]
  <2>1. \A T \in Small(0) : T = {}
    BY <1>1
  <2>2. Folds(0, g)
    BY <2>1
  <2> QED
    BY <2>2
<1>4. ASSUME NEW n \in Nat, n \in Q PROVE n + 1 \in Q
  <2>1. PICK g : Folds(n, g)
    BY <1>4
  <2> DEFINE h == [T \in Small(n + 1) |->
                     IF T = {} THEN base ELSE G[pick[T], g[T \ {pick[T]}]]]
  <2>2. \A T \in Small(n + 1) : T # {} =>
          T \ {pick[T]} \in Small(n) /\ pick[T] \in S
    BY <1>1, <1>2
  <2>3. h \in [Small(n + 1) -> X]
    BY <2>1, <2>2
  <2>4. \A T \in Small(n) : T \in Small(n + 1) /\ h[T] = g[T]
    <3>1. \A T \in Small(n) : T \in Small(n + 1)
      BY <1>1
    <3>2. \A T \in Small(n) :
            g[T] = IF T = {} THEN base ELSE G[pick[T], g[T \ {pick[T]}]]
      BY <2>1
    <3> HIDE DEF Small
    <3> QED
      BY <3>1, <3>2
  <2>5. \A T \in Small(n + 1) :
          h[T] = IF T = {} THEN base ELSE G[pick[T], h[T \ {pick[T]}]]
    BY <2>2, <2>4
  <2>6. Folds(n + 1, h)
    BY <2>3, <2>5
  <2> HIDE DEF h, Folds
  <2> QED
    BY <2>6
<1> HIDE DEF Q
<1>5. \A n \in Nat : n \in Q
  BY <1>3, <1>4, NumberInduction
<1>6. PICK g : Folds(Cardinality(S), g)
  BY <1>5, FS_CardinalityType DEF Q
<1>7. Small(Cardinality(S)) = SUBSET S
  BY FS_Subset
<1>8. /\ g \in [SUBSET S -> X]
      /\ \A T \in SUBSET S :
           g[T] = IF T = {} THEN base ELSE G[pick[T], g[T \ {pick[T]}]]
  BY <1>6, <1>7
<1> QED
  BY <1>8 DEF Foldings

-----------------------------------------------------------------------------
(* What Kept keeps, by recursion over the places of the sequence.          *)

\* The functions a recursion over 0 .. n may choose.
Recursions(n, X, base, G) ==
  {f \in [0 .. n -> X] :
     \A k \in 0 .. n : f[k] = IF k = 0 THEN base ELSE G[<<k, f[k - 1]>>]}

\* There is one.
LEMMA RecursionExists ==
  ASSUME NEW n \in Nat, NEW X, NEW base \in X, NEW G \in [(1 .. n) \X X -> X]
  PROVE  Recursions(n, X, base, G) # {}
<1> DEFINE Upto(m, f) ==
             /\ f \in [0 .. m -> X]
             /\ \A k \in 0 .. m : f[k] = IF k = 0 THEN base ELSE G[<<k, f[k - 1]>>]
           P == {m \in Nat : m <= n => \E f : Upto(m, f)}
<1>1. 0 \in P
  <2> DEFINE f == [k \in 0 .. 0 |-> base]
  <2>1. Upto(0, f)
    OBVIOUS
  <2> QED
    BY <2>1
<1>2. ASSUME NEW m \in Nat, m \in P PROVE m + 1 \in P
  <2> SUFFICES ASSUME m + 1 <= n PROVE \E f : Upto(m + 1, f)
    OBVIOUS
  <2>1. PICK f : Upto(m, f)
    BY <1>2
  <2> DEFINE h == [k \in 0 .. m + 1 |-> IF k = m + 1 THEN G[<<m + 1, f[m]>>] ELSE f[k]]
  <2>2. f[m] \in X /\ G[<<m + 1, f[m]>>] \in X
    <3>1. f[m] \in X /\ m + 1 \in 1 .. n
      BY <2>1
    <3> QED
      BY <3>1
  <2>3. h \in [0 .. m + 1 -> X]
    BY <2>1, <2>2
  <2>4. \A k \in 0 .. m : h[k] = f[k]
    OBVIOUS
  <2>5. h[m + 1] = G[<<m + 1, f[m]>>]
    OBVIOUS
  <2> HIDE DEF h
  <2>6. ASSUME NEW k \in 0 .. m + 1
        PROVE  h[k] = IF k = 0 THEN base ELSE G[<<k, h[k - 1]>>]
    <3>1. CASE k = m + 1
      <4>1. k # 0 /\ k - 1 = m /\ m \in 0 .. m
        BY <3>1
      <4> QED
        BY <2>4, <2>5, <3>1, <4>1
    <3>2. CASE k = 0
      <4>1. 0 \in 0 .. m
        OBVIOUS
      <4>2. h[0] = f[0] /\ f[0] = base
        BY <2>1, <2>4, <4>1
      <4> QED
        BY <3>2, <4>2
    <3>3. CASE k \in 1 .. m
      <4>1. k # 0 /\ k \in 0 .. m /\ k - 1 \in 0 .. m
        BY <3>3
      <4> QED
        BY <2>1, <2>4, <4>1
    <3> QED
      BY <3>1, <3>2, <3>3
  <2> QED
    BY <2>3, <2>6
<1> HIDE DEF P
<1>3. \A m \in Nat : m \in P
  BY <1>1, <1>2, NumberInduction
<1>4. PICK f : Upto(n, f)
  BY <1>3 DEF P
<1> QED
  BY <1>4 DEF Recursions

\* How the elements kept lie in the sequence: h takes the place of each to the
\* place it had.
Picks(h, kept, seq, n, S) ==
  /\ h \in [1 .. Len(kept) -> 1 .. n]
  /\ \A i \in 1 .. Len(kept) : kept[i] = seq[h[i]] /\ seq[h[i]] \in S
  /\ \A i, j \in 1 .. Len(kept) : i < j => h[i] < h[j]
  /\ \A k \in 1 .. n : seq[k] \in S => \E i \in 1 .. Len(kept) : h[i] = k

\* What one more element of the sequence does.
LEMMA KeepOne ==
  ASSUME NEW X, NEW seq \in Seq(X), NEW S, NEW n \in Nat, n + 1 <= Len(seq),
         NEW kept \in Seq(X), NEW h, Picks(h, kept, seq, n, S),
         NEW kept2,
         kept2 = IF seq[n + 1] \in S THEN Append(kept, seq[n + 1]) ELSE kept
  PROVE  kept2 \in Seq(X) /\ \E h2 : Picks(h2, kept2, seq, n + 1, S)
<1>1. Len(kept) \in Nat /\ Len(seq) \in Nat /\ seq[n + 1] \in X
  OBVIOUS
<1>2. PICK l \in Nat : l = Len(kept)
  BY <1>1
<1>3. /\ h \in [1 .. l -> 1 .. n]
      /\ \A i \in 1 .. l : kept[i] = seq[h[i]] /\ seq[h[i]] \in S
      /\ \A i, j \in 1 .. l : i < j => h[i] < h[j]
      /\ \A k \in 1 .. n : seq[k] \in S => \E i \in 1 .. l : h[i] = k
  BY <1>2 DEF Picks
<1>4. CASE seq[n + 1] \notin S
  <2>1. kept2 = kept
    BY <1>4
  <2>2. Picks(h, kept, seq, n + 1, S)
    <3>1. h \in [1 .. l -> 1 .. n + 1]
      BY <1>3
    <3>2. ASSUME NEW k \in 1 .. n + 1, seq[k] \in S PROVE \E i \in 1 .. l : h[i] = k
      <4>1. k \in 1 .. n
        BY <1>4, <3>2
      <4> QED
        BY <1>3, <3>2, <4>1
    <3> QED
      BY <1>2, <1>3, <3>1, <3>2 DEF Picks
  <2> QED
    BY <2>1, <2>2
<1>5. CASE seq[n + 1] \in S
  <2> DEFINE e == seq[n + 1]
             h2 == [i \in 1 .. l + 1 |-> IF i = l + 1 THEN n + 1 ELSE h[i]]
  <2>1. kept2 = Append(kept, e)
    BY <1>5
  <2> HIDE DEF e
  <2>2. /\ kept2 \in Seq(X) /\ Len(kept2) = l + 1
        /\ \A i \in 1 .. l : kept2[i] = kept[i]
        /\ kept2[l + 1] = e
    BY <1>1, <1>2, <2>1 DEF e
  <2>3. \A i \in 1 .. l : h2[i] = h[i]
    OBVIOUS
  <2>4. h2[l + 1] = n + 1
    OBVIOUS
  <2>5. h2 \in [1 .. l + 1 -> 1 .. n + 1]
    BY <1>3
  <2> HIDE DEF h2
  <2>6. ASSUME NEW i \in 1 .. l + 1 PROVE kept2[i] = seq[h2[i]] /\ seq[h2[i]] \in S
    <3>1. CASE i = l + 1
      BY <1>5, <2>2, <2>4, <3>1 DEF e
    <3>2. CASE i \in 1 .. l
      BY <1>3, <2>2, <2>3, <3>2
    <3>3. i = l + 1 \/ i \in 1 .. l
      OBVIOUS
    <3> QED
      BY <3>1, <3>2, <3>3
  <2>7. ASSUME NEW i \in 1 .. l + 1, NEW j \in 1 .. l + 1, i < j PROVE h2[i] < h2[j]
    <3>1. i \in 1 .. l /\ h2[i] = h[i] /\ h[i] \in 1 .. n
      BY <1>3, <2>3, <2>7
    <3>2. CASE j = l + 1
      BY <2>4, <3>1, <3>2
    <3>3. CASE j \in 1 .. l
      BY <1>3, <2>3, <2>7, <3>1, <3>3
    <3> QED
      BY <3>2, <3>3
  <2>8. ASSUME NEW k \in 1 .. n + 1, seq[k] \in S PROVE \E i \in 1 .. l + 1 : h2[i] = k
    <3>1. CASE k = n + 1
      BY <2>4, <3>1
    <3>2. CASE k \in 1 .. n
      <4>1. PICK i \in 1 .. l : h[i] = k
        BY <1>3, <2>8, <3>2
      <4> QED
        BY <2>3, <4>1
    <3> QED
      BY <3>1, <3>2
  <2>9. Picks(h2, kept2, seq, n + 1, S)
    BY <2>2, <2>5, <2>6, <2>7, <2>8 DEF Picks
  <2> QED
    BY <2>2, <2>9
<1> QED
  BY <1>4, <1>5

\* What is kept is what the set holds of the sequence, in its order.
LEMMA KeptPicks ==
  ASSUME NEW X, NEW seq \in Seq(X), NEW S
  PROVE  Kept(seq, S) \in Seq(X) /\ \E h : Picks(h, Kept(seq, S), seq, Len(seq), S)
<1> DEFINE n == Len(seq)
           G == [p \in (1 .. n) \X Seq(X) |->
                   IF seq[p[1]] \in S THEN Append(p[2], seq[p[1]]) ELSE p[2]]
           Rec(f) == f = [k \in 0 .. n |->
                            IF k = 0 THEN <<>>
                            ELSE IF seq[k] \in S THEN Append(f[k - 1], seq[k])
                                 ELSE f[k - 1]]
<1>1. n \in Nat /\ \A k \in 1 .. n : seq[k] \in X
  OBVIOUS
<1>2. G \in [(1 .. n) \X Seq(X) -> Seq(X)]
  <2> SUFFICES ASSUME NEW k \in 1 .. n, NEW s \in Seq(X)
               PROVE  (IF seq[k] \in S THEN Append(s, seq[k]) ELSE s) \in Seq(X)
    OBVIOUS
  <2> QED
    BY <1>1
<1>3. \A k \in 1 .. n, s \in Seq(X) :
        G[<<k, s>>] = IF seq[k] \in S THEN Append(s, seq[k]) ELSE s
  OBVIOUS
<1>4. <<>> \in Seq(X)
  OBVIOUS
<1> HIDE DEF G, n
<1>5. PICK g : g \in Recursions(n, Seq(X), <<>>, G)
  BY <1>1, <1>2, <1>4, RecursionExists
<1>6. Rec(g)
  <2>1. /\ g \in [0 .. n -> Seq(X)]
        /\ \A k \in 0 .. n : g[k] = IF k = 0 THEN <<>> ELSE G[<<k, g[k - 1]>>]
    BY <1>5 DEF Recursions
  <2>2. \A k \in 1 .. n : g[k] = IF seq[k] \in S THEN Append(g[k - 1], seq[k])
                                 ELSE g[k - 1]
    <3> TAKE k \in 1 .. n
    <3>1. k # 0 /\ k \in 0 .. n /\ k - 1 \in 0 .. n
      BY <1>1
    <3>2. g[k] = G[<<k, g[k - 1]>>] /\ g[k - 1] \in Seq(X)
      BY <2>1, <3>1
    <3> QED
      BY <1>3, <3>2
  <2>3. \A k \in 0 .. n : k # 0 => k \in 1 .. n
    BY <1>1
  <2>4. g[0] = <<>>
    <3>1. 0 \in 0 .. n
      BY <1>1
    <3> QED
      BY <2>1, <3>1
  <2> QED
    BY <2>1, <2>2, <2>3, <2>4
<1> DEFINE f == CHOOSE x : Rec(x)
<1>7. Rec(f)
  BY <1>6
<1>8. Kept(seq, S) = f[n]
  BY DEF Kept, n
<1> HIDE DEF f
<1>9. /\ f[0] = <<>>
      /\ \A k \in 1 .. n : f[k] = IF seq[k] \in S THEN Append(f[k - 1], seq[k])
                                  ELSE f[k - 1]
  <2>1. 0 \in 0 .. n /\ \A k \in 1 .. n : k \in 0 .. n /\ k # 0
    BY <1>1
  <2>2. \A k \in 0 .. n :
          f[k] = IF k = 0 THEN <<>>
                 ELSE IF seq[k] \in S THEN Append(f[k - 1], seq[k]) ELSE f[k - 1]
    BY <1>7, Zenon
  <2> HIDE DEF Rec
  <2> QED
    BY <2>1, <2>2
<1> HIDE DEF Rec
<1> DEFINE P == {k \in Nat : k <= n =>
                   f[k] \in Seq(X) /\ \E h : Picks(h, f[k], seq, k, S)}
<1>10. 0 \in P
  <2>1. Picks(<<>>, <<>>, seq, 0, S)
    BY DEF Picks
  <2> QED
    BY <1>4, <1>9, <2>1
<1>11. ASSUME NEW k \in Nat, k \in P PROVE k + 1 \in P
  <2> SUFFICES ASSUME k + 1 <= n
               PROVE  f[k + 1] \in Seq(X) /\ \E h : Picks(h, f[k + 1], seq, k + 1, S)
    OBVIOUS
  <2>1. k <= n /\ k + 1 \in 1 .. n /\ (k + 1) - 1 = k
    BY <1>1
  <2>2. f[k] \in Seq(X) /\ \E h : Picks(h, f[k], seq, k, S)
    BY <1>11, <2>1
  <2>3. PICK h : Picks(h, f[k], seq, k, S)
    BY <2>2
  <2>4. f[k + 1] = IF seq[k + 1] \in S THEN Append(f[k], seq[k + 1]) ELSE f[k]
    BY <1>9, <2>1
  <2> QED
    BY <2>1, <2>2, <2>3, <2>4, KeepOne DEF n
<1> HIDE DEF P
<1>12. \A k \in Nat : k \in P
  BY <1>10, <1>11, NumberInduction
<1> QED
  BY <1>1, <1>8, <1>12 DEF P, n

-----------------------------------------------------------------------------
(* The authed call.  A verb of the slice touches the call of its key and,  *)
(* as the circuit lets it, the circuit; reissue is a fold of such verbs.   *)

\* The phases of a call.
CallPhases == {"none", "running", "waiting_retry", "failed", "succeeded", "circuit_open"}
\* The errors a call may fail with.
CallErrors == {"none", "err", "deadline_exceeded", "rate_limited", "unauthorized"}
\* A call of the slice.
Calls == [phase : CallPhases, left : Int, since : Int, retryAt : Int,
          error : CallErrors]
\* A budget, and its charging clock.
Budgets == [left : Int, since : Int]
\* A circuit.
Circuits == [phase : {"closed", "open", "half_open"}, n : Int]
\* A slice of the resilient call.
Slices ==
  [circuit : Circuits, bucket : [tokens : Int, at : Int],
   retry : [AuthKeys -> Int], fresh : [AuthKeys -> Int],
   calls : [AuthKeys -> Calls]]

\* The knob is one of bricks, the delays are instants.
LEMMA ConfigTypes ==
  /\ IsFiniteSet(AuthKeys) /\ AuthConfig \in Bricks
  /\ AuthDelays \subseteq Int /\ AuthHorizon \in Nat
BY AuthAssumption DEF AuthAssumption

\* The call of one key is set, and nothing else.
LEMMA SetCallKeeps ==
  ASSUME NEW s \in Slices, NEW k \in AuthKeys, NEW call \in Calls
  PROVE  /\ SetCall(s, k, call) \in Slices
         /\ SetCall(s, k, call).calls = [s.calls EXCEPT ![k] = call]
         /\ SetCall(s, k, call).circuit = s.circuit
BY DEF SetCall, Slices

\* The calls the verbs write are calls.
LEMMA CallTypes ==
  /\ NoCall \in Calls /\ Succeeded \in Calls /\ CircuitOpen \in Calls
  /\ \A e \in CallErrors : Failed(e) \in Calls /\ Failed(e).phase = "failed"
  /\ \A b \in Budgets : Running(b) \in Calls
  /\ \A b \in Budgets, at \in Int : Waiting(b, at) \in Calls
<1> USE DEF Calls, CallPhases
<1>1. NoCall \in Calls
  BY DEF NoCall, CallErrors
<1>2. Succeeded \in Calls /\ CircuitOpen \in Calls
  BY <1>1 DEF Succeeded, CircuitOpen
<1>3. \A e \in CallErrors : Failed(e) \in Calls /\ Failed(e).phase = "failed"
  BY <1>1 DEF Failed
<1>4. \A b \in Budgets : Running(b) \in Calls
  BY <1>1 DEF Running, Budgets
<1>5. \A b \in Budgets, at \in Int : Waiting(b, at) \in Calls
  BY <1>4 DEF Waiting
<1> QED
  BY <1>1, <1>2, <1>3, <1>4, <1>5

\* A budget, charged or fresh, is one.
LEMMA BudgetTypes ==
  ASSUME NEW s \in Slices, NEW k \in AuthKeys, NEW at \in Int
  PROVE  /\ Charge(AuthConfig, s.calls[k], at) \in Budgets
         /\ BudgetFor(AuthConfig, s, k, at) \in Budgets
<1>1. s.calls[k] \in Calls
  BY DEF Slices
<1>2. Charge(AuthConfig, s.calls[k], at) \in Budgets
  BY <1>1, ConfigTypes DEF Charge, MaxOf, Calls, Budgets, Bricks
<1> QED
  BY <1>2, ConfigTypes DEF BudgetFor, FreshBudget, Budgets, Bricks

\* A token that is taken, or not.
LEMMA BucketTypes ==
  ASSUME NEW b \in [tokens : Int, at : Int], NEW at \in Int
  PROVE  TryConsume(AuthConfig, b, at) \in [tokens : Int, at : Int]
<1>1. /\ AuthConfig.capacity \in Int /\ AuthConfig.refill \in Int
      /\ MaxOf(0, at - b.at) \in Int
  BY ConfigTypes DEF Bricks, MaxOf
<1>2. MaxOf(0, at - b.at) * AuthConfig.refill \in Int
  BY <1>1
<1>3. Refilled(AuthConfig, b, at) \in [tokens : Int, at : Int]
  <2> DEFINE new == MaxOf(0, at - b.at) * AuthConfig.refill
  <2> HIDE DEF new
  <2>1. new \in Int
    BY <1>2 DEF new
  <2>2. MinOf(AuthConfig.capacity, b.tokens + new) \in Int
    BY <1>1, <2>1 DEF MinOf
  <2> QED
    BY <2>2 DEF Refilled, new
<1> QED
  BY <1>3 DEF TryConsume

\* Only a circuit that may pass is changed by asking it; only a failure opens
\* one, at its instant, and an open one stays as it is.
LEMMA CircuitTypes ==
  ASSUME NEW circuit \in Circuits, NEW at \in Int
  PROVE  /\ Passed(AuthConfig, circuit, at) \in Circuits
         /\ Passed(AuthConfig, circuit, at) = circuit
              \/ MayPass(AuthConfig, circuit, at)
         /\ Passed(AuthConfig, circuit, at).phase = "open" =>
              Passed(AuthConfig, circuit, at) = circuit
         /\ OnFailure(AuthConfig, circuit, at) \in Circuits
         /\ OnFailure(AuthConfig, circuit, at).phase = "open" =>
              \/ circuit.phase = "open" /\ OnFailure(AuthConfig, circuit, at) = circuit
              \/ circuit.phase # "open" /\ OnFailure(AuthConfig, circuit, at).n = at
         /\ OnSuccess(circuit) \in Circuits
         /\ OnSuccess(circuit).phase = "open" => OnSuccess(circuit) = circuit
<1> USE ConfigTypes DEF Circuits, Bricks, Circuit
<1>1. circuit.phase \in {"closed", "open", "half_open"} /\ circuit.n \in Int
  OBVIOUS
<1>2. /\ Passed(AuthConfig, circuit, at) \in Circuits
      /\ Passed(AuthConfig, circuit, at) = circuit
           \/ MayPass(AuthConfig, circuit, at)
      /\ Passed(AuthConfig, circuit, at).phase = "open" =>
           Passed(AuthConfig, circuit, at) = circuit
  BY <1>1 DEF Passed, MayPass
<1>3. /\ OnFailure(AuthConfig, circuit, at) \in Circuits
      /\ OnFailure(AuthConfig, circuit, at).phase = "open" =>
           \/ circuit.phase = "open" /\ OnFailure(AuthConfig, circuit, at) = circuit
           \/ circuit.phase # "open" /\ OnFailure(AuthConfig, circuit, at).n = at
  BY <1>1 DEF OnFailure
<1>4. /\ OnSuccess(circuit) \in Circuits
      /\ OnSuccess(circuit).phase = "open" => OnSuccess(circuit) = circuit
  BY <1>1 DEF OnSuccess
<1> QED
  BY <1>2, <1>3, <1>4

\* Backing off touches the call of its key and the retry counters.
LEMMA BackoffKeeps ==
  ASSUME NEW s \in Slices, NEW k \in AuthKeys, NEW e \in CallErrors, NEW at \in Int,
         NEW b \in Budgets, NEW d \in Int,
         NEW r, r = Backoff(AuthConfig, s, k, e, at, b, d)
  PROVE  /\ r \in Slices /\ r.circuit = s.circuit
         /\ \A j \in AuthKeys \ {k} : r.calls[j] = s.calls[j]
<1> DEFINE counted == [s EXCEPT !.retry[k] = @ + 1]
<1>1. counted \in Slices /\ counted.circuit = s.circuit /\ counted.calls = s.calls
  BY DEF Slices
<1>2. r \in {SetCall(s, k, Failed(e)), SetCall(counted, k, Failed(e)),
             SetCall(counted, k, Waiting(b, at + d))}
  BY DEF Backoff
<1>3. Failed(e) \in Calls /\ Waiting(b, at + d) \in Calls
  BY CallTypes
<1> HIDE DEF counted
<1>4. \E t \in {s, counted}, call \in Calls : r = SetCall(t, k, call)
  BY <1>2, <1>3
<1>5. PICK t \in {s, counted}, call \in Calls : r = SetCall(t, k, call)
  BY <1>4
<1>6. t \in Slices /\ t.circuit = s.circuit /\ t.calls = s.calls
  BY <1>1
<1>7. r \in Slices /\ r.circuit = s.circuit /\ r.calls = [s.calls EXCEPT ![k] = call]
  BY <1>5, <1>6, SetCallKeeps
<1> QED
  BY <1>7 DEF Slices

\* What a verb may make of a slice when it tries a call again.
Tried(s, k, at, r) ==
  /\ r.s \in Slices /\ r.run \in SUBSET {k}
  /\ \A j \in AuthKeys \ {k} : r.s.calls[j] = s.calls[j]
  /\ r.s.circuit.phase = "open" => r.s.circuit = s.circuit
  /\ r.s.circuit = s.circuit \/ MayPass(AuthConfig, s.circuit, at)
  /\ r.run # {} /\ s.circuit.phase = "open" =>
       AuthConfig.threshold = 0 \/ MayPass(AuthConfig, s.circuit, at)
  /\ AuthConfig.threshold = 0 => r.s.circuit = s.circuit

\* The gate, whichever of its four doors turns the call away.
LEMMA GateKeepsSlice ==
  ASSUME NEW s \in Slices, NEW k \in AuthKeys, NEW at \in Int, NEW b \in Budgets,
         NEW d \in Int, NEW r, r = Gate(AuthConfig, s, k, at, b, d)
  PROVE  Tried(s, k, at, r)
<1> DEFINE taken == IF AuthConfig.capacity = 0 THEN s
                    ELSE [s EXCEPT !.bucket = TryConsume(AuthConfig, @, at)]
           asked == IF AuthConfig.threshold = 0 THEN taken
                    ELSE [taken EXCEPT !.circuit = Passed(AuthConfig, @, at)]
           failed == SetCall(s, k, Failed("deadline_exceeded"))
           cached == SetCall(s, k, Succeeded)
           limited == Backoff(AuthConfig, taken, k, "rate_limited", at, b, d)
           refused == SetCall(asked, k, CircuitOpen)
           goes == SetCall(asked, k, Running(b))
<1>1. taken \in Slices /\ taken.circuit = s.circuit /\ taken.calls = s.calls
  <2>1. TryConsume(AuthConfig, s.bucket, at) \in [tokens : Int, at : Int]
    BY BucketTypes DEF Slices
  <2> QED
    BY <2>1 DEF Slices
<1>2. /\ s.circuit \in Circuits /\ Passed(AuthConfig, s.circuit, at) \in Circuits
      /\ Passed(AuthConfig, s.circuit, at) = s.circuit
           \/ MayPass(AuthConfig, s.circuit, at)
      /\ Passed(AuthConfig, s.circuit, at).phase = "open" =>
           Passed(AuthConfig, s.circuit, at) = s.circuit
  <2>1. s.circuit \in Circuits
    BY DEF Slices
  <2> QED
    BY <2>1, CircuitTypes
<1> HIDE DEF taken
<1>3. /\ asked \in Slices /\ asked.calls = s.calls
      /\ asked.circuit \in {s.circuit, Passed(AuthConfig, s.circuit, at)}
      /\ AuthConfig.threshold = 0 => asked.circuit = s.circuit
  BY <1>1, <1>2 DEF Slices
<1> HIDE DEF asked
<1>4. /\ Failed("deadline_exceeded") \in Calls /\ Succeeded \in Calls
      /\ CircuitOpen \in Calls /\ Running(b) \in Calls
      /\ "rate_limited" \in CallErrors
  BY CallTypes DEF CallErrors
<1>5. \/ r \in {Quiet(failed), Quiet(cached), Quiet(limited), Quiet(refused)}
      \/ /\ r = [s |-> goes, run |-> {k}]
         /\ AuthConfig.threshold = 0 \/ MayPass(AuthConfig, s.circuit, at)
  <2> HIDE DEF failed, cached, limited, refused, goes
  <2>1. r = IF AuthConfig.deadline > 0 /\ b.left <= 0 THEN Quiet(failed)
            ELSE IF AuthConfig.ttl > 0 /\ at < s.fresh[k] THEN Quiet(cached)
            ELSE IF AuthConfig.capacity > 0 /\ ~HasToken(AuthConfig, s.bucket, at)
              THEN Quiet(limited)
            ELSE IF AuthConfig.threshold > 0 /\ ~MayPass(AuthConfig, s.circuit, at)
              THEN Quiet(refused)
            ELSE [s |-> goes, run |-> {k}]
    BY DEF Gate, taken, asked, failed, cached, limited, refused, goes
  <2>2. ~(AuthConfig.threshold > 0) => AuthConfig.threshold = 0
    BY ConfigTypes DEF Bricks
  <2> QED
    BY <2>1, <2>2
<1>6. /\ failed \in Slices /\ failed.circuit = s.circuit
      /\ failed.calls = [s.calls EXCEPT ![k] = Failed("deadline_exceeded")]
      /\ cached \in Slices /\ cached.circuit = s.circuit
      /\ cached.calls = [s.calls EXCEPT ![k] = Succeeded]
  BY <1>4, SetCallKeeps
<1>7. /\ refused \in Slices /\ refused.circuit = asked.circuit
      /\ refused.calls = [s.calls EXCEPT ![k] = CircuitOpen]
      /\ goes \in Slices /\ goes.circuit = asked.circuit
      /\ goes.calls = [s.calls EXCEPT ![k] = Running(b)]
  BY <1>3, <1>4, SetCallKeeps
<1>8. /\ limited \in Slices /\ limited.circuit = s.circuit
      /\ \A j \in AuthKeys \ {k} : limited.calls[j] = s.calls[j]
  BY <1>1, <1>4, BackoffKeeps
<1> HIDE DEF failed, cached, limited, refused, goes
<1>9. /\ r.s \in {failed, cached, limited, refused, goes}
      /\ r.run \in {{}, {k}}
      /\ r.run # {} => AuthConfig.threshold = 0 \/ MayPass(AuthConfig, s.circuit, at)
  BY <1>5 DEF Quiet
<1>10. DOMAIN s.calls = AuthKeys
  BY DEF Slices
<1>11. /\ r.s \in Slices /\ \A j \in AuthKeys \ {k} : r.s.calls[j] = s.calls[j]
       /\ r.s.circuit \in {s.circuit, Passed(AuthConfig, s.circuit, at)}
       /\ AuthConfig.threshold = 0 => r.s.circuit = s.circuit
  BY <1>3, <1>6, <1>7, <1>8, <1>9, <1>10
<1> QED
  BY <1>2, <1>9, <1>11 DEF Tried

\* An attempt, whether its budget is charged or fresh.
LEMMA AttemptKeeps ==
  ASSUME NEW s \in Slices, NEW k \in AuthKeys, NEW at \in Int, NEW d \in Int,
         NEW r, r = Attempt(AuthConfig, s, k, at, d)
  PROVE  Tried(s, k, at, r)
BY BudgetTypes, GateKeepsSlice DEF Attempt

\* What trying calls one after the other may make of a slice.
Tries(s, at) ==
  {x \in [s : Slices, run : SUBSET AuthKeys] :
     /\ x.s.circuit.phase = "open" => x.s.circuit = s.circuit
     /\ x.s.circuit = s.circuit \/ MayPass(AuthConfig, s.circuit, at)
     /\ x.run # {} /\ s.circuit.phase = "open" =>
          AuthConfig.threshold = 0 \/ MayPass(AuthConfig, s.circuit, at)
     /\ AuthConfig.threshold = 0 => x.s.circuit = s.circuit}

\* One more attempt.
LEMMA TriesGrow ==
  ASSUME NEW s \in Slices, NEW at \in Int, NEW d \in Int, NEW k \in AuthKeys,
         NEW x \in Tries(s, at), NEW r, r = Attempt(AuthConfig, x.s, k, at, d)
  PROVE  [s |-> r.s, run |-> x.run \union r.run] \in Tries(s, at)
<1>1. x \in [s : Slices, run : SUBSET AuthKeys] /\ x.s \in Slices /\ x.run \in SUBSET AuthKeys
  BY DEF Tries
<1>2. Tried(x.s, k, at, r)
  BY <1>1, AttemptKeeps
<1> DEFINE y == [s |-> r.s, run |-> x.run \union r.run]
<1>3. y \in [s : Slices, run : SUBSET AuthKeys]
  BY <1>1, <1>2 DEF Tried
<1>4. y.s.circuit.phase = "open" => y.s.circuit = s.circuit
  BY <1>2 DEF Tried, Tries
<1>5. y.s.circuit = s.circuit \/ MayPass(AuthConfig, s.circuit, at)
  BY <1>2 DEF Tried, Tries
<1>6. y.run # {} /\ s.circuit.phase = "open" =>
          AuthConfig.threshold = 0 \/ MayPass(AuthConfig, s.circuit, at)
  BY <1>2 DEF Tried, Tries
<1>7. AuthConfig.threshold = 0 => y.s.circuit = s.circuit
  BY <1>2 DEF Tried, Tries
<1> QED
  BY <1>3, <1>4, <1>5, <1>6, <1>7 DEF Tries

\* A refresh that succeeds tries every parked call again.
LEMMA ReissueTries ==
  ASSUME NEW d \in Int, authed.resilience \in Slices, authNow \in Int,
         authed.parked \subseteq AuthKeys
  PROVE  Reissue(d) \in Tries(authed.resilience, authNow)
<1> DEFINE S == authed.parked
           X == Tries(authed.resilience, authNow)
           base == Quiet(authed.resilience)
           one(k, r) == Attempt(AuthConfig, r.s, k, authNow, d)
           again(k, r) == [s |-> one(k, r).s, run |-> r.run \union one(k, r).run]
           pick == [T \in (SUBSET S) \ {{}} |-> CHOOSE x \in T : TRUE]
           G == [z \in S \X X |-> again(z[1], z[2])]
           iter == CHOOSE iter : iter =
                     [T \in SUBSET S |-> IF T = {} THEN base
                        ELSE again(CHOOSE x \in T : TRUE,
                                   iter[T \ {CHOOSE x \in T : TRUE}])]
<1>1. Reissue(d) = iter[S]
  BY DEF Reissue, FoldSet, MapThenFoldSet
<1>2. IsFiniteSet(S)
  BY ConfigTypes, FS_Subset
<1>3. base \in X
  BY DEF Quiet, Tries
<1>4. \A k \in S, x \in X : again(k, x) \in X
  BY TriesGrow
<1> HIDE DEF X, base, again
<1>5. \A k \in S, x \in X : G[<<k, x>>] = again(k, x)
  BY <1>4
<1>5a. G \in [S \X X -> X]
  BY <1>4
<1>6. \A T \in SUBSET S : T # {} => pick[T] = CHOOSE x \in T : TRUE
  OBVIOUS
<1>6a. \A T \in SUBSET S : T # {} => pick[T] \in T
  OBVIOUS
<1>6b. pick \in [(SUBSET S) \ {{}} -> S]
  BY <1>6a
<1> HIDE DEF G, pick, S
<1>6c. Foldings(S, X, base, pick, G) # {}
  BY <1>2, <1>3, <1>5a, <1>6a, <1>6b, FoldExists
<1>7. PICK f \in [SUBSET S -> X] : \A T \in SUBSET S :
        f[T] = IF T = {} THEN base ELSE G[pick[T], f[T \ {pick[T]}]]
  BY <1>6c DEF Foldings
<1>8. \A T \in SUBSET S : T # {} =>
        f[T] = again(CHOOSE x \in T : TRUE, f[T \ {CHOOSE x \in T : TRUE}])
  <2> SUFFICES ASSUME NEW T \in SUBSET S, T # {}
               PROVE  f[T] = again(CHOOSE x \in T : TRUE,
                                   f[T \ {CHOOSE x \in T : TRUE}])
    OBVIOUS
  <2>1. pick[T] \in S /\ f[T \ {pick[T]}] \in X
    BY <1>6a
  <2>2. f[T] = again(pick[T], f[T \ {pick[T]}])
    BY <1>5, <1>7, <2>1
  <2> QED
    BY <1>6, <2>2
<1>9. f = [T \in SUBSET S |-> IF T = {} THEN base
             ELSE again(CHOOSE x \in T : TRUE, f[T \ {CHOOSE x \in T : TRUE}])]
  BY <1>7, <1>8
<1>10. iter = [T \in SUBSET S |-> IF T = {} THEN base
                 ELSE again(CHOOSE x \in T : TRUE, iter[T \ {CHOOSE x \in T : TRUE}])]
  BY <1>9
<1> HIDE DEF iter
<1> DEFINE P == {T \in SUBSET S : iter[T] \in X}
<1>11. {} \in P
  BY <1>3, <1>10
<1>12. \A T \in SUBSET S : T # {} => \E x \in T : T \ {x} \in P => T \in P
  <2> SUFFICES ASSUME NEW T \in SUBSET S, T # {}
               PROVE  \E x \in T : T \ {x} \in P => T \in P
    OBVIOUS
  <2> WITNESS (CHOOSE x \in T : TRUE) \in T
  <2>1. iter[T] = again(CHOOSE x \in T : TRUE, iter[T \ {CHOOSE x \in T : TRUE}])
    BY <1>10
  <2> QED
    BY <2>1, <1>4
<1> HIDE DEF P
<1>13. \A T \in SUBSET S : T \in P
  BY <1>2, <1>11, <1>12, SubsetInduction
<1> QED
  BY <1>1, <1>13 DEF P, X

-----------------------------------------------------------------------------

\* The slice of the authed call.
Authed ==
  [resilience : Slices, stale : BOOLEAN, authRetry : [AuthKeys -> 0..1],
   parked : SUBSET AuthKeys]

\* What ParkedIsLive says of a slice about to be installed.
ParkLives(x) ==
  \A k \in x.parked :
    x.authRetry[k] = 1 /\ x.resilience.calls[k].phase \notin {"succeeded", "failed"}

\* The invariant of the authed call.  The instant kept for an open circuit is
\* the one it opened at, and without a breaker the circuit stays shut.
AuthInv ==
  /\ AuthTypeOK
  /\ authed \in Authed
  /\ ParkedIsLive
  /\ authed.resilience.circuit.phase = "open" =>
       authTripped = authed.resilience.circuit.n
  /\ AuthConfig.threshold = 0 => authed.resilience.circuit.phase = "closed"

\* A circuit that follows: shut where it was shut, opened now where it was not.
Follows(circuit) ==
  /\ circuit.phase = "open" =>
       \/ circuit = authed.resilience.circuit
       \/ authed.resilience.circuit.phase # "open" /\ circuit.n = authNow
  /\ AuthConfig.threshold = 0 => circuit.phase = "closed"

LEMMA InstallKeeps ==
  ASSUME AuthInv, NEW x \in Authed, Installs(x), ParkLives(x),
         Follows(x.resilience.circuit),
         authRuns' \in [AuthKeys -> Nat], authMints' \in 0..AuthMaxMints
  PROVE  AuthInv'
<1>1. authed' = x /\ authNow' = authNow
  BY DEF Installs
<1>2. authTripped' \in -1..AuthHorizon
  BY ConfigTypes DEF Installs, AuthInv, AuthTypeOK
<1>3. AuthTypeOK'
  BY <1>1, <1>2 DEF AuthInv, AuthTypeOK, Authed
<1>4. ParkedIsLive'
  BY <1>1 DEF ParkedIsLive, ParkLives
<1>5. authed'.resilience.circuit.phase = "open" =>
        authTripped' = authed'.resilience.circuit.n
  BY <1>1 DEF Installs, AuthInv, Follows
<1>6. AuthConfig.threshold = 0 => authed'.resilience.circuit.phase = "closed"
  BY <1>1 DEF Follows
<1> QED
  BY <1>1, <1>3, <1>4, <1>5, <1>6 DEF AuthInv

\* Only the keys of the Cmds a step gives out have more in flight.
LEMMA FlyCounts ==
  ASSUME AuthInv, NEW back \in SUBSET AuthKeys, NEW run \in SUBSET AuthKeys,
         \A k \in back : authRuns[k] > 0, Fly(back, run)
  PROVE  /\ authRuns' \in [AuthKeys -> Nat]
         /\ \A k \in AuthKeys : authRuns'[k] > authRuns[k] => k \in run
BY DEF AuthInv, AuthTypeOK, Fly

\* The breaker lets Cmds out, as BreakerShields says it.
Shield ==
  \/ authTripped = -1
  \/ authed.resilience.circuit.phase # "open"
  \/ authNow - authTripped >= AuthConfig.cooldown

\* A call that the circuit let through at an instant gone by.
LEMMA PassingIsShielded ==
  ASSUME AuthInv, NEW at \in Int, at <= authNow,
         authed.resilience.circuit.phase = "open" =>
           AuthConfig.threshold = 0 \/ MayPass(AuthConfig, authed.resilience.circuit, at)
  PROVE  Shield
<1> SUFFICES ASSUME authed.resilience.circuit.phase = "open" PROVE Shield
  BY DEF Shield
<1>1. /\ authTripped = authed.resilience.circuit.n
      /\ AuthConfig.threshold # 0 /\ authNow \in Int
      /\ authTripped \in Int /\ AuthConfig.cooldown \in Int
  BY ConfigTypes DEF AuthInv, AuthTypeOK, Bricks
<1>2. at - authed.resilience.circuit.n >= AuthConfig.cooldown
  BY <1>1 DEF MayPass
<1> QED
  BY <1>1, <1>2 DEF Shield

\* The types, in the form the steps below use.
LEMMA AuthedTypes ==
  ASSUME AuthInv
  PROVE  /\ authed.resilience \in Slices
         /\ authed.resilience.circuit \in Circuits
         /\ authed.resilience.calls \in [AuthKeys -> Calls]
         /\ authed.parked \in SUBSET AuthKeys
         /\ authed.authRetry \in [AuthKeys -> 0..1]
         /\ authNow \in Int /\ AuthDelays \subseteq Int
         /\ authRuns \in [AuthKeys -> Nat] /\ authMints \in 0..AuthMaxMints
         /\ Follows(authed.resilience.circuit)
<1>1. authed \in Authed /\ AuthTypeOK
  BY DEF AuthInv
<1>2. authed.resilience \in Slices
  BY <1>1 DEF Authed
<1>3. /\ authed.resilience.circuit \in Circuits
      /\ authed.resilience.calls \in [AuthKeys -> Calls]
  BY <1>2 DEF Slices
<1>4. authNow \in Int /\ AuthDelays \subseteq Int
  BY <1>1, ConfigTypes DEF AuthTypeOK
<1>5. Follows(authed.resilience.circuit)
  BY DEF AuthInv, Follows
<1> QED
  BY <1>1, <1>2, <1>3, <1>4, <1>5 DEF Authed, AuthTypeOK

\* clearAuthKey: one key, and nothing else.
LEMMA ClearKeeps ==
  ASSUME NEW a \in Authed, NEW k \in AuthKeys, NEW x, x = ClearAuthKey(a, k)
  PROVE  /\ x \in Authed /\ x.resilience = a.resilience
         /\ x.parked = a.parked \ {k}
         /\ \A j \in AuthKeys \ {k} : x.authRetry[j] = a.authRetry[j]
<1>1. /\ a.authRetry \in [AuthKeys -> 0..1] /\ a.parked \in SUBSET AuthKeys
      /\ a = [resilience |-> a.resilience, stale |-> a.stale,
              authRetry |-> a.authRetry, parked |-> a.parked]
      /\ a.resilience \in Slices /\ a.stale \in BOOLEAN
  BY DEF Authed
<1>2. x = [resilience |-> a.resilience, stale |-> a.stale,
           authRetry |-> [a.authRetry EXCEPT ![k] = 0], parked |-> a.parked \ {k}]
  BY <1>1 DEF ClearAuthKey
<1>3. [a.authRetry EXCEPT ![k] = 0] \in [AuthKeys -> 0..1]
  BY <1>1
<1>4. x \in Authed
  BY <1>1, <1>2, <1>3 DEF Authed
<1> QED
  BY <1>1, <1>2, <1>4

\* A slice in the place of the one an authed call holds.
LEMMA PutKeeps ==
  ASSUME NEW a \in Authed, NEW s \in Slices, NEW x, x = [a EXCEPT !.resilience = s]
  PROVE  /\ x \in Authed /\ x.resilience = s
         /\ x.parked = a.parked /\ x.authRetry = a.authRetry
BY DEF Authed

\* settleAuthIfDone: of the keys it is asked about, none that settled is left
\* parked.
LEMMA SettleDoneKeeps ==
  ASSUME NEW a \in Authed, NEW Keys \in SUBSET AuthKeys,
         NEW x, x = SettleAuthIfDone(a, Keys)
  PROVE  /\ x \in Authed /\ x.resilience = a.resilience
         /\ \A j \in x.parked :
              /\ j \in a.parked /\ x.authRetry[j] = a.authRetry[j]
              /\ j \in Keys =>
                   a.resilience.calls[j].phase \notin {"succeeded", "failed"}
<1> DEFINE done == {k \in Keys : a.resilience.calls[k].phase \in {"succeeded", "failed"}}
           retry == [k \in AuthKeys |-> IF k \in done THEN 0 ELSE a.authRetry[k]]
<1>1. /\ a.authRetry \in [AuthKeys -> 0..1] /\ a.parked \in SUBSET AuthKeys
      /\ a = [resilience |-> a.resilience, stale |-> a.stale,
              authRetry |-> a.authRetry, parked |-> a.parked]
      /\ a.resilience \in Slices /\ a.stale \in BOOLEAN
  BY DEF Authed
<1>2. x = [resilience |-> a.resilience, stale |-> a.stale,
           authRetry |-> retry, parked |-> a.parked \ done]
  BY <1>1 DEF SettleAuthIfDone
<1>3. retry \in [AuthKeys -> 0..1]
  BY <1>1
<1>4. x \in Authed
  <2> HIDE DEF retry, done
  <2> QED
    BY <1>1, <1>2, <1>3 DEF Authed
<1> QED
  BY <1>1, <1>2, <1>4

\* A success closes a circuit, and opens none.
LEMMA SettleOkKeeps ==
  ASSUME NEW s \in Slices, NEW k \in AuthKeys, NEW at \in Int,
         NEW r, r = SettleOk(AuthConfig, s, k, at)
  PROVE  /\ r \in Slices /\ \A j \in AuthKeys \ {k} : r.calls[j] = s.calls[j]
         /\ r.circuit.phase = "open" => r.circuit = s.circuit
         /\ AuthConfig.threshold = 0 => r.circuit = s.circuit
<1> DEFINE t == SetCall(s, k, Succeeded)
           circuit == IF AuthConfig.threshold > 0 THEN OnSuccess(s.circuit)
                      ELSE s.circuit
           fresh == IF AuthConfig.ttl > 0 THEN at + AuthConfig.ttl ELSE s.fresh[k]
<1>1. /\ t \in Slices /\ t.circuit = s.circuit /\ t.fresh = s.fresh
      /\ t.calls = [s.calls EXCEPT ![k] = Succeeded]
  BY SetCallKeeps, CallTypes DEF SetCall, Slices
<1>2. /\ circuit \in Circuits
      /\ circuit.phase = "open" => circuit = s.circuit
  <2>1. s.circuit \in Circuits
    BY DEF Slices
  <2> QED
    BY <2>1, CircuitTypes
<1>3. AuthConfig.threshold = 0 => circuit = s.circuit
  OBVIOUS
<1>4. fresh \in Int
  BY ConfigTypes DEF Slices, Bricks
<1>5. r = [t EXCEPT !.circuit = circuit, !.fresh[k] = fresh, !.retry[k] = 0]
  BY <1>1 DEF SettleOk, Slices
<1>6. DOMAIN s.calls = AuthKeys
  BY DEF Slices
<1> HIDE DEF t, circuit, fresh
<1>7. r \in Slices /\ r.calls = t.calls /\ r.circuit = circuit
  <2> DEFINE u == [t EXCEPT !.circuit = circuit]
             v == [u EXCEPT !.fresh[k] = fresh]
  <2>1. u \in Slices /\ u.calls = t.calls /\ u.circuit = circuit
    BY <1>1, <1>2 DEF Slices
  <2> HIDE DEF u
  <2>2. v \in Slices /\ v.calls = u.calls /\ v.circuit = u.circuit
    BY <2>1, <1>4 DEF Slices
  <2> HIDE DEF v
  <2>3. r = [v EXCEPT !.retry[k] = 0]
    BY <1>5 DEF u, v
  <2> QED
    BY <2>1, <2>2, <2>3 DEF Slices
<1> QED
  BY <1>1, <1>2, <1>3, <1>6, <1>7

\* A failure may open the circuit, at its instant.
LEMMA SettleErrKeeps ==
  ASSUME NEW s \in Slices, NEW k \in AuthKeys, NEW at \in Int, NEW d \in Int,
         NEW r, r = SettleErr(AuthConfig, s, k, at, d)
  PROVE  /\ r \in Slices /\ \A j \in AuthKeys \ {k} : r.calls[j] = s.calls[j]
         /\ r.circuit.phase = "open" =>
              \/ r.circuit = s.circuit
              \/ s.circuit.phase # "open" /\ r.circuit.n = at
         /\ AuthConfig.threshold = 0 => r.circuit = s.circuit
<1> DEFINE circuit == IF AuthConfig.threshold > 0
                        THEN OnFailure(AuthConfig, s.circuit, at) ELSE s.circuit
           t == [s EXCEPT !.circuit = circuit]
           b == BudgetFor(AuthConfig, s, k, at)
<1>1. /\ circuit \in Circuits
      /\ circuit.phase = "open" =>
           \/ circuit = s.circuit
           \/ s.circuit.phase # "open" /\ circuit.n = at
  <2>1. s.circuit \in Circuits
    BY DEF Slices
  <2> DEFINE after == OnFailure(AuthConfig, s.circuit, at)
  <2>2. /\ after \in Circuits
        /\ after.phase = "open" =>
             \/ s.circuit.phase = "open" /\ after = s.circuit
             \/ s.circuit.phase # "open" /\ after.n = at
    BY <2>1, CircuitTypes
  <2> HIDE DEF after
  <2>3. circuit = after \/ circuit = s.circuit
    BY DEF after
  <2> QED
    BY <2>1, <2>2, <2>3
<1>2. AuthConfig.threshold = 0 => circuit = s.circuit
  OBVIOUS
<1>3. b \in Budgets
  BY BudgetTypes
<1>4. Failed("err") \in Calls /\ "err" \in CallErrors
  BY CallTypes DEF CallErrors
<1>5. r = IF s.calls[k].phase = "running"
            THEN Backoff(AuthConfig, t, k, "err", at, b, d)
            ELSE SetCall(t, k, Failed("err"))
  BY DEF SettleErr
<1> HIDE DEF circuit, b
<1>6. t \in Slices /\ t.circuit = circuit /\ t.calls = s.calls
  BY <1>1 DEF Slices
<1> HIDE DEF t
<1>7. CASE s.calls[k].phase = "running"
  <2>1. r = Backoff(AuthConfig, t, k, "err", at, b, d)
    BY <1>5, <1>7
  <2>2. /\ r \in Slices /\ r.circuit = t.circuit
        /\ \A j \in AuthKeys \ {k} : r.calls[j] = t.calls[j]
    BY <1>3, <1>4, <1>6, <2>1, BackoffKeeps
  <2> QED
    BY <1>1, <1>2, <1>6, <2>2
<1>8. CASE s.calls[k].phase # "running"
  <2>1. r = SetCall(t, k, Failed("err"))
    BY <1>5, <1>8
  <2>2. /\ r \in Slices /\ r.circuit = t.circuit
        /\ r.calls = [t.calls EXCEPT ![k] = Failed("err")]
    BY <1>4, <1>6, <2>1, SetCallKeeps
  <2>3. DOMAIN s.calls = AuthKeys
    BY DEF Slices
  <2> QED
    BY <1>1, <1>2, <1>6, <2>2, <2>3
<1> QED
  BY <1>7, <1>8

\* fetch: the key starts afresh, so it is parked no more.
LEMMA AuthFetchKeeps ==
  ASSUME AuthInv, NEW k \in AuthKeys, Fetch(k)
  PROVE  AuthInv' /\ \A j \in AuthKeys : authRuns'[j] > authRuns[j] => Shield
<1>0. PICK d \in AuthDelays :
        LET cleared == ClearAuthKey(authed, k)
            r == Attempt(AuthConfig, cleared.resilience, k, authNow, d)
        IN /\ authRuns[k] < AuthMaxRuns
           /\ Installs([cleared EXCEPT !.resilience = r.s])
           /\ Fly({}, r.run)
           /\ UNCHANGED authMints
  BY DEF Fetch
<1> DEFINE r == Attempt(AuthConfig, authed.resilience, k, authNow, d)
           cleared == ClearAuthKey(authed, k)
           x == [cleared EXCEPT !.resilience = r.s]
<1>1. /\ cleared \in Authed /\ cleared.resilience = authed.resilience
      /\ cleared.parked = authed.parked \ {k}
      /\ \A j \in AuthKeys \ {k} : cleared.authRetry[j] = authed.authRetry[j]
  BY ClearKeeps DEF AuthInv
<1>2. Tried(authed.resilience, k, authNow, r)
  BY AuthedTypes, AttemptKeeps
<1>3. Installs(x) /\ Fly({}, r.run) /\ authMints' = authMints
  BY <1>0, <1>1
<1> HIDE DEF r, cleared
<1>4. x \in Authed /\ x.resilience = r.s /\ x.parked = cleared.parked
        /\ x.authRetry = cleared.authRetry
  BY <1>1, <1>2, PutKeeps DEF Tried
<1>5. ParkLives(x)
  BY <1>1, <1>2, <1>4 DEF ParkLives, Tried, AuthInv, ParkedIsLive, Authed
<1>6. Follows(x.resilience.circuit)
  BY <1>2, <1>4, AuthedTypes DEF Tried, Follows
<1>7. r.run \in SUBSET AuthKeys
  BY <1>2 DEF Tried
<1>8. /\ authRuns' \in [AuthKeys -> Nat]
      /\ \A j \in AuthKeys : authRuns'[j] > authRuns[j] => j \in r.run
  BY <1>3, <1>7, FlyCounts
<1>9. AuthInv'
  <2>1. authMints' \in 0..AuthMaxMints
    BY <1>3, AuthedTypes
  <2> HIDE DEF x
  <2> QED
    BY <1>3, <1>4, <1>5, <1>6, <1>8, <2>1, InstallKeeps
<1>10. r.run # {} => Shield
  <2> SUFFICES ASSUME r.run # {} PROVE Shield
    OBVIOUS
  <2>1. authed.resilience.circuit.phase = "open" =>
          AuthConfig.threshold = 0
            \/ MayPass(AuthConfig, authed.resilience.circuit, authNow)
    BY <1>2 DEF Tried
  <2> QED
    BY <2>1, AuthedTypes, PassingIsShielded
<1> QED
  BY <1>8, <1>9, <1>10

\* resilient_run_ok.
LEMMA RunOkKeeps ==
  ASSUME AuthInv, NEW k \in AuthKeys, RunOk(k)
  PROVE  AuthInv' /\ \A j \in AuthKeys : authRuns'[j] > authRuns[j] => Shield
<1> DEFINE settled == ClearAuthKey(authed, k)
           s == SettleOk(AuthConfig, authed.resilience, k, authNow)
           x == [settled EXCEPT !.resilience = s]
<1>1. /\ settled \in Authed /\ settled.resilience = authed.resilience
      /\ settled.parked = authed.parked \ {k}
      /\ \A j \in AuthKeys \ {k} : settled.authRetry[j] = authed.authRetry[j]
  BY ClearKeeps DEF AuthInv
<1>2. /\ s \in Slices
      /\ \A j \in AuthKeys \ {k} : s.calls[j] = authed.resilience.calls[j]
      /\ s.circuit.phase = "open" => s.circuit = authed.resilience.circuit
      /\ AuthConfig.threshold = 0 => s.circuit = authed.resilience.circuit
  <2>1. authed.resilience \in Slices /\ authNow \in Int
    BY AuthedTypes
  <2> QED
    BY <2>1, SettleOkKeeps
<1>3. /\ Installs(x) /\ Fly({k}, {}) /\ authMints' = authMints
      /\ \A j \in {k} : authRuns[j] > 0
  BY <1>1 DEF RunOk
<1> HIDE DEF settled, s
<1>4. /\ x \in Authed /\ x.resilience = s /\ x.parked = settled.parked
      /\ x.authRetry = settled.authRetry
  BY <1>1, <1>2, PutKeeps
<1>5. ParkLives(x)
  BY <1>1, <1>2, <1>4 DEF ParkLives, AuthInv, ParkedIsLive, Authed
<1>6. Follows(x.resilience.circuit)
  BY <1>2, <1>4, AuthedTypes DEF Follows
<1>7. /\ authRuns' \in [AuthKeys -> Nat]
      /\ \A j \in AuthKeys : authRuns'[j] > authRuns[j] => j \in {}
  BY <1>3, FlyCounts
<1>8. authMints' \in 0..AuthMaxMints
  BY <1>3, AuthedTypes
<1> HIDE DEF x
<1>9. AuthInv'
  BY <1>3, <1>4, <1>5, <1>6, <1>7, <1>8, InstallKeeps
<1> QED
  BY <1>7, <1>9

\* resilient_run_err: a call that is spent is parked no more.
LEMMA RunErrKeeps ==
  ASSUME AuthInv, NEW k \in AuthKeys, RunErr(k)
  PROVE  AuthInv' /\ \A j \in AuthKeys : authRuns'[j] > authRuns[j] => Shield
<1>0. PICK d \in AuthDelays :
        LET settled == SettleErr(AuthConfig, authed.resilience, k, authNow, d)
        IN /\ authRuns[k] > 0
           /\ Installs(SettleAuthIfDone([authed EXCEPT !.resilience = settled], {k}))
           /\ Fly({k}, {})
           /\ UNCHANGED authMints
  BY DEF RunErr
<1> DEFINE s == SettleErr(AuthConfig, authed.resilience, k, authNow, d)
           y == [authed EXCEPT !.resilience = s]
           x == SettleAuthIfDone(y, {k})
<1>1. authed \in Authed /\ d \in Int
  BY AuthedTypes DEF AuthInv
<1>2. /\ s \in Slices
      /\ \A j \in AuthKeys \ {k} : s.calls[j] = authed.resilience.calls[j]
      /\ s.circuit.phase = "open" =>
           \/ s.circuit = authed.resilience.circuit
           \/ authed.resilience.circuit.phase # "open" /\ s.circuit.n = authNow
      /\ AuthConfig.threshold = 0 => s.circuit = authed.resilience.circuit
  <2>1. PICK old \in Slices : old = authed.resilience
    BY AuthedTypes
  <2>2. PICK at \in Int : at = authNow
    BY AuthedTypes
  <2>3. PICK new : new = s
    OBVIOUS
  <2>4. d \in Int /\ new = SettleErr(AuthConfig, old, k, at, d)
    BY <1>1, <2>1, <2>2, <2>3
  <2>5. /\ new \in Slices /\ \A j \in AuthKeys \ {k} : new.calls[j] = old.calls[j]
        /\ new.circuit.phase = "open" =>
             \/ new.circuit = old.circuit
             \/ old.circuit.phase # "open" /\ new.circuit.n = at
        /\ AuthConfig.threshold = 0 => new.circuit = old.circuit
    BY <2>1, <2>2, <2>4, SettleErrKeeps
  <2> HIDE DEF s
  <2> QED
    BY <2>1, <2>2, <2>3, <2>5
<1>3. /\ Installs(x) /\ Fly({k}, {}) /\ authMints' = authMints
      /\ \A j \in {k} : authRuns[j] > 0
  BY <1>0
<1> HIDE DEF s
<1>4. /\ y \in Authed /\ y.resilience = s /\ y.parked = authed.parked
      /\ y.authRetry = authed.authRetry
  BY <1>1, <1>2, PutKeeps
<1> HIDE DEF y
<1>5. /\ x \in Authed /\ x.resilience = s
      /\ \A j \in x.parked :
           /\ j \in authed.parked /\ x.authRetry[j] = authed.authRetry[j]
           /\ j \in {k} => s.calls[j].phase \notin {"succeeded", "failed"}
  BY <1>4, SettleDoneKeeps
<1> HIDE DEF x
<1>6. ParkLives(x)
  BY <1>2, <1>5 DEF ParkLives, AuthInv, ParkedIsLive, Authed
<1>7. Follows(x.resilience.circuit)
  BY <1>2, <1>5, AuthedTypes DEF Follows
<1>8. /\ authRuns' \in [AuthKeys -> Nat]
      /\ \A j \in AuthKeys : authRuns'[j] > authRuns[j] => j \in {}
  BY <1>3, FlyCounts
<1>9. authMints' \in 0..AuthMaxMints
  BY <1>3, AuthedTypes
<1>10. AuthInv'
  BY <1>3, <1>5, <1>6, <1>7, <1>8, <1>9, InstallKeeps
<1> QED
  BY <1>8, <1>10

\* What the first 401 of a live call makes of it.
Park(a, k) ==
  [a EXCEPT !.stale = TRUE, !.authRetry[k] = @ + 1, !.parked = @ \union {k}]

\* The parked call is parked, once.
LEMMA ParkMakes ==
  ASSUME NEW a \in Authed, NEW k \in AuthKeys, a.authRetry[k] = 0
  PROVE  /\ Park(a, k) \in Authed /\ Park(a, k).resilience = a.resilience
         /\ Park(a, k).authRetry = [a.authRetry EXCEPT ![k] = 1]
         /\ Park(a, k).parked = a.parked \union {k}
<1> DEFINE u == [a EXCEPT !.stale = TRUE]
           v == [u EXCEPT !.authRetry[k] = a.authRetry[k] + 1]
<1>1. /\ u \in Authed /\ u.resilience = a.resilience
      /\ u.authRetry = a.authRetry /\ u.parked = a.parked
  BY DEF Authed
<1>2. [a.authRetry EXCEPT ![k] = 1] \in [AuthKeys -> 0..1]
  BY DEF Authed
<1> HIDE DEF u
<1>3. v = [u EXCEPT !.authRetry = [a.authRetry EXCEPT ![k] = 1]]
  BY <1>1
<1> HIDE DEF v
<1>4. /\ v \in Authed /\ v.resilience = a.resilience /\ v.parked = a.parked
      /\ v.authRetry = [a.authRetry EXCEPT ![k] = 1]
  BY <1>1, <1>2, <1>3 DEF Authed
<1>5. Park(a, k) = [v EXCEPT !.parked = a.parked \union {k}]
  BY DEF Park, u, v
<1> QED
  BY <1>4, <1>5 DEF Authed

\* got_401: a live call is parked with its one refresh spent; another settles.
LEMMA Got401Keeps ==
  ASSUME AuthInv, NEW k \in AuthKeys, Got401(k)
  PROVE  AuthInv' /\ \A j \in AuthKeys : authRuns'[j] > authRuns[j] => Shield
<1>1. /\ Fly({k}, {}) /\ \A j \in {k} : authRuns[j] > 0
      /\ authMints < AuthMaxMints
  BY DEF Got401
<1>2. /\ authRuns' \in [AuthKeys -> Nat]
      /\ \A j \in AuthKeys : authRuns'[j] > authRuns[j] => j \in {}
  BY <1>1, FlyCounts
<1>3. authed \in Authed
  BY DEF AuthInv
<1>4. CASE Spent(k)
  <2> DEFINE cleared == ClearAuthKey(authed, k)
             s == SettleFailed(authed.resilience, k, "unauthorized")
             x == [cleared EXCEPT !.resilience = s]
  <2>1. /\ cleared \in Authed /\ cleared.resilience = authed.resilience
        /\ cleared.parked = authed.parked \ {k}
        /\ \A j \in AuthKeys \ {k} : cleared.authRetry[j] = authed.authRetry[j]
    BY <1>3, ClearKeeps
  <2>2. Failed("unauthorized") \in Calls
    BY CallTypes DEF CallErrors
  <2>3. /\ s \in Slices /\ s.circuit = authed.resilience.circuit
        /\ s.calls = [authed.resilience.calls EXCEPT ![k] = Failed("unauthorized")]
    BY <2>2, AuthedTypes, SetCallKeeps DEF SettleFailed
  <2>4. Installs(x) /\ authMints' = authMints
    BY <1>4, <2>1 DEF Got401
  <2> HIDE DEF cleared, s
  <2>5. /\ x \in Authed /\ x.resilience = s /\ x.parked = cleared.parked
        /\ x.authRetry = cleared.authRetry
    BY <2>1, <2>3, PutKeeps
  <2> HIDE DEF x
  <2>6. ParkLives(x)
    BY <2>1, <2>3, <2>5, AuthedTypes DEF ParkLives, AuthInv, ParkedIsLive
  <2>7. Follows(x.resilience.circuit)
    BY <2>3, <2>5, AuthedTypes
  <2>8. authMints' \in 0..AuthMaxMints
    BY <2>4, AuthedTypes
  <2>9. AuthInv'
    BY <1>2, <2>4, <2>5, <2>6, <2>7, <2>8, InstallKeeps
  <2> QED
    BY <1>2, <2>9
<1>5. CASE ~Spent(k)
  <2> DEFINE x == Park(authed, k)
  <2>1. Installs(x) /\ authMints' = authMints + 1
    BY <1>5 DEF Got401, Park
  <2>2. /\ authed.authRetry[k] = 0
        /\ authed.resilience.calls[k].phase \notin {"succeeded", "failed"}
    BY <1>5, AuthedTypes DEF Spent, LivePhases
  <2> DEFINE retry == [authed.authRetry EXCEPT ![k] = 1]
  <2>3. /\ retry \in [AuthKeys -> 0..1] /\ retry[k] = 1
        /\ \A j \in AuthKeys \ {k} : retry[j] = authed.authRetry[j]
    BY AuthedTypes
  <2>5. /\ x \in Authed /\ x.resilience = authed.resilience
        /\ x.authRetry = retry /\ x.parked = authed.parked \union {k}
    BY <1>3, <2>2, ParkMakes
  <2> HIDE DEF retry, x
  <2>6. ParkLives(x)
    BY <2>2, <2>3, <2>5, AuthedTypes DEF ParkLives, AuthInv, ParkedIsLive
  <2>7. Follows(x.resilience.circuit)
    BY <2>5, AuthedTypes
  <2>8. authMints' \in 0..AuthMaxMints
    BY <1>1, <2>1, AuthedTypes, AuthAssumption DEF AuthAssumption
  <2>9. AuthInv'
    BY <1>2, <2>1, <2>5, <2>6, <2>7, <2>8, InstallKeeps
  <2> QED
    BY <1>2, <2>9
<1> QED
  BY <1>4, <1>5

\* refresh_token_ok: every parked call is tried again, and none is parked.
LEMMA TokenRefreshedKeeps ==
  ASSUME AuthInv, TokenRefreshed
  PROVE  AuthInv' /\ \A j \in AuthKeys : authRuns'[j] > authRuns[j] => Shield
<1>0. PICK d \in AuthDelays :
        LET r == Reissue(d)
        IN /\ authMints > 0
           /\ authMints' = authMints - 1
           /\ Installs([authed EXCEPT !.resilience = r.s, !.stale = FALSE,
                                      !.parked = {}])
           /\ Fly({}, r.run)
  BY DEF TokenRefreshed
<1> DEFINE r == Reissue(d)
           x == [authed EXCEPT !.resilience = r.s, !.stale = FALSE, !.parked = {}]
<1>1. authed \in Authed /\ d \in Int
  BY AuthedTypes DEF AuthInv
<1>2. r \in Tries(authed.resilience, authNow)
  BY <1>1, AuthedTypes, ReissueTries
<1>3. Installs(x) /\ Fly({}, r.run) /\ authMints > 0 /\ authMints' = authMints - 1
  BY <1>0
<1> HIDE DEF r
<1>4. r.s \in Slices /\ r.run \in SUBSET AuthKeys
  BY <1>2 DEF Tries
<1>5. x \in Authed /\ x.resilience = r.s /\ x.parked = {}
  BY <1>1, <1>4 DEF Authed
<1> HIDE DEF x
<1>6. ParkLives(x)
  BY <1>5 DEF ParkLives
<1>7. Follows(x.resilience.circuit)
  BY <1>2, <1>5, AuthedTypes DEF Tries, Follows
<1>8. /\ authRuns' \in [AuthKeys -> Nat]
      /\ \A j \in AuthKeys : authRuns'[j] > authRuns[j] => j \in r.run
  BY <1>3, <1>4, FlyCounts
<1>9. authMints' \in 0..AuthMaxMints
  BY <1>3, AuthedTypes, AuthAssumption DEF AuthAssumption
<1>10. AuthInv'
  BY <1>3, <1>5, <1>6, <1>7, <1>8, <1>9, InstallKeeps
<1>11. r.run # {} => Shield
  <2> SUFFICES ASSUME r.run # {} PROVE Shield
    OBVIOUS
  <2>1. authed.resilience.circuit.phase = "open" =>
          AuthConfig.threshold = 0
            \/ MayPass(AuthConfig, authed.resilience.circuit, authNow)
    BY <1>2 DEF Tries
  <2> QED
    BY <2>1, AuthedTypes, PassingIsShielded
<1> QED
  BY <1>8, <1>10, <1>11

\* A ring tries its call again as of the instant it was due, or changes no circuit.
LEMMA OnTimerTries ==
  ASSUME NEW s \in Slices, NEW t, t.key \in AuthKeys, t.at \in Int, NEW d \in Int,
         NEW r, r = OnTimer(AuthConfig, s, t, d)
  PROVE  Tried(s, t.key, t.at, r)
<1>1. /\ s.calls[t.key] \in Calls
      /\ Charge(AuthConfig, s.calls[t.key], t.at) \in Budgets
      /\ Failed("deadline_exceeded") \in Calls
  BY BudgetTypes, CallTypes DEF Slices, CallErrors
<1>2. CASE r = Gate(AuthConfig, s, t.key, t.at,
                    Charge(AuthConfig, s.calls[t.key], t.at), d)
  BY <1>1, <1>2, GateKeepsSlice
<1>3. CASE r = Quiet(SetCall(s, t.key, Failed("deadline_exceeded")))
  <2> DEFINE x == SetCall(s, t.key, Failed("deadline_exceeded"))
  <2>1. /\ x \in Slices /\ x.circuit = s.circuit
        /\ x.calls = [s.calls EXCEPT ![t.key] = Failed("deadline_exceeded")]
    BY <1>1, SetCallKeeps
  <2>2. r.s = x /\ r.run = {}
    BY <1>3 DEF Quiet
  <2>3. DOMAIN s.calls = AuthKeys
    BY DEF Slices
  <2> HIDE DEF x
  <2> QED
    BY <2>1, <2>2, <2>3 DEF Tried
<1>4. CASE r = Quiet(s)
  BY <1>4 DEF Quiet, Tried
<1> QED
  BY <1>2, <1>3, <1>4 DEF OnTimer

\* The timer Sub rings, at its instant or later: what the ring failed is
\* parked no more.
LEMMA TimerDueKeeps ==
  ASSUME AuthInv, TimerDue
  PROVE  AuthInv' /\ \A j \in AuthKeys : authRuns'[j] > authRuns[j] => Shield
<1> DEFINE Keys == {k \in AuthKeys : authed.authRetry[k] > 0}
<1>0. PICK t \in Deadlines(AuthConfig, authed.resilience), d \in AuthDelays :
        LET r == OnTimer(AuthConfig, authed.resilience, t, d)
        IN /\ t.at <= authNow
           /\ Installs(SettleAuthIfDone([authed EXCEPT !.resilience = r.s], Keys))
           /\ Fly({}, r.run)
           /\ UNCHANGED authMints
  BY DEF TimerDue
<1>1. authed \in Authed /\ d \in Int
  BY AuthedTypes DEF AuthInv
<1>2. t.key \in AuthKeys /\ t.at \in Int /\ t.at <= authNow
  BY <1>0, AuthedTypes DEF Deadlines, Timer, Calls
<1> DEFINE r == OnTimer(AuthConfig, authed.resilience, t, d)
           y == [authed EXCEPT !.resilience = r.s]
           x == SettleAuthIfDone(y, Keys)
<1>3. Tried(authed.resilience, t.key, t.at, r)
  BY <1>1, <1>2, AuthedTypes, OnTimerTries
<1>4. Installs(x) /\ Fly({}, r.run) /\ authMints' = authMints
  BY <1>0
<1> HIDE DEF r
<1>5. r.s \in Slices /\ r.run \in SUBSET AuthKeys
  BY <1>2, <1>3 DEF Tried
<1>6. /\ y \in Authed /\ y.resilience = r.s /\ y.parked = authed.parked
      /\ y.authRetry = authed.authRetry
  BY <1>1, <1>5, PutKeeps
<1> HIDE DEF y
<1>7. /\ x \in Authed /\ x.resilience = r.s
      /\ \A j \in x.parked :
           /\ j \in authed.parked /\ x.authRetry[j] = authed.authRetry[j]
           /\ j \in Keys => r.s.calls[j].phase \notin {"succeeded", "failed"}
  BY <1>6, SettleDoneKeeps
<1> HIDE DEF x
<1>8. ParkLives(x)
  BY <1>7, AuthedTypes DEF ParkLives, AuthInv, ParkedIsLive
<1>9. Follows(x.resilience.circuit)
  BY <1>3, <1>7, AuthedTypes DEF Tried, Follows
<1>10. /\ authRuns' \in [AuthKeys -> Nat]
       /\ \A j \in AuthKeys : authRuns'[j] > authRuns[j] => j \in r.run
  BY <1>4, <1>5, FlyCounts
<1>11. authMints' \in 0..AuthMaxMints
  BY <1>4, AuthedTypes
<1>12. AuthInv'
  BY <1>4, <1>7, <1>8, <1>9, <1>10, <1>11, InstallKeeps
<1>13. r.run # {} => Shield
  <2> SUFFICES ASSUME r.run # {} PROVE Shield
    OBVIOUS
  <2>1. authed.resilience.circuit.phase = "open" =>
          AuthConfig.threshold = 0
            \/ MayPass(AuthConfig, authed.resilience.circuit, t.at)
    BY <1>3 DEF Tried
  <2> QED
    BY <1>2, <2>1, PassingIsShielded
<1> QED
  BY <1>10, <1>12, <1>13

\* The slice at its start.
LEMMA AuthStarts == AuthInit => AuthInv
<1> SUFFICES ASSUME AuthInit PROVE AuthInv
  OBVIOUS
<1>1. InitSlice(AuthConfig, AuthKeys) \in Slices
  <2>1. Circuit("closed", 0) \in Circuits
    BY DEF Circuit, Circuits
  <2>2. [tokens |-> MaxOf(1, AuthConfig.capacity), at |-> 0] \in [tokens : Int, at : Int]
    BY ConfigTypes DEF MaxOf, Bricks
  <2> QED
    BY <2>1, <2>2, CallTypes DEF InitSlice, Slices
<1>2. InitSlice(AuthConfig, AuthKeys).circuit.phase = "closed"
  BY DEF InitSlice, Circuit
<1> DEFINE s == InitSlice(AuthConfig, AuthKeys)
<1> HIDE DEF s
<1>3. /\ authed = [resilience |-> s, stale |-> FALSE,
                   authRetry |-> [k \in AuthKeys |-> 0], parked |-> {}]
      /\ s \in Slices /\ s.circuit.phase = "closed"
  BY <1>1, <1>2 DEF AuthInit, s
<1>4. authed \in Authed
  BY <1>3 DEF Authed
<1>5. AuthTypeOK
  BY <1>3, ConfigTypes, AuthAssumption DEF AuthTypeOK, AuthInit, AuthAssumption
<1>6. ParkedIsLive
  BY <1>3 DEF ParkedIsLive
<1> QED
  BY <1>3, <1>4, <1>5, <1>6 DEF AuthInv

\* Every step keeps the invariant, and what it runs the circuit let through.
LEMMA AuthStep ==
  ASSUME AuthInv, [AuthNext]_authVars
  PROVE  AuthInv' /\ \A j \in AuthKeys : authRuns'[j] > authRuns[j] => Shield
<1> DEFINE Goal == AuthInv' /\ \A j \in AuthKeys : authRuns'[j] > authRuns[j] => Shield
<1>1. ASSUME NEW k \in AuthKeys, Fetch(k) \/ RunOk(k) \/ RunErr(k) \/ Got401(k)
      PROVE  Goal
  BY <1>1, AuthFetchKeeps, RunOkKeeps, RunErrKeeps, Got401Keeps
<1>2. ASSUME TokenRefreshed PROVE Goal
  BY <1>2, TokenRefreshedKeeps
<1>3. ASSUME TimerDue PROVE Goal
  BY <1>3, TimerDueKeeps
<1>4. ASSUME RefreshFailed PROVE Goal
  BY <1>4, AuthAssumption DEF RefreshFailed, AuthInv, AuthTypeOK, ParkedIsLive, AuthAssumption
<1>5. ASSUME AuthTime PROVE Goal
  BY <1>5, AuthAssumption DEF AuthTime, AuthInv, AuthTypeOK, ParkedIsLive, AuthAssumption
<1>6. ASSUME UNCHANGED authVars PROVE Goal
  BY <1>6 DEF authVars, AuthInv, AuthTypeOK, ParkedIsLive
<1> HIDE DEF Goal
<1>7. Goal
  BY <1>1, <1>2, <1>3, <1>4, <1>5, <1>6 DEF AuthNext
<1> QED
  BY <1>7 DEF Goal

\* A parked call has spent its one refresh and can still be answered, for any
\* keys, any bricks in the knob and any order of answers, 401s and rings.
THEOREM ParkedStaysLive == AuthSpec => []ParkedIsLive
<1>1. AuthInv /\ [AuthNext]_authVars => AuthInv'
  BY AuthStep
<1>2. AuthInv => ParkedIsLive
  BY DEF AuthInv
<1> QED
  BY <1>1, <1>2, AuthStarts, PTL DEF AuthSpec

\* An open breaker keeps every call off the backend for its cooldown, on the
\* clock of the host, by whichever path the call comes.
THEOREM BreakerStaysShut == AuthSpec => BreakerShields
<1>1. AuthInv /\ [AuthNext]_authVars => AuthInv'
  BY AuthStep
<1> DEFINE Shields ==
      \A k \in AuthKeys :
        authRuns'[k] > authRuns[k] =>
          \/ authTripped = -1
          \/ authed.resilience.circuit.phase # "open"
          \/ authNow - authTripped >= AuthConfig.cooldown
<1>2. AuthInv /\ [AuthNext]_authVars => [Shields]_authVars
  BY AuthStep DEF Shield
<1> QED
  BY <1>1, <1>2, AuthStarts, PTL DEF AuthSpec, BreakerShields

-----------------------------------------------------------------------------
(* The throttled input.  The line is in the order of the samples, and      *)
(* ahead of the slice; what was emitted is behind it (LineOK, SliceOK).    *)

\* A sample, numbered from 1.
Samples == [nr : Nat \ {0}, value : ThrottleValues, at : Nat]
\* The Msg of the timer, with the instant it was set to.
Flushes == [nr : {0}, value : {"none"}, at : Nat]
\* The Msgs of the line.
GateMsgs == Samples \union Flushes
\* The slice.
Gates == [lastAt : Nat \union {Never}, pending : Samples \union {NoSample},
          expires : [ThrottleValues -> Int]]
\* What was emitted, and when.
Emits == [sample : Samples, at : Nat]

\* The types.
GateTypes ==
  /\ gateConfig \in [throttle : Nat, debounce : Nat, ttl : Nat]
  /\ gate \in Gates
  /\ gateTimer \in [at : Nat \union {Never}, rung : BOOLEAN]
  /\ gateLine \in Seq(GateMsgs)
  /\ gateEmits \in Seq(Emits)
  /\ gateMade \in Nat /\ gateTaken \in Nat /\ gateNow \in Nat

\* The order of two Msgs of the line, under a configuration.
GateBefore(c, a, b) ==
  /\ b.nr # 0 => a.at <= b.at
  /\ a.nr # 0 /\ b.nr # 0 => a.nr < b.nr
  /\ c.throttle = 0 /\ b.nr = 0 =>
       IF a.nr = 0 THEN a.at <= b.at ELSE b.at <= a.at + c.debounce

\* A Msg comes after all of a line.
AfterAll(c, line, m) == \A i \in 1 .. Len(line) : GateBefore(c, line[i], m)

\* What a Msg of the line is to the slice that has taken so many samples.
GateAhead(c, g, taken, m) ==
  /\ m.nr # 0 =>
       /\ taken < m.nr /\ g.lastAt <= m.at
       /\ g.pending # NoSample => g.pending.at <= m.at
  /\ m.nr = 0 =>
       /\ c.debounce > 0
       /\ c.throttle = 0 =>
            /\ g.lastAt <= m.at
            /\ g.pending # NoSample => m.at <= g.pending.at + c.debounce

\* The Msgs of the line, among themselves and against the slice.
LineOK(c, g, taken, line) ==
  /\ \A i, j \in 1 .. Len(line) : i < j => GateBefore(c, line[i], line[j])
  /\ \A i \in 1 .. Len(line) : GateAhead(c, g, taken, line[i])

\* What has happened so far bounds what the line and the slice name.
GateKnown(g, line, taken, made, now) ==
  /\ taken <= made /\ g.lastAt <= now
  /\ g.pending # NoSample => g.pending.at <= now
  /\ \A i \in 1 .. Len(line) : line[i].at <= now /\ line[i].nr <= made

\* What a held sample is to its slice.
GateHeld(c, g, taken) ==
  g.pending # NoSample =>
    /\ c.debounce > 0
    /\ g.pending.nr <= taken /\ g.lastAt <= g.pending.at
    /\ c.ttl > 0 => g.expires[g.pending.value] <= g.pending.at

\* What an emit is to the slice.
GatePast(c, g, taken, e) ==
  /\ e.at <= g.lastAt /\ e.sample.nr <= taken
  /\ g.pending # NoSample => e.sample.nr < g.pending.nr
  /\ c.ttl > 0 => e.at + c.ttl <= g.expires[e.sample.value]

\* What GateHolds says of two emits.
Spaced(c, older, newer) ==
  /\ newer.at - older.at >= c.throttle
  /\ newer.sample.nr > older.sample.nr
  /\ newer.sample.value = older.sample.value =>
       newer.sample.at - older.at >= c.ttl

\* The slice against what it emitted, and the emits among themselves.
SliceOK(c, g, taken, emits) ==
  /\ GateHeld(c, g, taken)
  /\ \A i \in 1 .. Len(emits) : GatePast(c, g, taken, emits[i])
  /\ \A i, j \in 1 .. Len(emits) : i < j => Spaced(c, emits[i], emits[j])

\* The Msg of the timer that was set to an instant is on a line.
OnLine(line, t) ==
  \E i \in 1 .. Len(line) : line[i].nr = 0 /\ line[i].at = t

\* The timer is set to what the slice asks for; one that rang for a sample
\* still held has its Msg on the line.
TimerHolds ==
  /\ gateTimer.at = GateSubs(gate)
  /\ gate.pending # NoSample /\ gateTimer.rung => OnLine(gateLine, gateTimer.at)

\* The last sample taken is held or was emitted.
FinalHolds ==
  gateConfig.debounce > 0 /\ gateConfig.ttl = 0 /\ gateTaken > 0 =>
    IF gate.pending # NoSample THEN gate.pending.nr = gateTaken
    ELSE gateEmits # <<>> /\ gateEmits[Len(gateEmits)].sample.nr = gateTaken

\* The invariant of the throttled input.  Without a throttle the order of a
\* flush and the samples around it is what keeps the emits in order.
GateInv ==
  /\ GateTypes
  /\ GateKnown(gate, gateLine, gateTaken, gateMade, gateNow)
  /\ LineOK(gateConfig, gate, gateTaken, gateLine)
  /\ SliceOK(gateConfig, gate, gateTaken, gateEmits)
  /\ TimerHolds /\ FinalHolds

\* The slice at its start.
LEMMA GateStarts == GateInit => GateInv
<1> SUFFICES ASSUME GateInit PROVE GateInv
  OBVIOUS
<1> USE DEF GateInit
<1>1. GateTypes
  BY ThrottleAssumption DEF ThrottleAssumption, GateTypes, Gates, Never
<1>2. GateKnown(gate, gateLine, gateTaken, gateMade, gateNow)
  BY DEF GateKnown, Never
<1>3. LineOK(gateConfig, gate, gateTaken, gateLine)
  BY DEF LineOK
<1>4. SliceOK(gateConfig, gate, gateTaken, gateEmits)
  BY DEF SliceOK, GateHeld
<1>5. TimerHolds
  BY DEF TimerHolds, GateSubs
<1>6. FinalHolds
  BY DEF FinalHolds
<1> QED
  BY <1>1, <1>2, <1>3, <1>4, <1>5, <1>6 DEF GateInv

\* The types, in the form the steps below use.
LEMMA GateFacts ==
  ASSUME GateInv
  PROVE  /\ gate \in Gates /\ gate.expires \in [ThrottleValues -> Int]
         /\ gate.lastAt \in Int /\ gate.lastAt >= -1
         /\ gate.pending # NoSample => gate.pending \in Samples
         /\ gateConfig \in [throttle : Nat, debounce : Nat, ttl : Nat]
         /\ gateConfig.throttle \in Nat /\ gateConfig.debounce \in Nat
         /\ gateConfig.ttl \in Nat
         /\ gateTimer \in [at : Nat \union {Never}, rung : BOOLEAN]
         /\ gateLine \in Seq(GateMsgs) /\ gateEmits \in Seq(Emits)
         /\ gateMade \in Nat /\ gateTaken \in Nat /\ gateNow \in Nat
<1>1. GateTypes
  BY DEF GateInv
<1>2. /\ gate.expires \in [ThrottleValues -> Int]
      /\ gate.lastAt \in Int /\ gate.lastAt >= -1
      /\ gate.pending # NoSample => gate.pending \in Samples
  BY <1>1 DEF GateTypes, Gates, Never
<1> QED
  BY <1>1, <1>2 DEF GateTypes

\* The types of a Msg tell a sample from a flush.
LEMMA MsgTypes ==
  /\ \A m \in GateMsgs : /\ m.nr \in Nat /\ m.at \in Nat
                         /\ m.nr # 0 => m \in Samples
                         /\ m.nr = 0 => m \in Flushes
  /\ \A s \in Samples : /\ s # NoSample /\ s.nr \in Nat \ {0} /\ s.at \in Nat
                        /\ s.value \in ThrottleValues
  /\ NoSample.nr = 0
  /\ \A t \in Nat : /\ [NoSample EXCEPT !.at = t] \in Flushes
                    /\ [NoSample EXCEPT !.at = t].nr = 0
                    /\ [NoSample EXCEPT !.at = t].at = t
BY DEF GateMsgs, Samples, Flushes, NoSample

-----------------------------------------------------------------------------

\* Time passes, and nothing else.
LEMMA TimeKeeps == GateInv /\ GateTime => GateInv'
<1> SUFFICES ASSUME GateInv, GateTime PROVE GateInv'
  OBVIOUS
<1> USE DEF GateTime
<1>1. gateNow' \in Nat /\ gateNow' >= gateNow
  BY GateFacts
<1>2. GateTypes'
  BY <1>1 DEF GateInv, GateTypes
<1>3. GateKnown(gate, gateLine, gateTaken, gateMade, gateNow')
  <2>1. \A i \in 1 .. Len(gateLine) : gateLine[i].at \in Nat
    BY GateFacts, MsgTypes
  <2>2. gate.pending # NoSample => gate.pending.at \in Nat
    BY GateFacts, MsgTypes
  <2> QED
    BY <1>1, <2>1, <2>2, GateFacts DEF GateInv, GateKnown
<1>4. TimerHolds' /\ FinalHolds'
  BY DEF GateInv, TimerHolds, FinalHolds, GateSubs, SettlesAt
<1> QED
  BY <1>2, <1>3, <1>4 DEF GateInv

\* The host goes down: nothing is on the line, and the Sub of the slice is armed.
LEMMA DownKeeps == GateInv /\ GateHostDown => GateInv'
<1> SUFFICES ASSUME GateInv, GateHostDown PROVE GateInv'
  OBVIOUS
<1> USE DEF GateHostDown
<1>1. GateTypes'
  <2>1. GateSubs(gate) = gateTimer.at
    BY DEF GateInv, TimerHolds
  <2>2. gateTimer.at \in Nat \union {Never}
    BY GateFacts
  <2> QED
    BY <2>1, <2>2 DEF GateInv, GateTypes
<1>2. /\ GateKnown(gate, <<>>, gateTaken, gateMade, gateNow)
      /\ LineOK(gateConfig, gate, gateTaken, <<>>)
  BY DEF LineOK, GateKnown, GateInv
<1>3. FinalHolds'
  BY DEF GateInv, FinalHolds
<1>4. TimerHolds'
  BY DEF TimerHolds, GateSubs, SettlesAt
<1> QED
  BY <1>1, <1>2, <1>3, <1>4 DEF GateInv

\* A Msg that is ahead of the slice and after all others joins the line.
LEMMA LineGrows ==
  ASSUME NEW c, NEW g, NEW taken, NEW line \in Seq(GateMsgs), NEW m \in GateMsgs,
         LineOK(c, g, taken, line), GateAhead(c, g, taken, m),
         AfterAll(c, line, m)
  PROVE  LineOK(c, g, taken, Append(line, m))
<1> DEFINE grown == Append(line, m)
<1>1. /\ grown \in Seq(GateMsgs) /\ Len(line) \in Nat
      /\ Len(grown) = Len(line) + 1 /\ grown[Len(line) + 1] = m
      /\ \A i \in 1 .. Len(line) : grown[i] = line[i]
  OBVIOUS
<1> HIDE DEF grown
<1>2. \A i \in 1 .. Len(grown) : i \in 1 .. Len(line) \/ i = Len(line) + 1
  BY <1>1
<1>3. \A i \in 1 .. Len(grown) : GateAhead(c, g, taken, grown[i])
  BY <1>1, <1>2 DEF LineOK
<1>4. \A i, j \in 1 .. Len(grown) : i < j => GateBefore(c, grown[i], grown[j])
  BY <1>1, <1>2 DEF LineOK, AfterAll
<1> QED
  BY <1>1, <1>3, <1>4 DEF LineOK, grown

\* A sample arrives: it is the newest of all.
LEMMA ArrivesKeeps == GateInv /\ SampleArrives => GateInv'
<1> SUFFICES ASSUME GateInv, SampleArrives PROVE GateInv'
  OBVIOUS
<1>1. PICK v \in ThrottleValues :
        gateLine' = Append(gateLine, [nr |-> gateMade', value |-> v, at |-> gateNow])
  BY DEF SampleArrives
<1> DEFINE m == [nr |-> gateMade', value |-> v, at |-> gateNow]
<1>2. /\ UNCHANGED <<gate, gateConfig, gateTimer, gateEmits, gateTaken, gateNow>>
      /\ gateMade' = gateMade + 1
  BY DEF SampleArrives
<1>3. m \in Samples /\ m \in GateMsgs /\ m.nr = gateMade + 1 /\ m.at = gateNow
  BY <1>2, GateFacts DEF Samples, GateMsgs
<1>4. gateLine' = Append(gateLine, m)
  BY <1>1
<1> HIDE DEF m
<1>5. \A i \in 1 .. Len(gateLine) :
        /\ gateLine[i].nr \in Nat /\ gateLine[i].at \in Nat
        /\ gateLine[i].at <= gateNow /\ gateLine[i].nr <= gateMade
  BY GateFacts, MsgTypes DEF GateInv, GateKnown
<1>6. /\ gateTaken <= gateMade /\ gate.lastAt <= gateNow
      /\ gate.pending # NoSample => gate.pending.at <= gateNow
  BY DEF GateInv, GateKnown
<1>7. GateAhead(gateConfig, gate, gateTaken, m)
  BY <1>3, <1>6, GateFacts DEF GateAhead
<1>8. AfterAll(gateConfig, gateLine, m)
  BY <1>3, <1>5, GateFacts DEF GateBefore, AfterAll
<1>9. /\ gateLine' \in Seq(GateMsgs) /\ LineOK(gateConfig, gate, gateTaken, gateLine')
      /\ Len(gateLine') = Len(gateLine) + 1 /\ gateLine'[Len(gateLine) + 1] = m
      /\ \A i \in 1 .. Len(gateLine) : gateLine'[i] = gateLine[i]
  <2>1. gateLine \in Seq(GateMsgs) /\ LineOK(gateConfig, gate, gateTaken, gateLine)
    BY GateFacts DEF GateInv
  <2>2. LineOK(gateConfig, gate, gateTaken, Append(gateLine, m))
    BY <1>3, <1>4, <1>7, <1>8, <2>1, LineGrows
  <2> QED
    BY <1>3, <1>4, <1>7, <1>8, <2>1, <2>2
<1>10. \A i \in 1 .. Len(gateLine') : i \in 1 .. Len(gateLine) \/ i = Len(gateLine) + 1
  BY <1>9, GateFacts
<1>11. GateKnown(gate, gateLine', gateTaken, gateMade', gateNow)
  <2>1. gateMade \in Nat /\ gateTaken \in Nat /\ gateTaken <= gateMade'
    BY <1>2, <1>6, GateFacts
  <2>2. ASSUME NEW i \in 1 .. Len(gateLine')
        PROVE  gateLine'[i].at <= gateNow /\ gateLine'[i].nr <= gateMade'
    <3>1. CASE i \in 1 .. Len(gateLine)
      BY <1>2, <1>5, <1>9, <2>1, <3>1
    <3>2. CASE i = Len(gateLine) + 1
      BY <1>2, <1>3, <1>9, <2>1, <3>2, GateFacts
    <3> QED
      BY <1>10, <3>1, <3>2
  <2> QED
    BY <1>6, <2>1, <2>2 DEF GateKnown
<1>12. GateTypes'
  BY <1>2, <1>9, GateFacts DEF GateTypes
<1>13. TimerHolds'
  <2>1. GateSubs(gate)' = GateSubs(gate)
    BY <1>2 DEF GateSubs, SettlesAt
  <2>2. 1 .. Len(gateLine) \subseteq 1 .. Len(gateLine')
    BY <1>9, GateFacts
  <2> QED
    BY <1>2, <1>9, <2>1, <2>2 DEF GateInv, TimerHolds, OnLine
<1>14. FinalHolds'
  BY <1>2 DEF GateInv, FinalHolds
<1> QED
  BY <1>2, <1>9, <1>11, <1>12, <1>13, <1>14 DEF GateInv

\* The timer rings: its Msg joins the line.
LEMMA RingsKeeps == GateInv /\ GateRings => GateInv'
<1> SUFFICES ASSUME GateInv, GateRings PROVE GateInv'
  OBVIOUS
<1> DEFINE t == gateTimer.at
           m == [NoSample EXCEPT !.at = t]
<1>1. /\ UNCHANGED <<gate, gateConfig, gateEmits, gateMade, gateTaken, gateNow>>
      /\ gateTimer' = [gateTimer EXCEPT !.rung = TRUE]
      /\ gateLine' = Append(gateLine, m)
      /\ t \in Nat /\ t <= gateNow /\ t = GateSubs(gate)
  BY GateFacts DEF GateRings, GateInv, TimerHolds
<1>2. m \in Flushes /\ m \in GateMsgs /\ m.nr = 0 /\ m.at = t
  BY <1>1, MsgTypes DEF GateMsgs
<1>3. /\ gateConfig.debounce > 0 /\ gate.pending # NoSample
      /\ gate.pending \in Samples /\ gate.pending.at \in Nat
      /\ gateConfig.throttle = 0 => t = gate.pending.at + gateConfig.debounce
  BY <1>1, GateFacts, MsgTypes DEF GateSubs, SettlesAt, Never
<1> HIDE DEF m, t
<1>4. \A i \in 1 .. Len(gateLine) :
        /\ gateLine[i].nr \in Nat /\ gateLine[i].at \in Nat
        /\ GateAhead(gateConfig, gate, gateTaken, gateLine[i])
  BY GateFacts, MsgTypes DEF GateInv, LineOK
<1>5. gate.lastAt <= gate.pending.at
  BY <1>3 DEF GateInv, SliceOK, GateHeld
<1>6. GateAhead(gateConfig, gate, gateTaken, m)
  BY <1>1, <1>2, <1>3, <1>5, GateFacts DEF GateAhead
<1>7. AfterAll(gateConfig, gateLine, m)
  <2> SUFFICES ASSUME NEW i \in 1 .. Len(gateLine)
               PROVE  GateBefore(gateConfig, gateLine[i], m)
    BY DEF AfterAll
  <2> DEFINE a == gateLine[i]
  <2>1. a.nr \in Nat /\ a.at \in Nat /\ GateAhead(gateConfig, gate, gateTaken, a)
    BY <1>4
  <2> HIDE DEF a
  <2>2. gateConfig.throttle \in Nat /\ gateConfig.debounce \in Nat
    BY GateFacts
  <2>3. a.nr = 0 => GateBefore(gateConfig, a, m)
    BY <1>2, <1>3, <2>1, <2>2 DEF GateBefore, GateAhead
  <2>4. a.nr # 0 => GateBefore(gateConfig, a, m)
    BY <1>2, <1>3, <2>1, <2>2 DEF GateBefore, GateAhead
  <2> QED
    BY <2>3, <2>4 DEF a
<1>8. /\ gateLine' \in Seq(GateMsgs) /\ LineOK(gateConfig, gate, gateTaken, gateLine')
      /\ Len(gateLine') = Len(gateLine) + 1 /\ gateLine'[Len(gateLine) + 1] = m
      /\ \A i \in 1 .. Len(gateLine) : gateLine'[i] = gateLine[i]
  <2>1. gateLine \in Seq(GateMsgs) /\ LineOK(gateConfig, gate, gateTaken, gateLine)
    BY GateFacts DEF GateInv
  <2>2. LineOK(gateConfig, gate, gateTaken, Append(gateLine, m))
    BY <1>1, <1>2, <1>6, <1>7, <2>1, LineGrows
  <2> QED
    BY <1>1, <1>2, <1>6, <1>7, <2>1, <2>2
<1>9. \A i \in 1 .. Len(gateLine') : i \in 1 .. Len(gateLine) \/ i = Len(gateLine) + 1
  BY <1>8, GateFacts
<1>10. GateKnown(gate, gateLine', gateTaken, gateMade, gateNow)
  BY <1>1, <1>2, <1>4, <1>8, <1>9, GateFacts DEF GateInv, GateKnown
<1>11. /\ gateTimer' \in [at : Nat \union {Never}, rung : BOOLEAN]
       /\ gateTimer'.at = t
  BY <1>1, GateFacts DEF t
<1>12. GateTypes'
  BY <1>1, <1>8, <1>11, GateFacts DEF GateTypes
<1>13. TimerHolds'
  <2>1. GateSubs(gate)' = t
    BY <1>1 DEF GateSubs, SettlesAt
  <2>2. Len(gateLine) + 1 \in 1 .. Len(gateLine')
    BY <1>8, GateFacts
  <2> QED
    BY <1>2, <1>8, <1>11, <2>1, <2>2 DEF TimerHolds, OnLine
<1>14. FinalHolds'
  BY <1>1 DEF GateInv, FinalHolds
<1> QED
  BY <1>1, <1>8, <1>10, <1>12, <1>13, <1>14 DEF GateInv

-----------------------------------------------------------------------------

\* A line is ahead of the slice.
AheadAll(c, g, taken, line) ==
  \A i \in 1 .. Len(line) : GateAhead(c, g, taken, line[i])
\* A Msg comes before all of a line.
BeforeAll(c, m, line) == \A i \in 1 .. Len(line) : GateBefore(c, m, line[i])

\* The first Msg leaves the line; it comes before all that stay.
LEMMA LineShrinks ==
  ASSUME NEW c, NEW g, NEW taken, NEW line \in Seq(GateMsgs), line # <<>>,
         LineOK(c, g, taken, line)
  PROVE  /\ Head(line) \in GateMsgs /\ Tail(line) \in Seq(GateMsgs)
         /\ GateAhead(c, g, taken, Head(line))
         /\ BeforeAll(c, Head(line), Tail(line))
         /\ LineOK(c, g, taken, Tail(line))
         /\ AheadAll(c, g, taken, Tail(line))
<1> DEFINE tail == Tail(line)
<1>1. /\ tail \in Seq(GateMsgs) /\ Len(tail) = Len(line) - 1 /\ Len(line) \in Nat \ {0}
      /\ \A i \in 1 .. Len(tail) : tail[i] = line[i + 1]
      /\ Head(line) = line[1] /\ Head(line) \in GateMsgs
  OBVIOUS
<1> HIDE DEF tail
<1>2. /\ 1 \in 1 .. Len(line)
      /\ \A i \in 1 .. Len(tail) : i + 1 \in 1 .. Len(line) /\ 1 < i + 1
  BY <1>1
<1>3. GateAhead(c, g, taken, Head(line))
  BY <1>1, <1>2 DEF LineOK
<1>4. BeforeAll(c, Head(line), tail)
  BY <1>1, <1>2 DEF LineOK, BeforeAll
<1>5. AheadAll(c, g, taken, tail)
  BY <1>1, <1>2 DEF LineOK, AheadAll
<1>6. \A i, j \in 1 .. Len(tail) : i < j => GateBefore(c, tail[i], tail[j])
  <2> SUFFICES ASSUME NEW i \in 1 .. Len(tail), NEW j \in 1 .. Len(tail), i < j
               PROVE  GateBefore(c, tail[i], tail[j])
    OBVIOUS
  <2>1. i + 1 \in 1 .. Len(line) /\ j + 1 \in 1 .. Len(line) /\ i + 1 < j + 1
    BY <1>2
  <2> QED
    BY <1>1, <2>1 DEF LineOK
<1>7. LineOK(c, g, taken, tail)
  BY <1>5, <1>6 DEF LineOK, AheadAll
<1> QED
  BY <1>1, <1>3, <1>4, <1>5, <1>7 DEF tail

\* What the Sub of a slice asks for.
LEMMA SubsTypes ==
  ASSUME GateInv, NEW g \in Gates
  PROVE  /\ GateSubs(g) \in Nat \union {Never}
         /\ g.pending # NoSample /\ gateConfig.debounce > 0 => GateSubs(g) \in Nat
<1>1. /\ g.lastAt # Never => g.lastAt \in Nat
      /\ g.pending # NoSample => g.pending.at \in Nat
  BY MsgTypes DEF Gates, Never
<1>2. gateConfig.throttle \in Nat /\ gateConfig.debounce \in Nat
  BY GateFacts
<1>3. g.pending # NoSample => SettlesAt(g) \in Nat
  BY <1>1, <1>2 DEF SettlesAt
<1> QED
  BY <1>2, <1>3 DEF GateSubs

\* What a fold of the first Msg must establish of the slice it leaves.
LEMMA GateFoldLands ==
  ASSUME GateInv, FoldGateMsg, NEW g2 \in Gates, NEW taken2 \in Nat,
         gate' = g2, gateTaken' = taken2,
         gateEmits' \in Seq(Emits),
         gateTimer' \in [at : Nat \union {Never}, rung : BOOLEAN],
         AheadAll(gateConfig, g2, taken2, Tail(gateLine)),
         SliceOK(gateConfig, g2, taken2, gateEmits'),
         taken2 <= gateMade, g2.lastAt <= gateNow,
         g2.pending # NoSample => g2.pending.at <= gateNow,
         TimerHolds', FinalHolds'
  PROVE  GateInv'
<1>1. /\ UNCHANGED <<gateConfig, gateMade, gateNow>> /\ gateLine # <<>>
      /\ gateLine' = Tail(gateLine)
  BY DEF FoldGateMsg
<1> DEFINE tail == Tail(gateLine)
<1>2. /\ tail \in Seq(GateMsgs) /\ LineOK(gateConfig, gate, gateTaken, tail)
      /\ Len(tail) = Len(gateLine) - 1 /\ Len(gateLine) \in Nat
      /\ \A i \in 1 .. Len(tail) : tail[i] = gateLine[i + 1]
  <2>1. gateLine \in Seq(GateMsgs) /\ LineOK(gateConfig, gate, gateTaken, gateLine)
    BY GateFacts DEF GateInv
  <2> QED
    BY <1>1, <2>1, LineShrinks
<1> HIDE DEF tail
<1>3. LineOK(gateConfig, g2, taken2, tail)
  BY <1>2 DEF LineOK, AheadAll, tail
<1>4. GateKnown(g2, tail, taken2, gateMade, gateNow)
  <2>1. \A i \in 1 .. Len(tail) : i + 1 \in 1 .. Len(gateLine)
    BY <1>2
  <2> QED
    BY <1>2, <2>1 DEF GateInv, GateKnown
<1>5. GateTypes'
  BY <1>1, <1>2, GateFacts DEF GateTypes, tail
<1> QED
  BY <1>1, <1>3, <1>4, <1>5 DEF GateInv, tail

\* A Msg of the line that is not the first is still on it.
LEMMA StillOnLine ==
  ASSUME NEW line \in Seq(GateMsgs), line # <<>>, NEW t, OnLine(line, t),
         ~(Head(line).nr = 0 /\ Head(line).at = t)
  PROVE  OnLine(Tail(line), t)
<1>1. PICK i \in 1 .. Len(line) : line[i].nr = 0 /\ line[i].at = t
  BY DEF OnLine
<1>2. i # 1
  BY <1>1
<1>3. i - 1 \in 1 .. Len(Tail(line)) /\ Tail(line)[i - 1] = line[i]
  BY <1>2
<1> QED
  BY <1>1, <1>3 DEF OnLine

\* The slice emits a sample that is free to go.
LEMMA CommitOK ==
  ASSUME GateInv, NEW taken2 \in Nat, gateTaken <= taken2,
         NEW sample \in Samples, NEW at \in Nat, gate.lastAt <= at,
         ~RateBlockedAt(gate, at), sample.nr <= taken2, gate.lastAt <= sample.at,
         \A i \in 1 .. Len(gateEmits) : gateEmits[i].sample.nr < sample.nr,
         gateConfig.ttl > 0 => gate.expires[sample.value] <= sample.at,
         NEW g2, g2 = Committed(gate, sample, at)
  PROVE  /\ g2 \in Gates /\ g2.lastAt = at /\ g2.pending = NoSample
         /\ Append(gateEmits, [sample |-> sample, at |-> at]) \in Seq(Emits)
         /\ SliceOK(gateConfig, g2, taken2,
                    Append(gateEmits, [sample |-> sample, at |-> at]))
<1> DEFINE e == [sample |-> sample, at |-> at]
           emits == Append(gateEmits, e)
           c == gateConfig
<1>1. /\ gate.expires \in [ThrottleValues -> Int] /\ sample.value \in ThrottleValues
      /\ c.ttl \in Nat /\ c.throttle \in Nat /\ gate.lastAt \in Int
      /\ gateTaken \in Nat /\ sample.at \in Nat /\ sample.nr \in Nat
  BY GateFacts, MsgTypes
<1>2. /\ g2 \in Gates /\ g2.lastAt = at /\ g2.pending = NoSample
      /\ c.ttl > 0 => g2.expires = [gate.expires EXCEPT ![sample.value] = at + c.ttl]
  BY <1>1 DEF Committed, Gates
<1>3. e \in Emits /\ e.sample = sample /\ e.at = at
  BY DEF Emits
<1> HIDE DEF e
<1>4. /\ emits \in Seq(Emits) /\ Len(gateEmits) \in Nat
      /\ Len(emits) = Len(gateEmits) + 1 /\ emits[Len(gateEmits) + 1] = e
      /\ \A i \in 1 .. Len(gateEmits) : emits[i] = gateEmits[i]
      /\ \A i \in 1 .. Len(gateEmits) : gateEmits[i] \in Emits
  BY <1>3, GateFacts
<1>5. \A i \in 1 .. Len(emits) : i \in 1 .. Len(gateEmits) \/ i = Len(gateEmits) + 1
  BY <1>4
<1> HIDE DEF emits
<1>6. \A i \in 1 .. Len(gateEmits) :
        /\ GatePast(c, gate, gateTaken, gateEmits[i])
        /\ gateEmits[i].at \in Nat /\ gateEmits[i].sample \in Samples
        /\ gateEmits[i].sample.nr \in Nat /\ gateEmits[i].sample.value \in ThrottleValues
  BY <1>4, MsgTypes DEF GateInv, SliceOK, Emits
<1>7. \A i \in 1 .. Len(gateEmits) : GatePast(c, g2, taken2, gateEmits[i])
  <2> SUFFICES ASSUME NEW i \in 1 .. Len(gateEmits)
               PROVE  GatePast(c, g2, taken2, gateEmits[i])
    OBVIOUS
  <2> DEFINE o == gateEmits[i]
  <2>1. /\ GatePast(c, gate, gateTaken, o) /\ o.at \in Nat
        /\ o.sample.nr \in Nat /\ o.sample.value \in ThrottleValues
    BY <1>6
  <2> HIDE DEF o
  <2>2. o.at <= g2.lastAt /\ o.sample.nr <= taken2
    BY <1>1, <1>2, <2>1 DEF GatePast
  <2>3. c.ttl > 0 => o.at + c.ttl <= g2.expires[o.sample.value]
    <3> SUFFICES ASSUME c.ttl > 0 PROVE o.at + c.ttl <= g2.expires[o.sample.value]
      OBVIOUS
    <3> DEFINE v == o.sample.value
    <3>1. o.at + c.ttl <= gate.expires[v] /\ o.at <= gate.lastAt
      BY <2>1 DEF GatePast
    <3>2. g2.expires[v] = IF v = sample.value THEN at + c.ttl ELSE gate.expires[v]
      BY <1>1, <1>2, <2>1
    <3>3. o.at + c.ttl <= at + c.ttl
      BY <1>1, <2>1, <3>1
    <3> HIDE DEF v
    <3>4. o.at + c.ttl <= g2.expires[v]
      BY <3>1, <3>2, <3>3
    <3> QED
      BY <3>4 DEF v
  <2> QED
    BY <1>2, <2>2, <2>3 DEF GatePast, o
<1>8. GatePast(c, g2, taken2, e)
  BY <1>1, <1>2, <1>3 DEF GatePast
<1>9. \A i \in 1 .. Len(gateEmits) : Spaced(c, gateEmits[i], e)
  <2> SUFFICES ASSUME NEW i \in 1 .. Len(gateEmits)
               PROVE  Spaced(c, gateEmits[i], e)
    OBVIOUS
  <2> DEFINE o == gateEmits[i]
  <2>1. /\ GatePast(c, gate, gateTaken, o) /\ o.at \in Nat /\ o.sample.nr < sample.nr
        /\ o.sample.nr \in Nat /\ o.sample.value \in ThrottleValues
    BY <1>6
  <2> HIDE DEF o
  <2>2. o.at <= gate.lastAt /\ gate.lastAt # Never
    BY <1>1, <2>1 DEF GatePast, Never
  <2>3. at - o.at >= c.throttle
    BY <1>1, <2>1, <2>2 DEF RateBlockedAt
  <2>4. o.sample.value = sample.value => sample.at - o.at >= c.ttl
    BY <1>1, <2>1, <2>2 DEF GatePast
  <2> QED
    BY <1>1, <1>3, <2>1, <2>3, <2>4 DEF Spaced, o
<1>10. \A i \in 1 .. Len(emits) : GatePast(c, g2, taken2, emits[i])
  BY <1>4, <1>5, <1>7, <1>8
<1>11. \A i, j \in 1 .. Len(emits) : i < j => Spaced(c, emits[i], emits[j])
  BY <1>4, <1>5, <1>9 DEF GateInv, SliceOK
<1>12. GateHeld(c, g2, taken2)
  BY <1>2 DEF GateHeld
<1> QED
  BY <1>2, <1>4, <1>10, <1>11, <1>12 DEF SliceOK, emits, e

-----------------------------------------------------------------------------

\* What the first Msg of the line is to the slice, and to those behind it.
LEMMA FirstGateMsg ==
  ASSUME GateInv, FoldGateMsg, NEW m, m = Head(gateLine)
  PROVE  /\ m \in GateMsgs /\ m.nr \in Nat /\ m.at \in Nat
         /\ m.at <= gateNow /\ m.nr <= gateMade
         /\ GateAhead(gateConfig, gate, gateTaken, m)
         /\ Tail(gateLine) \in Seq(GateMsgs)
         /\ BeforeAll(gateConfig, m, Tail(gateLine))
         /\ AheadAll(gateConfig, gate, gateTaken, Tail(gateLine))
         /\ \A i \in 1 .. Len(Tail(gateLine)) :
              Tail(gateLine)[i].nr \in Nat /\ Tail(gateLine)[i].at \in Nat
<1>1. /\ gateLine \in Seq(GateMsgs) /\ gateLine # <<>>
      /\ LineOK(gateConfig, gate, gateTaken, gateLine)
  BY GateFacts DEF FoldGateMsg, GateInv
<1>2. /\ m \in GateMsgs /\ Tail(gateLine) \in Seq(GateMsgs)
      /\ GateAhead(gateConfig, gate, gateTaken, m)
      /\ BeforeAll(gateConfig, m, Tail(gateLine))
      /\ AheadAll(gateConfig, gate, gateTaken, Tail(gateLine))
  BY <1>1, LineShrinks
<1>3. m.nr \in Nat /\ m.at \in Nat
  BY <1>2, MsgTypes
<1>4. m.at <= gateNow /\ m.nr <= gateMade
  <2>1. m = gateLine[1] /\ 1 \in 1 .. Len(gateLine)
    BY <1>1
  <2> QED
    BY <2>1 DEF GateInv, GateKnown
<1>5. \A i \in 1 .. Len(Tail(gateLine)) :
        Tail(gateLine)[i].nr \in Nat /\ Tail(gateLine)[i].at \in Nat
  BY <1>2, MsgTypes
<1> QED
  BY <1>2, <1>3, <1>4, <1>5

\* A Msg that leaves the slice alone: a flush that finds nothing to emit, or may
\* not yet; a sample that is dropped, which is the last one folded all the same.
LEMMA IdleFoldKeeps ==
  ASSUME GateInv, FoldGateMsg, UNCHANGED <<gate, gateTimer, gateEmits>>,
         \/ /\ Head(gateLine).nr = 0 /\ gateTaken' = gateTaken
            /\ gate.pending = NoSample \/ RateBlockedAt(gate, Head(gateLine).at)
         \/ /\ Head(gateLine).nr # 0 /\ gateTaken' = Head(gateLine).nr
            /\ gateConfig.ttl > 0 \/ gateConfig.debounce = 0
  PROVE  GateInv'
<1> DEFINE m == Head(gateLine)
           tail == Tail(gateLine)
           c == gateConfig
           t == gateTaken'
<1>1. /\ m \in GateMsgs /\ m.nr \in Nat /\ m.at \in Nat
      /\ m.nr <= gateMade /\ GateAhead(c, gate, gateTaken, m)
      /\ tail \in Seq(GateMsgs) /\ BeforeAll(c, m, tail)
      /\ AheadAll(c, gate, gateTaken, tail)
      /\ \A i \in 1 .. Len(tail) : tail[i].nr \in Nat /\ tail[i].at \in Nat
  BY FirstGateMsg
<1>2. (m.nr = 0 /\ t = gateTaken) \/ (m.nr # 0 /\ t = m.nr)
  OBVIOUS
<1>3. t \in Nat /\ gateTaken \in Nat /\ gateTaken <= t /\ t <= gateMade
  BY <1>1, <1>2, GateFacts DEF GateAhead, GateInv, GateKnown
<1>4. AheadAll(c, gate, t, tail)
  <2> HIDE DEF m, tail, t
  <2> QED
    BY <1>1, <1>2, <1>3 DEF AheadAll, GateAhead, BeforeAll, GateBefore
<1>5. SliceOK(c, gate, t, gateEmits)
  <2>1. /\ GateHeld(c, gate, gateTaken)
        /\ \A i \in 1 .. Len(gateEmits) : GatePast(c, gate, gateTaken, gateEmits[i])
    BY DEF GateInv, SliceOK
  <2>2. GateHeld(c, gate, t)
    <3>1. gate.pending # NoSample => gate.pending.nr \in Nat
      BY GateFacts, MsgTypes
    <3> HIDE DEF t
    <3> QED
      BY <1>3, <2>1, <3>1 DEF GateHeld
  <2>3. \A i \in 1 .. Len(gateEmits) : GatePast(c, gate, t, gateEmits[i])
    <3>1. \A i \in 1 .. Len(gateEmits) : gateEmits[i].sample.nr \in Nat
      <4>1. \A i \in 1 .. Len(gateEmits) : gateEmits[i] \in Emits
        BY GateFacts
      <4> QED
        BY <4>1, MsgTypes DEF Emits
    <3> HIDE DEF t
    <3> QED
      BY <1>3, <2>1, <3>1 DEF GatePast
  <2> QED
    BY <2>2, <2>3 DEF GateInv, SliceOK
<1>6. UNCHANGED gateConfig /\ gateLine' = tail /\ gateLine # <<>>
  BY DEF FoldGateMsg
<1>7. TimerHolds'
  <2>1. GateSubs(gate)' = GateSubs(gate)
    BY <1>6 DEF GateSubs, SettlesAt
  <2> SUFFICES ASSUME gate.pending # NoSample, gateTimer.rung
               PROVE  OnLine(tail, gateTimer.at)
    BY <1>6, <2>1 DEF GateInv, TimerHolds
  <2>2. OnLine(gateLine, gateTimer.at)
    BY DEF GateInv, TimerHolds
  <2>3. ~(m.nr = 0 /\ m.at = gateTimer.at)
    <3> SUFFICES ASSUME m.nr = 0, m.at = gateTimer.at PROVE FALSE
      OBVIOUS
    <3>1. RateBlockedAt(gate, m.at)
      OBVIOUS
    <3>2. m.at = SettlesAt(gate)
      <4>1. gateConfig.debounce > 0
        BY DEF GateInv, SliceOK, GateHeld
      <4> QED
        BY <4>1 DEF GateInv, TimerHolds, GateSubs
    <3>3. gate.pending.at \in Nat
      BY GateFacts, MsgTypes
    <3>4. PICK last \in Int : last = gate.lastAt
      BY GateFacts
    <3>5. PICK cap \in Nat : cap = gateConfig.throttle
      BY GateFacts
    <3>6. PICK wait \in Nat : wait = gateConfig.debounce
      BY GateFacts
    <3>7. PICK p \in Nat : p = gate.pending.at
      BY <3>3
    <3>8. cap > 0 /\ last # Never /\ m.at - last < cap
      BY <3>1, <3>4, <3>5 DEF RateBlockedAt
    <3>9. m.at = IF last + cap > p + wait THEN last + cap ELSE p + wait
      BY <3>2, <3>4, <3>5, <3>6, <3>7, <3>8 DEF SettlesAt
    <3>10. m.at >= last + cap
      BY <3>9
    <3> QED
      BY <1>1, <3>8, <3>10
  <2>4. gateLine \in Seq(GateMsgs)
    BY GateFacts
  <2> QED
    BY <1>6, <2>2, <2>3, <2>4, StillOnLine
<1>8. FinalHolds'
  BY <1>6, GateFacts DEF GateInv, FinalHolds
<1>9. /\ gateEmits' \in Seq(Emits)
      /\ gateTimer' \in [at : Nat \union {Never}, rung : BOOLEAN]
      /\ gate \in Gates /\ gate' = gate
      /\ SliceOK(c, gate, t, gateEmits')
      /\ gate.lastAt <= gateNow
      /\ gate.pending # NoSample => gate.pending.at <= gateNow
  BY <1>5, GateFacts DEF GateInv, GateKnown
<1> QED
  BY <1>3, <1>4, <1>7, <1>8, <1>9, GateFoldLands

\* A sample is held in the place of the one before it.
LEMMA HoldFoldKeeps ==
  ASSUME GateInv, FoldGateMsg, Head(gateLine).nr # 0,
         gateTaken' = Head(gateLine).nr, UNCHANGED gateEmits,
         gateConfig.debounce > 0, ~IsCacheHit(gate, Head(gateLine)),
         GateInstalls([gate EXCEPT !.pending = Head(gateLine)])
  PROVE  GateInv'
<1> DEFINE m == Head(gateLine)
           tail == Tail(gateLine)
           c == gateConfig
           g2 == [gate EXCEPT !.pending = m]
<1>1. /\ m \in GateMsgs /\ m.nr \in Nat /\ m.at \in Nat /\ m.at <= gateNow
      /\ m.nr <= gateMade /\ GateAhead(c, gate, gateTaken, m)
      /\ tail \in Seq(GateMsgs) /\ BeforeAll(c, m, tail)
      /\ AheadAll(c, gate, gateTaken, tail)
      /\ \A i \in 1 .. Len(tail) : tail[i].nr \in Nat /\ tail[i].at \in Nat
  BY FirstGateMsg
<1>2. m \in Samples /\ m # NoSample /\ m.nr # 0 /\ m.value \in ThrottleValues
  BY <1>1, MsgTypes
<1>3. /\ g2 \in Gates /\ g2.lastAt = gate.lastAt /\ g2.pending = m
      /\ g2.expires = gate.expires
  BY <1>2, GateFacts DEF Gates
<1>4. /\ gate' = g2 /\ gateTimer'.at = GateSubs(g2)
      /\ gateTimer' = IF gateTimer.at = GateSubs(g2) THEN gateTimer
                      ELSE [at |-> GateSubs(g2), rung |-> FALSE]
      /\ UNCHANGED gateConfig /\ gateLine' = tail /\ gateLine # <<>>
  BY DEF GateInstalls, FoldGateMsg
<1> HIDE DEF m, tail, g2
<1>5. gate.lastAt <= m.at /\ gateTaken < m.nr /\ gateTaken \in Nat
  BY <1>1, <1>2, GateFacts DEF GateAhead
<1>6. AheadAll(c, g2, m.nr, tail)
  BY <1>1, <1>2, <1>3, GateFacts DEF AheadAll, GateAhead, BeforeAll, GateBefore
<1>7. SliceOK(c, g2, m.nr, gateEmits)
  <2>1. /\ \A i \in 1 .. Len(gateEmits) : GatePast(c, gate, gateTaken, gateEmits[i])
        /\ \A i \in 1 .. Len(gateEmits) : gateEmits[i] \in Emits
    BY GateFacts DEF GateInv, SliceOK
  <2>2. \A i \in 1 .. Len(gateEmits) : gateEmits[i].sample.nr \in Nat
    BY <2>1, MsgTypes DEF Emits
  <2>3. \A i \in 1 .. Len(gateEmits) : GatePast(c, g2, m.nr, gateEmits[i])
    BY <1>1, <1>3, <1>5, <2>1, <2>2 DEF GatePast
  <2>4. GateHeld(c, g2, m.nr)
    <3>1. c.ttl > 0 => gate.expires[m.value] <= m.at
      BY <1>1, <1>2, GateFacts DEF IsCacheHit, m
    <3> QED
      BY <1>1, <1>3, <1>5, <3>1 DEF GateHeld
  <2> QED
    BY <2>3, <2>4 DEF GateInv, SliceOK
<1>8. gateTimer' \in [at : Nat \union {Never}, rung : BOOLEAN]
  <2>1. GateSubs(g2) \in Nat \union {Never}
    BY <1>3, SubsTypes
  <2> QED
    BY <1>4, <2>1, GateFacts
<1>9. TimerHolds'
  <2>1. GateSubs(gate)' = GateSubs(g2)
    BY <1>4 DEF GateSubs, SettlesAt
  <2>2. ASSUME gateTimer'.rung PROVE OnLine(tail, gateTimer'.at)
    <3>1. gateTimer' = gateTimer /\ gateTimer.at = GateSubs(g2) /\ gateTimer.rung
      BY <1>4, <2>2
    <3>2. GateSubs(g2) \in Nat
      BY <1>2, <1>3, SubsTypes
    <3>3. GateSubs(gate) # Never
      BY <3>1, <3>2 DEF GateInv, TimerHolds, Never
    <3>4. gate.pending # NoSample
      BY <3>3 DEF GateSubs
    <3>5. OnLine(gateLine, gateTimer.at)
      BY <3>1, <3>4 DEF GateInv, TimerHolds
    <3>6. gateLine \in Seq(GateMsgs) /\ ~(Head(gateLine).nr = 0 /\ Head(gateLine).at = gateTimer.at)
      BY GateFacts
    <3> QED
      BY <1>4, <3>1, <3>5, <3>6, StillOnLine DEF tail
  <2> QED
    BY <1>4, <2>1, <2>2 DEF TimerHolds
<1>10. FinalHolds'
  <2>1. gate'.pending = m /\ gateTaken' = m.nr
    BY <1>3, <1>4 DEF m
  <2> QED
    BY <1>2, <2>1 DEF FinalHolds
<1>11. gateEmits' \in Seq(Emits) /\ gateEmits' = gateEmits
  BY GateFacts
<1>12. /\ gate.lastAt <= gateNow
       /\ gateTaken' = m.nr
  BY DEF GateInv, GateKnown, m
<1> QED
  BY <1>1, <1>3, <1>4, <1>6, <1>7, <1>8, <1>9, <1>10, <1>11, <1>12, GateFoldLands
     DEF tail

\* The slice emits: a sample that comes, or the one that was held.
LEMMA EmitFoldKeeps ==
  ASSUME GateInv, FoldGateMsg, NEW sample \in Samples, NEW at, at = Head(gateLine).at,
         CommitEmit(sample, at), ~RateBlockedAt(gate, at),
         \/ /\ Head(gateLine).nr = 0 /\ gateTaken' = gateTaken
            /\ gate.pending # NoSample /\ sample = gate.pending
         \/ /\ Head(gateLine).nr # 0 /\ gateTaken' = Head(gateLine).nr
            /\ sample = Head(gateLine) /\ ~IsCacheHit(gate, sample)
            /\ gateConfig.debounce = 0
  PROVE  GateInv'
<1> DEFINE m == Head(gateLine)
           tail == Tail(gateLine)
           c == gateConfig
           t == gateTaken'
           g2 == Committed(gate, sample, at)
           emits == Append(gateEmits, [sample |-> sample, at |-> at])
<1>1. /\ m \in GateMsgs /\ m.nr \in Nat /\ m.at \in Nat /\ m.at <= gateNow
      /\ m.nr <= gateMade /\ GateAhead(c, gate, gateTaken, m)
      /\ tail \in Seq(GateMsgs) /\ BeforeAll(c, m, tail)
      /\ AheadAll(c, gate, gateTaken, tail)
      /\ \A i \in 1 .. Len(tail) : tail[i].nr \in Nat /\ tail[i].at \in Nat
  BY FirstGateMsg
<1>2. /\ gate' = g2 /\ gateTimer'.at = GateSubs(g2) /\ gateEmits' = emits
      /\ gateTimer' = IF gateTimer.at = GateSubs(g2) THEN gateTimer
                      ELSE [at |-> GateSubs(g2), rung |-> FALSE]
      /\ UNCHANGED gateConfig /\ gateLine' = tail /\ gateLine # <<>>
  BY DEF GateInstalls, FoldGateMsg, CommitEmit
<1>3. \/ m.nr = 0 /\ t = gateTaken /\ gate.pending # NoSample /\ sample = gate.pending
      \/ m.nr # 0 /\ t = m.nr /\ sample = m /\ gateConfig.debounce = 0
  OBVIOUS
<1>4. at = m.at
  OBVIOUS
<1> HIDE DEF m, tail, t, g2, emits
<1>5. /\ sample.nr \in Nat /\ sample.at \in Nat /\ sample.value \in ThrottleValues
      /\ gateTaken \in Nat /\ gate.lastAt \in Int
      /\ GateHeld(c, gate, gateTaken) /\ gateTaken <= gateMade
  BY GateFacts, MsgTypes DEF GateInv, SliceOK, GateKnown
<1>6. t \in Nat /\ gateTaken <= t /\ t <= gateMade /\ sample.nr <= t
  <2>1. CASE m.nr = 0
    <3>1. t = gateTaken /\ sample.nr <= gateTaken
      BY <1>3, <1>5, <2>1 DEF GateHeld
    <3> QED
      BY <1>5, <3>1
  <2>2. CASE m.nr # 0
    <3>1. t = m.nr /\ sample = m /\ gateTaken < m.nr
      BY <1>1, <1>3, <2>2 DEF GateAhead
    <3> QED
      BY <1>1, <1>5, <3>1
  <2> QED
    BY <2>1, <2>2
<1>7. gate.lastAt <= sample.at
  BY <1>1, <1>3, <1>5 DEF GateAhead, GateHeld
<1>8. gate.lastAt <= at
  <2>1. CASE m.nr # 0
    BY <1>1, <1>4, <2>1 DEF GateAhead
  <2>2. CASE m.nr = 0 /\ c.throttle = 0
    BY <1>1, <1>4, <2>2 DEF GateAhead
  <2>3. CASE m.nr = 0 /\ c.throttle # 0
    <3>1. c.throttle \in Nat /\ at \in Nat /\ gate.lastAt \in Int
      BY <1>1, <1>4, <1>5, GateFacts
    <3>2. gate.lastAt = -1 \/ ~(at - gate.lastAt < c.throttle)
      BY <2>3, <3>1 DEF RateBlockedAt, Never
    <3> QED
      BY <3>1, <3>2
  <2> QED
    BY <2>1, <2>2, <2>3
<1>9. \A i \in 1 .. Len(gateEmits) : gateEmits[i].sample.nr < sample.nr
  <2>1. \A i \in 1 .. Len(gateEmits) :
          /\ GatePast(c, gate, gateTaken, gateEmits[i])
          /\ gateEmits[i] \in Emits
    BY GateFacts DEF GateInv, SliceOK
  <2>2. \A i \in 1 .. Len(gateEmits) : gateEmits[i].sample.nr \in Nat
    BY <2>1, MsgTypes DEF Emits
  <2> QED
    BY <1>1, <1>3, <1>5, <2>1, <2>2 DEF GatePast, GateAhead
<1>10. c.ttl > 0 => gate.expires[sample.value] <= sample.at
  <2>1. CASE m.nr = 0
    BY <1>3, <1>5, <2>1 DEF GateHeld
  <2>2. CASE m.nr # 0
    <3>1. ~IsCacheHit(gate, sample)
      BY <2>2 DEF m
    <3>2. gate.expires[sample.value] \in Int
      BY <1>5, GateFacts
    <3> QED
      BY <1>5, <3>1, <3>2 DEF IsCacheHit
  <2> QED
    BY <2>1, <2>2
<1>11. /\ g2 \in Gates /\ g2.lastAt = at /\ g2.pending = NoSample
       /\ emits \in Seq(Emits) /\ SliceOK(c, g2, t, emits)
  <2>1. at \in Nat
    BY <1>1, <1>4
  <2> QED
    BY <1>6, <1>7, <1>8, <1>9, <1>10, <2>1, CommitOK DEF g2, emits
<1>12. AheadAll(c, g2, t, tail)
  <2> SUFFICES ASSUME NEW i \in 1 .. Len(tail) PROVE GateAhead(c, g2, t, tail[i])
    BY DEF AheadAll
  <2> DEFINE o == tail[i]
  <2>1. /\ o.nr \in Nat /\ o.at \in Nat /\ GateAhead(c, gate, gateTaken, o)
        /\ GateBefore(c, m, o)
    BY <1>1 DEF AheadAll, BeforeAll
  <2> HIDE DEF o
  <2>2. o.nr # 0 => t < o.nr /\ at <= o.at
    BY <1>1, <1>3, <1>4, <2>1 DEF GateBefore, GateAhead
  <2>3. o.nr = 0 => c.debounce > 0 /\ (c.throttle = 0 => at <= o.at)
    BY <1>1, <1>3, <1>4, <2>1, GateFacts DEF GateBefore, GateAhead
  <2> QED
    BY <1>11, <2>2, <2>3 DEF GateAhead, o
<1>13. gateTimer' \in [at : Nat \union {Never}, rung : BOOLEAN]
  <2>1. GateSubs(g2) \in Nat \union {Never}
    BY <1>11, SubsTypes
  <2> QED
    BY <1>2, <2>1, GateFacts
<1>14. TimerHolds'
  <2>1. GateSubs(gate)' = GateSubs(g2)
    BY <1>2 DEF GateSubs, SettlesAt
  <2> QED
    BY <1>2, <1>11, <2>1 DEF TimerHolds
<1>15. FinalHolds'
  <2>1. gate'.pending = NoSample
    BY <1>2, <1>11
  <2>2. /\ gateEmits' # <<>>
        /\ gateEmits'[Len(gateEmits')] = [sample |-> sample, at |-> at]
    BY <1>2, GateFacts DEF emits
  <2>3. CASE m.nr # 0
    BY <1>2, <1>3, <2>3 DEF FinalHolds
  <2>4. CASE m.nr = 0
    <3>1. gateConfig.debounce > 0 /\ gateConfig.ttl = 0 /\ gateTaken > 0 =>
            sample.nr = gateTaken
      BY <1>3, <2>4 DEF GateInv, FinalHolds
    <3> QED
      BY <1>2, <1>3, <2>1, <2>2, <2>4, <3>1 DEF FinalHolds, t
  <2> QED
    BY <2>3, <2>4
<1>16. g2.lastAt <= gateNow /\ g2.pending = NoSample
  BY <1>1, <1>4, <1>11
<1>17. gateTaken' = t /\ gateEmits' = emits
  BY <1>2 DEF t
<1> QED
  BY <1>2, <1>6, <1>11, <1>12, <1>13, <1>14, <1>15, <1>16, <1>17, GateFoldLands DEF tail

\* A Msg is folded: it is dropped, held or emitted.
LEMMA GateFoldKeeps == GateInv /\ FoldGateMsg => GateInv'
<1> SUFFICES ASSUME GateInv, FoldGateMsg PROVE GateInv'
  OBVIOUS
<1> DEFINE m == Head(gateLine)
<1>1. m \in GateMsgs /\ m.nr \in Nat
  BY FirstGateMsg
<1>2. m.nr # 0 => m \in Samples
  BY <1>1, MsgTypes
<1>3. gate.pending # NoSample => gate.pending \in Samples
  BY GateFacts
<1>4. CASE m.nr = 0
  <2>1. OnFlush(m.at) /\ gateTaken' = gateTaken
    BY <1>4 DEF FoldGateMsg
  <2>2. CASE gate.pending = NoSample \/ RateBlockedAt(gate, m.at)
    BY <1>4, <2>1, <2>2, IdleFoldKeeps DEF OnFlush
  <2>3. CASE ~(gate.pending = NoSample \/ RateBlockedAt(gate, m.at))
    BY <1>3, <1>4, <2>1, <2>3, EmitFoldKeeps DEF OnFlush
  <2> QED
    BY <2>2, <2>3
<1>5. CASE m.nr # 0
  <2>1. Input(m) /\ gateTaken' = m.nr
    BY <1>5 DEF FoldGateMsg
  <2>2. CASE IsCacheHit(gate, m)
    BY <1>5, <2>1, <2>2, IdleFoldKeeps DEF Input, IsCacheHit
  <2>3. CASE ~IsCacheHit(gate, m) /\ gateConfig.debounce > 0
    BY <1>5, <2>1, <2>3, HoldFoldKeeps DEF Input
  <2>4. CASE ~IsCacheHit(gate, m) /\ ~(gateConfig.debounce > 0)
    <3>1. gateConfig.debounce = 0
      BY <2>4, GateFacts
    <3>2. CASE RateBlockedAt(gate, m.at)
      BY <1>5, <2>1, <2>4, <3>1, <3>2, IdleFoldKeeps DEF Input
    <3>3. CASE ~RateBlockedAt(gate, m.at)
      BY <1>2, <1>5, <2>1, <2>4, <3>1, <3>3, EmitFoldKeeps DEF Input
    <3> QED
      BY <3>2, <3>3
  <2> QED
    BY <2>2, <2>3, <2>4
<1> QED
  BY <1>4, <1>5

\* Every step keeps the invariant.
LEMMA GateStep == GateInv /\ [GateNext]_gateVars => GateInv'
<1> SUFFICES ASSUME GateInv, [GateNext]_gateVars PROVE GateInv'
  OBVIOUS
<1>1. CASE GateNext
  BY <1>1, GateFoldKeeps, ArrivesKeeps, RingsKeeps, DownKeeps, TimeKeeps DEF GateNext
<1>2. CASE UNCHANGED gateVars
  BY <1>2 DEF gateVars, GateInv, GateTypes, TimerHolds, FinalHolds, GateSubs, SettlesAt
<1> QED
  BY <1>1, <1>2

\* The invariant says what GateHolds does.
LEMMA GateInvHolds == GateInv => GateHolds
<1> SUFFICES ASSUME GateInv PROVE GateHolds
  OBVIOUS
<1>1. /\ gateEmits \in Seq(Emits) /\ Len(gateEmits) \in Nat
      /\ DOMAIN gateEmits = 1 .. Len(gateEmits)
      /\ gateLine \in Seq(GateMsgs) /\ DOMAIN gateLine = 1 .. Len(gateLine)
  BY GateFacts
<1>2. \A j \in DOMAIN gateEmits : \A i \in 1 .. j - 1 :
        LET older == gateEmits[i]  newer == gateEmits[j]
        IN /\ newer.at - older.at >= gateConfig.throttle
           /\ newer.sample.nr > older.sample.nr
           /\ newer.sample.value = older.sample.value =>
                newer.sample.at - older.at >= gateConfig.ttl
  <2>1. \A i, j \in 1 .. Len(gateEmits) : i < j =>
          Spaced(gateConfig, gateEmits[i], gateEmits[j])
    BY DEF GateInv, SliceOK
  <2>2. \A j \in DOMAIN gateEmits : \A i \in 1 .. j - 1 :
          i \in 1 .. Len(gateEmits) /\ j \in 1 .. Len(gateEmits) /\ i < j
    BY <1>1
  <2> QED
    BY <2>1, <2>2 DEF Spaced
<1>3. gate.pending # NoSample =>
        /\ gateTimer.at = GateSubs(gate)
        /\ gateTimer.rung =>
             [NoSample EXCEPT !.at = gateTimer.at] \in ToSet(gateLine)
  <2> SUFFICES ASSUME gate.pending # NoSample, gateTimer.rung
               PROVE  [NoSample EXCEPT !.at = gateTimer.at] \in ToSet(gateLine)
    BY DEF GateInv, TimerHolds
  <2>1. PICK i \in 1 .. Len(gateLine) :
          gateLine[i].nr = 0 /\ gateLine[i].at = gateTimer.at
    BY DEF GateInv, TimerHolds, OnLine
  <2>2. gateLine[i] \in Flushes
    BY <1>1, <2>1, MsgTypes
  <2>3. gateLine[i] = [NoSample EXCEPT !.at = gateTimer.at]
    BY <2>1, <2>2 DEF Flushes, NoSample
  <2> QED
    BY <1>1, <2>3 DEF ToSet
<1>4. gateConfig.debounce > 0 /\ gateConfig.ttl = 0 /\ gateTaken > 0 =>
        IF gate.pending # NoSample THEN gate.pending.nr = gateTaken
        ELSE gateEmits # <<>> /\ Last(gateEmits).sample.nr = gateTaken
  BY DEF GateInv, FinalHolds, Last
<1> QED
  BY <1>2, <1>3, <1>4 DEF GateHolds

\* The emits of a throttled input are as far apart as the cap says, in the
\* order of their samples, and none is a repeat within the ttl; a sample held
\* has its timer or its flush; and the last sample is emitted or held: for any
\* configuration, values and delays of the host, over restarts.
THEOREM GateStaysTrue == GateSpec => []GateHolds
BY GateStarts, GateStep, GateInvHolds, PTL DEF GateSpec

-----------------------------------------------------------------------------
(* The batches are apart, and what is in flight is what was asked: a verb  *)
(* of the fan-out takes from the line of the batches, or adds to its end.  *)

\* A batch asks about some keys, about each of them once.
Batch == {b \in Seq(ClassKeys) : b # <<>> /\ IsInjective(b)}

\* The batch b asks about k.
KeyIn(b, k) == k \in ToSet(b)

\* No two of the batches of q share a key.
Apart(q) ==
  \A i, j \in DOMAIN q : \A k : KeyIn(q[i], k) /\ KeyIn(q[j], k) => i = j

\* The fields of the fan-out a batch goes through, whatever the others hold.
FanFits(f) ==
  /\ f = [pending |-> f.pending, running |-> f.running, done |-> f.done,
          failed |-> f.failed, items |-> f.items, doneFrom |-> f.doneFrom,
          failedFrom |-> f.failedFrom, joined |-> f.joined]
  /\ f.pending \in Seq(Batch) /\ f.running \in Seq(Batch)
  /\ Len(f.running) <= ClassWindow

\* A batch waits only while the window is full.
FanFull(f) == f.pending # <<>> => Len(f.running) = ClassWindow

\* One line behind another; the lemmas say what a prover needs of it.
Joined(q, p) == q \o p

\* The running batches and the waiting ones behind them.
Line(f) == Joined(f.running, f.pending)

\* No key is in two lots, and no room is left while a batch waits for it.
LinesFit(f, buffer) ==
  /\ FanFits(f) /\ FanFull(f) /\ Apart(Line(f))
  /\ buffer \in Seq(ClassKeys) /\ IsInjective(buffer)
  /\ ToSet(buffer) \intersect Batched(Line(f)) = {}

\* An ask in flight is a running batch; what else runs was lost.
AsksFit(q, asks, lost) ==
  /\ asks \in Seq(Batch) /\ Apart(asks) /\ ToSet(asks) \subseteq ToSet(q)
  /\ Batched(asks) \intersect lost = {}
  /\ Batched(q) = Batched(asks) \union lost

\* The batch b is over, as createClassifyBatch has its fan-out settle it.
SettledBy(f, b, status) == SettleItem(f, b, status, ClassWindow, FALSE)

\* What the slice holds of a key is what its last attempt came to.
AnswersFit(s, last, time) ==
  \A k \in ClassKeys :
    /\ k \in ToSet(s.buffer) \union Batched(Line(s.fan)) <=> last[k] = "asked"
    /\ k \in s.failed <=> last[k] = "failed"
    /\ last[k] # "answered" => s.cache[k] <= time

\* What became of a key's last attempt.
Attempts == {"never", "asked", "failed", "answered"}

\* A key that nothing holds goes to the end of the open window.
TakenIn(f, buffer, k, more) ==
  /\ k \notin ToSet(buffer) \union Batched(Line(f))
  /\ more = Append(buffer, k)

\* The keys of B are no longer in flight; they are marked as the batch went.
MarkedAs(s, s2, B, status, time) ==
  /\ \A l \in B : status = "failed" => s.cache[l] <= time
  /\ s2.failed = IF status = "failed" THEN s.failed \union B ELSE s.failed \ B
  /\ \A l \in ClassKeys : l \notin B => s2.cache[l] = s.cache[l]
  /\ \A l \in B : status = "failed" => s2.cache[l] = s.cache[l]
  /\ ToSet(s2.buffer) \union Batched(Line(s2.fan))
       = (ToSet(s.buffer) \union Batched(Line(s.fan))) \ B

\* The keys of B were in the batch that ended so.
LastOf(last, B, status) ==
  [l \in ClassKeys |-> IF l \in B THEN status ELSE last[l]]

\* The slice with these four fields.
SliceOf(buffer, f, cache, failed) ==
  [buffer |-> buffer, fan |-> f, cache |-> cache, failed |-> failed]

\* The slice, but for what its keys are told.
SliceFits(s) ==
  /\ s = SliceOf(s.buffer, s.fan, s.cache, s.failed)
  /\ s.cache \in [ClassKeys -> Nat] /\ s.failed \subseteq ClassKeys
  /\ LinesFit(s.fan, s.buffer)

\* The inductive invariant: the lots are apart, every running batch has its ask or
\* was lost, and what the slice holds of a key is what its last attempt came to.
ClassInv ==
  /\ SliceFits(class)
  /\ AsksFit(class.fan.running, classAsks, classLost)
  /\ AnswersFit(class, classLast, classTime)
  /\ classLast \in [ClassKeys -> Attempts]
  /\ classTime \in Nat \ {0}

-----------------------------------------------------------------------------

\* A key is in a line when a batch of it asks about the key.
LEMMA InBatched ==
  ASSUME NEW q \in Seq(Batch), NEW k
  PROVE  k \in Batched(q) <=> \E i \in DOMAIN q : KeyIn(q[i], k)
  BY DEF Batched, ToSet, KeyIn

\* What is known of a batch.
LEMMA BatchKeys ==
  ASSUME NEW b \in Batch
  PROVE  /\ b \in Seq(ClassKeys) /\ b # <<>> /\ IsInjective(b)
         /\ ToSet(b) \subseteq ClassKeys
         /\ \E k : KeyIn(b, k)
<1>1. b \in Seq(ClassKeys) /\ b # <<>> /\ IsInjective(b)
  BY DEF Batch
<1>2. Len(b) \in Nat /\ 1 \in 1 .. Len(b) /\ DOMAIN b = 1 .. Len(b)
  BY <1>1
<1>3. KeyIn(b, b[1])
  BY <1>2 DEF KeyIn, ToSet
<1>4. \A i \in 1 .. Len(b) : b[i] \in ClassKeys
  BY <1>1
<1> QED
  BY <1>1, <1>2, <1>3, <1>4 DEF ToSet

\* The keys of a line are keys.
LEMMA BatchedKeys ==
  ASSUME NEW q \in Seq(Batch)
  PROVE  Batched(q) \subseteq ClassKeys
<1> SUFFICES ASSUME NEW k \in Batched(q) PROVE k \in ClassKeys
  OBVIOUS
<1>1. PICK i \in DOMAIN q : KeyIn(q[i], k)
  BY InBatched
<1>2. q[i] \in Batch
  OBVIOUS
<1> QED
  BY <1>1, <1>2, BatchKeys DEF KeyIn

\* The places of two lines, one behind the other.
LEMMA JoinPlaces ==
  ASSUME NEW p \in Seq(Batch), NEW q \in Seq(Batch), NEW pq, pq = Joined(p, q)
  PROVE  /\ pq \in Seq(Batch)
         /\ Batched(pq) = Batched(p) \union Batched(q)
         /\ Apart(pq) <=> /\ Apart(p) /\ Apart(q)
                          /\ Batched(p) \intersect Batched(q) = {}
<1>1. PICK m \in Nat : m = Len(p)
  OBVIOUS
<1>2. PICK n \in Nat : n = Len(q)
  OBVIOUS
<1>3. /\ pq \in Seq(Batch) /\ Len(pq) = m + n
      /\ \A i \in 1 .. m : pq[i] = p[i]
      /\ \A i \in 1 .. n : pq[m + i] = q[i]
      /\ DOMAIN p = 1 .. m /\ DOMAIN q = 1 .. n /\ DOMAIN pq = 1 .. m + n
  BY <1>1, <1>2 DEF Joined
<1>4. \A i \in 1 .. m + n : i \in 1 .. m \/ (i - m \in 1 .. n /\ pq[i] = q[i - m])
  <2> SUFFICES ASSUME NEW i \in 1 .. m + n, i \notin 1 .. m
               PROVE  i - m \in 1 .. n /\ pq[i] = q[i - m]
    OBVIOUS
  <2>1. i - m \in 1 .. n /\ m + (i - m) = i
    OBVIOUS
  <2> QED
    BY <1>3, <2>1
<1>5. ASSUME NEW k PROVE k \in Batched(pq) <=> k \in Batched(p) \/ k \in Batched(q)
  <2>1. ASSUME k \in Batched(pq) PROVE k \in Batched(p) \/ k \in Batched(q)
    <3>1. PICK i \in 1 .. m + n : KeyIn(pq[i], k)
      BY <1>3, <2>1, InBatched
    <3> QED
      BY <1>3, <1>4, <3>1, InBatched
  <2>2. ASSUME k \in Batched(p) PROVE k \in Batched(pq)
    <3>1. PICK i \in 1 .. m : KeyIn(p[i], k)
      BY <1>3, <2>2, InBatched
    <3>2. i \in 1 .. m + n /\ pq[i] = p[i]
      BY <1>3
    <3> QED
      BY <1>3, <3>1, <3>2, InBatched
  <2>3. ASSUME k \in Batched(q) PROVE k \in Batched(pq)
    <3>1. PICK i \in 1 .. n : KeyIn(q[i], k)
      BY <1>3, <2>3, InBatched
    <3>2. m + i \in 1 .. m + n /\ pq[m + i] = q[i]
      BY <1>3
    <3> QED
      BY <1>3, <3>1, <3>2, InBatched
  <2> QED
    BY <2>1, <2>2, <2>3
<1>6. ASSUME Apart(pq) PROVE Apart(p)
  <2> SUFFICES ASSUME NEW i \in 1 .. m, NEW j \in 1 .. m, NEW k,
                      KeyIn(p[i], k), KeyIn(p[j], k)
               PROVE  i = j
    BY <1>3 DEF Apart
  <2>1. i \in 1 .. m + n /\ j \in 1 .. m + n /\ pq[i] = p[i] /\ pq[j] = p[j]
    BY <1>3
  <2> QED
    BY <1>3, <1>6, <2>1 DEF Apart
<1>7. ASSUME Apart(pq) PROVE Apart(q)
  <2> SUFFICES ASSUME NEW i \in 1 .. n, NEW j \in 1 .. n, NEW k,
                      KeyIn(q[i], k), KeyIn(q[j], k)
               PROVE  i = j
    BY <1>3 DEF Apart
  <2>1. /\ m + i \in 1 .. m + n /\ m + j \in 1 .. m + n
        /\ pq[m + i] = q[i] /\ pq[m + j] = q[j]
    BY <1>3
  <2>2. m + i = m + j
    BY <1>3, <1>7, <2>1 DEF Apart
  <2> QED
    BY <2>2
<1>8. ASSUME Apart(pq), NEW k, k \in Batched(p), k \in Batched(q) PROVE FALSE
  <2>1. PICK i \in 1 .. m : KeyIn(p[i], k)
    BY <1>3, <1>8, InBatched
  <2>2. PICK j \in 1 .. n : KeyIn(q[j], k)
    BY <1>3, <1>8, InBatched
  <2>3. /\ i \in 1 .. m + n /\ m + j \in 1 .. m + n
        /\ pq[i] = p[i] /\ pq[m + j] = q[j]
    BY <1>3
  <2>4. i = m + j
    BY <1>3, <1>8, <2>1, <2>2, <2>3 DEF Apart
  <2> QED
    BY <2>4
<1>9. ASSUME Apart(p), Apart(q), Batched(p) \intersect Batched(q) = {}
      PROVE  Apart(pq)
  <2> SUFFICES ASSUME NEW i \in 1 .. m + n, NEW j \in 1 .. m + n, NEW k,
                      KeyIn(pq[i], k), KeyIn(pq[j], k)
               PROVE  i = j
    BY <1>3 DEF Apart
  <2>1. CASE i \in 1 .. m /\ j \in 1 .. m
    BY <1>3, <1>9, <2>1 DEF Apart
  <2>2. CASE i \notin 1 .. m /\ j \notin 1 .. m
    <3>1. PICK a \in 1 .. n : a = i - m
      BY <1>4, <2>2
    <3>2. PICK b \in 1 .. n : b = j - m
      BY <1>4, <2>2
    <3>3. pq[i] = q[a] /\ pq[j] = q[b]
      BY <1>4, <2>2, <3>1, <3>2
    <3>4. a = b
      BY <1>3, <1>9, <3>3 DEF Apart
    <3> QED
      BY <3>1, <3>2, <3>4
  <2>3. CASE i \in 1 .. m /\ j \notin 1 .. m
    <3>1. k \in Batched(p) /\ k \in Batched(q)
      BY <1>3, <1>4, <2>3, InBatched
    <3> QED
      BY <1>9, <3>1
  <2>4. CASE j \in 1 .. m /\ i \notin 1 .. m
    <3>1. k \in Batched(p) /\ k \in Batched(q)
      BY <1>3, <1>4, <2>4, InBatched
    <3> QED
      BY <1>9, <3>1
  <2> QED
    BY <2>1, <2>2, <2>3, <2>4
<1> QED
  BY <1>3, <1>5, <1>6, <1>7, <1>8, <1>9

\* A line without one of its batches.
LEMMA Without ==
  ASSUME NEW q \in Seq(Batch), Apart(q), NEW i \in DOMAIN q, NEW r,
         r = RemoveAt(q, i)
  PROVE  /\ r \in Seq(Batch) /\ Apart(r) /\ Len(r) = Len(q) - 1
         /\ Batched(r) = Batched(q) \ ToSet(q[i])
         /\ ToSet(r) \subseteq ToSet(q) /\ q[i] \notin ToSet(r)
         /\ \A b \in ToSet(q) : b # q[i] => b \in ToSet(r)
<1>1. PICK n \in Nat : n = Len(q)
  OBVIOUS
<1>2. DOMAIN q = 1 .. n /\ i \in 1 .. n
  BY <1>1
<1>3. /\ r \in Seq(Batch) /\ Len(r) = n - 1 /\ DOMAIN r = 1 .. n - 1
      /\ \A j \in 1 .. n - 1 : r[j] = IF j < i THEN q[j] ELSE q[j + 1]
  <2>1. PICK l \in Nat : l = i - 1
    BY <1>2
  <2>2. PICK m \in Nat : m = n - i
    BY <1>2
  <2>3. /\ SubSeq(q, 1, i - 1) \in Seq(Batch) /\ Len(SubSeq(q, 1, i - 1)) = l
        /\ SubSeq(q, i + 1, n) \in Seq(Batch) /\ Len(SubSeq(q, i + 1, n)) = m
    BY <1>1, <1>2, <2>1, <2>2
  <2>4. PICK a \in Seq(Batch) : a = SubSeq(q, 1, i - 1)
    BY <2>3
  <2>5. PICK b \in Seq(Batch) : b = SubSeq(q, i + 1, n)
    BY <2>3
  <2>6. Len(a) = l /\ Len(b) = m
    BY <2>3, <2>4, <2>5
  <2>11. \A j \in 1 .. l : a[j] = q[j]
    BY <1>1, <1>2, <2>1, <2>4
  <2>12. \A j \in 1 .. m : b[j] = q[i + j]
    BY <1>1, <1>2, <2>2, <2>5
  <2>7. r = Joined(a, b)
    BY <1>1, <2>4, <2>5 DEF RemoveAt, Joined
  <2>8. /\ r \in Seq(Batch) /\ Len(r) = l + m
        /\ \A j \in 1 .. l : r[j] = a[j]
        /\ \A j \in 1 .. m : r[l + j] = b[j]
    <3>1. /\ l \in Nat /\ m \in Nat /\ a \in Seq(Batch) /\ b \in Seq(Batch)
          /\ l = Len(a) /\ m = Len(b) /\ r = Joined(a, b)
      BY <2>1, <2>2, <2>4, <2>5, <2>6, <2>7
    <3>2. r \in Seq(Batch) /\ Len(r) = l + m
      BY <3>1 DEF Joined
    <3>3. \A j \in 1 .. l : r[j] = a[j]
      BY <3>1 DEF Joined
    <3>4. \A j \in 1 .. m : r[l + j] = b[j]
      BY <3>1 DEF Joined
    <3> QED
      BY <3>2, <3>3, <3>4
  <2>9. l + m = n - 1 /\ i = l + 1
    BY <1>1, <1>2, <2>1, <2>2
  <2>10. ASSUME NEW j \in 1 .. n - 1 PROVE r[j] = IF j < i THEN q[j] ELSE q[j + 1]
    <3>1. CASE j < i
      <4>1. j \in 1 .. l
        BY <2>9, <3>1
      <4> QED
        BY <2>8, <2>11, <3>1, <4>1
    <3>2. CASE ~(j < i)
      <4>4. j - l \in 1 .. m /\ l + (j - l) = j /\ i + (j - l) = j + 1
        BY <1>2, <2>1, <2>2, <3>2
      <4>1. PICK h \in 1 .. m : h = j - l
        BY <4>4
      <4>2. l + h = j /\ i + h = j + 1
        BY <4>1, <4>4
      <4>3. r[j] = b[h] /\ b[h] = q[j + 1]
        BY <2>8, <2>12, <4>1, <4>2
      <4> QED
        BY <3>2, <4>3
    <3> QED
      BY <3>1, <3>2
  <2> QED
    BY <1>1, <2>8, <2>9, <2>10
<1>4. PICK old : old = [j \in 1 .. n - 1 |-> IF j < i THEN j ELSE j + 1]
  OBVIOUS
<1>5. /\ \A j \in 1 .. n - 1 : old[j] \in 1 .. n /\ old[j] # i /\ r[j] = q[old[j]]
      /\ \A j, l \in 1 .. n - 1 : old[j] = old[l] => j = l
  BY <1>2, <1>3, <1>4
<1>6. \A l \in 1 .. n : l # i => \E j \in 1 .. n - 1 : old[j] = l
  <2> SUFFICES ASSUME NEW l \in 1 .. n, l # i PROVE \E j \in 1 .. n - 1 : old[j] = l
    OBVIOUS
  <2>1. CASE l < i
    <3>1. l \in 1 .. n - 1 /\ old[l] = l
      BY <1>2, <1>4, <2>1
    <3> QED
      BY <3>1
  <2>2. CASE l > i
    <3>1. l - 1 \in 1 .. n - 1
      BY <1>2, <2>2
    <3>2. old[l - 1] = l
      BY <1>2, <1>4, <2>2, <3>1
    <3> QED
      BY <3>1, <3>2
  <2> QED
    BY <1>2, <2>1, <2>2
<1>7. Apart(r)
  <2> SUFFICES ASSUME NEW j \in 1 .. n - 1, NEW l \in 1 .. n - 1, NEW k,
                      KeyIn(r[j], k), KeyIn(r[l], k)
               PROVE  j = l
    BY <1>3 DEF Apart
  <2>1. old[j] = old[l]
    BY <1>2, <1>5 DEF Apart
  <2> QED
    BY <1>5, <2>1
<1>8. ASSUME NEW k PROVE k \in Batched(r) <=> k \in Batched(q) /\ ~KeyIn(q[i], k)
  <2>1. ASSUME k \in Batched(r) PROVE k \in Batched(q) /\ ~KeyIn(q[i], k)
    <3>1. PICK j \in 1 .. n - 1 : KeyIn(r[j], k)
      BY <1>3, <2>1, InBatched
    <3>2. KeyIn(q[old[j]], k) /\ old[j] \in 1 .. n /\ old[j] # i
      BY <1>5, <3>1
    <3>3. k \in Batched(q)
      BY <1>2, <3>2, InBatched
    <3>4. ~KeyIn(q[i], k)
      BY <1>2, <3>2 DEF Apart
    <3> QED
      BY <3>3, <3>4
  <2>2. ASSUME k \in Batched(q), ~KeyIn(q[i], k) PROVE k \in Batched(r)
    <3>1. PICK l \in 1 .. n : KeyIn(q[l], k)
      BY <1>2, <2>2, InBatched
    <3>2. PICK j \in 1 .. n - 1 : old[j] = l
      BY <1>6, <2>2, <3>1
    <3>3. KeyIn(r[j], k)
      BY <1>5, <3>1, <3>2
    <3> QED
      BY <1>3, <3>3, InBatched
  <2> QED
    BY <2>1, <2>2
<1>9. ToSet(r) \subseteq ToSet(q)
  BY <1>2, <1>3, <1>5 DEF ToSet
<1>10. q[i] \notin ToSet(r)
  <2> SUFFICES ASSUME NEW j \in 1 .. n - 1, r[j] = q[i] PROVE FALSE
    BY <1>3 DEF ToSet
  <2>1. q[i] \in Batch
    BY <1>2
  <2>2. PICK k : KeyIn(q[i], k)
    BY <2>1, BatchKeys
  <2>3. KeyIn(q[old[j]], k) /\ old[j] \in 1 .. n /\ old[j] # i
    BY <1>5, <2>2
  <2> QED
    BY <1>2, <2>2, <2>3 DEF Apart
<1>11. ASSUME NEW b \in ToSet(q), b # q[i] PROVE b \in ToSet(r)
  <2>1. PICK l \in 1 .. n : q[l] = b
    BY <1>2 DEF ToSet
  <2>2. PICK j \in 1 .. n - 1 : old[j] = l
    BY <1>6, <1>11, <2>1
  <2> QED
    BY <1>3, <1>5, <2>1, <2>2 DEF ToSet
<1>12. Batched(r) = Batched(q) \ ToSet(q[i])
  BY <1>8 DEF KeyIn
<1> QED
  BY <1>1, <1>3, <1>7, <1>9, <1>10, <1>11, <1>12

-----------------------------------------------------------------------------
(* The verbs of the fan-out.                                               *)

\* A launch takes the first batches of the line behind the running ones, as many
\* as the window has room for.
LEMMA LaunchFits ==
  ASSUME NEW fan, FanFits(fan), NEW r, r = LaunchUpTo(fan, ClassWindow)
  PROVE  /\ FanFits(r.s) /\ FanFull(r.s) /\ r.launch \in Seq(Batch)
         /\ r.s.running = Joined(fan.running, r.launch)
         /\ fan.pending = Joined(r.launch, r.s.pending)
         /\ r = [s |-> r.s, launch |-> r.launch, joins |-> <<>>]
<1>1. PICK p \in Seq(Batch) : p = fan.pending
  BY DEF FanFits
<1>2. PICK q \in Seq(Batch) : q = fan.running
  BY DEF FanFits
<1>3. PICK m \in Nat : m = Len(p)
  OBVIOUS
<1>4. PICK l \in Nat : l = Len(q)
  OBVIOUS
<1>5. ClassWindow \in Nat /\ l <= ClassWindow
  BY <1>2, <1>4, ClassAssumption DEF FanFits
<1>13. PICK n : n = IF ClassWindow - l < m THEN ClassWindow - l ELSE m
  OBVIOUS
<1>6. /\ n \in Nat /\ n <= m
      /\ n = IF ClassWindow - l < m THEN ClassWindow - l ELSE m
  BY <1>5, <1>13
<1>7. r = Launch(fan, n)
  BY <1>1, <1>2, <1>3, <1>4, <1>6 DEF LaunchUpTo
<1>8. CASE n = 0
  <2>1. r.s = fan /\ r.launch = <<>> /\ r = [s |-> fan, launch |-> <<>>, joins |-> <<>>]
    BY <1>7, <1>8 DEF Launch
  <2>2. l = ClassWindow \/ m = 0
    BY <1>5, <1>6, <1>8
  <2>3. p # <<>> => l = ClassWindow
    BY <1>3, <2>2
  <2>4. FanFull(fan)
    BY <1>1, <1>2, <1>4, <2>3 DEF FanFull
  <2>5. q = q \o <<>> /\ p = <<>> \o p
    OBVIOUS
  <2> QED
    BY <1>1, <1>2, <2>1, <2>4, <2>5 DEF Joined
<1>9. CASE n # 0
  <2>14. /\ SubSeq(p, 1, n) \in Seq(Batch) /\ Len(SubSeq(p, 1, n)) = n
         /\ SubSeq(p, n + 1, m) \in Seq(Batch) /\ Len(SubSeq(p, n + 1, m)) = m - n
    BY <1>3, <1>6
  <2>1. PICK go \in Seq(Batch) : go = SubSeq(p, 1, n)
    BY <2>14
  <2>2. PICK rest \in Seq(Batch) : rest = SubSeq(p, n + 1, m)
    BY <2>14
  <2>15. Len(go) = n /\ Len(rest) = m - n
    BY <2>1, <2>2, <2>14
  <2>16. SubSeq(p, 1, n) \o SubSeq(p, n + 1, m) = p
    <3>1. /\ 1 \in 1 .. Len(p) + 1 /\ n \in 1 - 1 .. Len(p) /\ m \in n .. Len(p)
      BY <1>3, <1>6
    <3>2. SubSeq(p, 1, n) \o SubSeq(p, n + 1, m) = SubSeq(p, 1, m)
      BY <1>1, <3>1, ConcatAdjacentSubSeq
    <3> QED
      BY <1>1, <1>3, <3>2, SubSeqFull
  <2>3. Len(go) = n /\ Len(rest) = m - n /\ p = go \o rest
    BY <2>1, <2>2, <2>15, <2>16
  <2>17. q \o go \in Seq(Batch) /\ Len(q \o go) = l + n
    BY <1>2, <1>4, <1>6, <2>1, <2>3
  <2>4. PICK on \in Seq(Batch) : on = q \o go
    BY <2>17
  <2>5. Len(on) = l + n
    BY <2>4, <2>17
  <2>6. PICK now : now = [fan EXCEPT !.pending = SubSeq(@, n + 1, Len(@)),
                                     !.running = @ \o go,
                                     !.items = ClaimMany(@, n)]
    OBVIOUS
  <2>7. r = [s |-> now, launch |-> go, joins |-> <<>>]
    BY <1>1, <1>6, <1>7, <1>9, <2>1, <2>6 DEF Launch
  <2>8. PICK items : items = ClaimMany(fan.items, n)
    OBVIOUS
  <2>9. now = [pending |-> rest, running |-> on, done |-> fan.done,
               failed |-> fan.failed, items |-> items, doneFrom |-> fan.doneFrom,
               failedFrom |-> fan.failedFrom, joined |-> fan.joined]
    BY <1>1, <1>2, <1>3, <2>2, <2>4, <2>6, <2>8 DEF FanFits
  <2>10. /\ now.pending = rest /\ now.running = on /\ now.done = fan.done
         /\ now.failed = fan.failed /\ now.items = items
         /\ now.doneFrom = fan.doneFrom /\ now.failedFrom = fan.failedFrom
         /\ now.joined = fan.joined
    BY <2>9
  <2>11. l + n <= ClassWindow /\ (rest # <<>> => l + n = ClassWindow)
    BY <1>5, <1>6, <2>3
  <2>12. FanFits(now)
    BY <2>5, <2>9, <2>10, <2>11 DEF FanFits
  <2>13. FanFull(now)
    BY <2>5, <2>10, <2>11 DEF FanFull
  <2>18. r.s = now /\ r.launch = go /\ r.joins = <<>>
    BY <2>7
  <2> QED
    BY <1>1, <1>2, <2>1, <2>3, <2>4, <2>7, <2>10, <2>12, <2>13, <2>18 DEF Joined
<1> QED
  BY <1>8, <1>9

\* A batch is put at the end of the line before the launch.
LEMMA ScatterFits ==
  ASSUME NEW fan, FanFits(fan), NEW b \in Batch,
         NEW r, r = Scatter(fan, <<b>>, ClassWindow)
  PROVE  /\ FanFits(r.s) /\ FanFull(r.s) /\ r.launch \in Seq(Batch)
         /\ r.s.running = Joined(fan.running, r.launch)
         /\ Joined(fan.pending, <<b>>) = Joined(r.launch, r.s.pending)
<1> DEFINE opens == fan.pending = <<>> /\ fan.running = <<>>
           items == FoldLeft(Enqueue, fan.items, <<b>>)
           queued == [fan EXCEPT !.pending = @ \o <<b>>,
                                 !.items = FoldLeft(Enqueue, @, <<b>>),
                                 !.doneFrom = IF opens THEN Len(fan.done) ELSE @,
                                 !.failedFrom = IF opens THEN Len(fan.failed) ELSE @,
                                 !.joined = IF opens THEN FALSE ELSE @]
<1>1. r = LaunchUpTo(queued, ClassWindow)
  BY DEF Scatter
<1>2. PICK x : x = items
  OBVIOUS
<1>3. PICK d : d = IF opens THEN Len(fan.done) ELSE fan.doneFrom
  OBVIOUS
<1>4. PICK e : e = IF opens THEN Len(fan.failed) ELSE fan.failedFrom
  OBVIOUS
<1>5. PICK j : j = IF opens THEN FALSE ELSE fan.joined
  OBVIOUS
<1>6. PICK now : now = queued
  OBVIOUS
<1>12. fan.pending \in Seq(Batch) /\ <<b>> \in Seq(Batch)
  BY DEF FanFits
<1>13. fan.pending \o <<b>> \in Seq(Batch)
  BY <1>12
<1>7. PICK p \in Seq(Batch) : p = fan.pending \o <<b>>
  BY <1>13
<1>8. now = [pending |-> p, running |-> fan.running, done |-> fan.done,
             failed |-> fan.failed, items |-> x, doneFrom |-> d,
             failedFrom |-> e, joined |-> j]
  <2> HIDE DEF opens
  <2> QED
    BY <1>2, <1>3, <1>4, <1>5, <1>6, <1>7 DEF FanFits
<1>9. /\ now.pending = p /\ now.running = fan.running /\ now.done = fan.done
      /\ now.failed = fan.failed /\ now.items = x /\ now.doneFrom = d
      /\ now.failedFrom = e /\ now.joined = j
  BY <1>8
<1>10. FanFits(now)
  BY <1>8, <1>9 DEF FanFits
<1>11. r = LaunchUpTo(now, ClassWindow)
  BY <1>1, <1>6
<1> HIDE DEF opens, items, queued
<1>14. /\ FanFits(r.s) /\ FanFull(r.s) /\ r.launch \in Seq(Batch)
       /\ r.s.running = Joined(now.running, r.launch)
       /\ now.pending = Joined(r.launch, r.s.pending)
  BY <1>10, <1>11, LaunchFits
<1> QED
  BY <1>7, <1>9, <1>14 DEF Joined

\* A running batch that settles leaves its place before the launch.
LEMMA SettleFits ==
  ASSUME NEW fan, FanFits(fan), Apart(fan.running), NEW b \in ToSet(fan.running),
         NEW status, NEW r, r = SettledBy(fan, b, status)
  PROVE  /\ FanFits(r.s) /\ FanFull(r.s) /\ r.launch \in Seq(Batch)
         /\ fan.pending = Joined(r.launch, r.s.pending)
         /\ \E i \in DOMAIN fan.running :
              /\ fan.running[i] = b
              /\ r.s.running = Joined(RemoveAt(fan.running, i), r.launch)
<1>1. PICK q \in Seq(Batch) : q = fan.running
  BY DEF FanFits
<1>2. PICK at : at = SelectInSeq(q, LAMBDA x : x = b)
  OBVIOUS
<1>3. at \in DOMAIN q /\ q[at] = b
  <2> DEFINE I == {i \in 1 .. Len(q) : q[i] = b}
  <2>1. PICK k \in DOMAIN q : q[k] = b
    BY <1>1 DEF ToSet
  <2>2. I # {} /\ I \subseteq Nat /\ DOMAIN q = 1 .. Len(q) /\ Len(q) \in Nat
    BY <2>1
  <2>3. PICK m \in I : \A i \in I : m <= i
    BY <2>2, NatLeast
  <2>4. at = Min(I)
    BY <1>2, <2>2 DEF SelectInSeq
  <2>5. Min(I) \in I
    BY <2>3 DEF Min
  <2> QED
    BY <2>2, <2>4, <2>5
<1>4. PICK gone \in Seq(Batch) : gone = RemoveAt(q, at)
  BY <1>1, <1>3, Without
<1>5. Len(gone) = Len(q) - 1
  BY <1>1, <1>3, <1>4, Without
<1>6. PICK dn : dn = IF status = "done" THEN Append(fan.done, b) ELSE fan.done
  OBVIOUS
<1>7. PICK fl : fl = IF status = "failed" THEN Append(fan.failed, b) ELSE fan.failed
  OBVIOUS
<1>8. PICK x : x = SettleLedger(fan.items, b, status)
  OBVIOUS
<1>9. PICK now : now = [fan EXCEPT
                    !.running = RemoveAt(@, at),
                    !.done = IF status = "done" THEN Append(@, b) ELSE @,
                    !.failed = IF status = "failed" THEN Append(@, b) ELSE @,
                    !.items = SettleLedger(@, b, status)]
  OBVIOUS
<1>10. now = [pending |-> fan.pending, running |-> gone, done |-> dn,
              failed |-> fl, items |-> x, doneFrom |-> fan.doneFrom,
              failedFrom |-> fan.failedFrom, joined |-> fan.joined]
  BY <1>1, <1>4, <1>6, <1>7, <1>8, <1>9 DEF FanFits
<1>11. /\ now.pending = fan.pending /\ now.running = gone /\ now.done = dn
       /\ now.failed = fl /\ now.items = x /\ now.doneFrom = fan.doneFrom
       /\ now.failedFrom = fan.failedFrom /\ now.joined = fan.joined
  BY <1>10
<1>12. Len(q) \in Nat /\ ClassWindow \in Nat /\ Len(q) <= ClassWindow
  BY <1>1, ClassAssumption DEF FanFits
<1>13. FanFits(now)
  BY <1>1, <1>5, <1>10, <1>11, <1>12 DEF FanFits
<1>14. at # 0
  BY <1>1, <1>3
<1>15. r = Finish(LaunchUpTo(now, ClassWindow), FALSE)
  BY <1>1, <1>2, <1>9, <1>14 DEF SettledBy, SettleItem, FinishOrLaunch
<1>16. r = LaunchUpTo(now, ClassWindow)
  BY <1>15 DEF Finish
<1>17. /\ FanFits(r.s) /\ FanFull(r.s) /\ r.launch \in Seq(Batch)
       /\ r.s.running = Joined(now.running, r.launch)
       /\ now.pending = Joined(r.launch, r.s.pending)
  BY <1>13, <1>16, LaunchFits
<1> QED
  BY <1>1, <1>3, <1>4, <1>11, <1>17

-----------------------------------------------------------------------------
(* The lines and the asks.                                                 *)

\* A batch is in the one line or in the one behind it.
LEMMA JoinElements ==
  ASSUME NEW q \in Seq(Batch), NEW p \in Seq(Batch), NEW all, all = Joined(q, p), NEW b
  PROVE  b \in ToSet(all) <=> b \in ToSet(q) \/ b \in ToSet(p)
<1>1. /\ DOMAIN all = 1 .. Len(q) + Len(p)
      /\ DOMAIN q = 1 .. Len(q) /\ DOMAIN p = 1 .. Len(p)
      /\ Len(q) \in Nat /\ Len(p) \in Nat
      /\ \A i \in 1 .. Len(q) : all[i] = q[i]
      /\ \A i \in 1 .. Len(p) : all[Len(q) + i] = p[i]
  BY DEF Joined
<1>2. PICK m \in Nat : m = Len(q)
  BY <1>1
<1>3. PICK n \in Nat : n = Len(p)
  BY <1>1
<1>4. ASSUME b \in ToSet(all) PROVE b \in ToSet(q) \/ b \in ToSet(p)
  <2>1. PICK i \in 1 .. m + n : all[i] = b
    BY <1>1, <1>2, <1>3, <1>4 DEF ToSet
  <2>2. CASE i <= m
    <3>1. i \in 1 .. m /\ q[i] = b
      BY <1>1, <1>2, <1>3, <2>1, <2>2
    <3> QED
      BY <1>1, <1>2, <3>1 DEF ToSet
  <2>3. CASE i > m
    <3>1. PICK j \in 1 .. n : i = m + j
      <4>1. i - m \in 1 .. n /\ i = m + (i - m)
        BY <1>2, <1>3, <2>1, <2>3
      <4> QED
        BY <4>1
    <3> QED
      BY <1>1, <1>2, <1>3, <2>1, <3>1 DEF ToSet
  <2> QED
    BY <1>2, <2>1, <2>2, <2>3
<1>5. ASSUME b \in ToSet(q) PROVE b \in ToSet(all)
  <2>1. PICK i \in 1 .. m : q[i] = b
    BY <1>1, <1>2, <1>5 DEF ToSet
  <2>2. i \in 1 .. m + n /\ all[i] = b
    BY <1>1, <1>2, <1>3, <2>1
  <2> QED
    BY <1>1, <1>2, <1>3, <2>2 DEF ToSet
<1>6. ASSUME b \in ToSet(p) PROVE b \in ToSet(all)
  <2>1. PICK i \in 1 .. n : p[i] = b
    BY <1>1, <1>3, <1>6 DEF ToSet
  <2>3. all[m + i] = p[i]
    BY <1>1, <1>2, <1>3, <2>1
  <2>2. m + i \in 1 .. m + n /\ all[m + i] = b
    BY <1>2, <1>3, <2>1, <2>3
  <2> QED
    BY <1>1, <1>2, <1>3, <2>2 DEF ToSet
<1> QED
  BY <1>4, <1>5, <1>6

\* Lines may be joined in any order.
LEMMA JoinAssociates ==
  ASSUME NEW q \in Seq(Batch), NEW p \in Seq(Batch), NEW o \in Seq(Batch)
  PROVE  Joined(Joined(q, p), o) = Joined(q, Joined(p, o))
  BY DEF Joined

\* A launch moves batches from the one part of the line to the other.
LEMMA LaunchKeeps ==
  ASSUME NEW q \in Seq(Batch), NEW p \in Seq(Batch), Apart(Joined(q, p)),
         NEW asks, NEW lost, AsksFit(q, asks, lost),
         NEW f, FanFits(f), NEW go \in Seq(Batch), f.running = Joined(q, go),
         p = Joined(go, f.pending), NEW more, more = Joined(asks, go)
  PROVE  Line(f) = Joined(q, p) /\ AsksFit(f.running, more, lost)
<1>1. PICK rest \in Seq(Batch) : rest = f.pending
  BY DEF FanFits
<1>2. PICK on \in Seq(Batch) : on = f.running
  BY DEF FanFits
<1>16. /\ asks \in Seq(Batch) /\ Apart(asks) /\ ToSet(asks) \subseteq ToSet(q)
       /\ Batched(asks) \intersect lost = {} /\ Batched(q) = Batched(asks) \union lost
  BY DEF AsksFit
<1>3. p = Joined(go, rest) /\ on = Joined(q, go)
  BY <1>1, <1>2
<1>4. Line(f) = Joined(q, p)
  <2>1. Joined(Joined(q, go), rest) = Joined(q, Joined(go, rest))
    BY <1>1, JoinAssociates
  <2> QED
    BY <1>1, <1>2, <1>3, <2>1 DEF Line
<1>5. PICK all : all = Joined(q, p)
  OBVIOUS
<1>6. Apart(all)
  BY <1>5
<1>7. Apart(q) /\ Apart(p) /\ Batched(q) \intersect Batched(p) = {}
  BY <1>5, <1>6, JoinPlaces
<1>8. Apart(go) /\ Batched(p) = Batched(go) \union Batched(rest)
  BY <1>1, <1>3, <1>7, JoinPlaces
<1>9. Batched(on) = Batched(q) \union Batched(go)
  BY <1>2, <1>3, JoinPlaces
<1>10. more \in Seq(Batch) /\ Batched(more) = Batched(asks) \union Batched(go)
  BY <1>16, JoinPlaces
<1>11. Batched(asks) \intersect Batched(go) = {}
  BY <1>7, <1>8, <1>16
<1>12. Apart(more)
  BY <1>8, <1>11, <1>16, JoinPlaces
<1>13. ToSet(more) \subseteq ToSet(on)
  <2> SUFFICES ASSUME NEW b \in ToSet(more) PROVE b \in ToSet(on)
    OBVIOUS
  <2>1. b \in ToSet(asks) \/ b \in ToSet(go)
    BY <1>16, JoinElements
  <2>2. b \in ToSet(q) \/ b \in ToSet(go)
    BY <1>16, <2>1
  <2> QED
    BY <1>3, <2>2, JoinElements
<1>14. /\ Batched(more) \intersect lost = {}
       /\ Batched(on) = Batched(more) \union lost
  BY <1>7, <1>8, <1>9, <1>10, <1>16
<1>15. AsksFit(f.running, more, lost)
  BY <1>2, <1>10, <1>12, <1>13, <1>14 DEF AsksFit
<1> QED
  BY <1>4, <1>15

\* A lot that is flushed goes to the end of the line.
LEMMA FlushKeeps ==
  ASSUME NEW f, NEW b \in Batch, LinesFit(f, b), NEW asks, NEW lost,
         AsksFit(f.running, asks, lost), NEW r, r = Scatter(f, <<b>>, ClassWindow),
         NEW more, more = Joined(asks, r.launch)
  PROVE  /\ LinesFit(r.s, <<>>) /\ AsksFit(r.s.running, more, lost)
         /\ Batched(Line(r.s)) = Batched(Line(f)) \union ToSet(b)
<1>1. PICK go : go = r.launch
  OBVIOUS
<1>2. PICK g : g = r.s
  OBVIOUS
<1>3. FanFits(f)
  BY DEF LinesFit
<1>4. /\ FanFits(g) /\ FanFull(g) /\ go \in Seq(Batch)
      /\ g.running = Joined(f.running, go)
      /\ Joined(f.pending, <<b>>) = Joined(go, g.pending)
  BY <1>1, <1>2, <1>3, ScatterFits
<1>5. PICK q \in Seq(Batch) : q = f.running
  BY <1>3 DEF FanFits
<1>6. PICK p \in Seq(Batch) : p = f.pending
  BY <1>3 DEF FanFits
<1>7. PICK one : one = <<b>>
  OBVIOUS
<1>8. one \in Seq(Batch) /\ DOMAIN one = {1} /\ one[1] = b
  BY <1>7
<1>9. Apart(one) /\ Batched(one) = ToSet(b)
  <2>1. Apart(one)
    BY <1>8 DEF Apart
  <2>2. ASSUME NEW k PROVE k \in Batched(one) <=> k \in ToSet(b)
    BY <1>8, InBatched DEF KeyIn
  <2> QED
    BY <2>1, <2>2
<1>10. PICK old : old = Joined(q, p)
  OBVIOUS
<1>21. Joined(p, one) \in Seq(Batch)
  BY <1>6, <1>8, JoinPlaces
<1>11. PICK p2 \in Seq(Batch) : p2 = Joined(p, one)
  BY <1>21
<1>12. PICK new : new = Joined(old, one)
  OBVIOUS
<1>13. old \in Seq(Batch)
  BY <1>5, <1>6, <1>10, JoinPlaces
<1>22. old = Line(f) /\ Apart(old) /\ ToSet(b) \intersect Batched(old) = {}
  BY <1>5, <1>6, <1>10 DEF Line, LinesFit
<1>14. Apart(new) /\ Batched(new) = Batched(old) \union ToSet(b)
  <2>1. Batched(old) \intersect Batched(one) = {}
    BY <1>9, <1>22
  <2> QED
    BY <1>8, <1>9, <1>12, <1>13, <1>22, <2>1, JoinPlaces
<1>15. new = Joined(q, p2)
  <2>1. Joined(Joined(q, p), one) = Joined(q, Joined(p, one))
    BY <1>5, <1>6, <1>8, JoinAssociates
  <2> QED
    BY <1>10, <1>11, <1>12, <2>1
<1>16. /\ asks \in Seq(Batch) /\ Apart(asks) /\ ToSet(asks) \subseteq ToSet(q)
       /\ Batched(asks) \intersect lost = {} /\ Batched(q) = Batched(asks) \union lost
  BY <1>5 DEF AsksFit
<1>17. /\ Apart(Joined(q, p2)) /\ g.running = Joined(q, go) /\ p2 = Joined(go, g.pending)
       /\ more = Joined(asks, go)
  BY <1>1, <1>4, <1>5, <1>6, <1>7, <1>11, <1>14, <1>15
<1>18. Line(g) = Joined(q, p2) /\ AsksFit(g.running, more, lost)
  <2>1. FanFits(g) /\ go \in Seq(Batch)
    BY <1>4
  <2> QED
    <3>1. /\ q \in Seq(Batch) /\ p2 \in Seq(Batch) /\ Apart(Joined(q, p2))
          /\ AsksFit(q, asks, lost) /\ FanFits(g) /\ go \in Seq(Batch) /\ g.running = Joined(q, go)
          /\ p2 = Joined(go, g.pending) /\ more = Joined(asks, go)
      BY <1>5, <1>11, <1>16, <1>17, <2>1 DEF AsksFit
    <3> QED
      BY <3>1, LaunchKeeps
<1>19. <<>> \in Seq(ClassKeys) /\ IsInjective(<<>>) /\ ToSet(<<>>) = {}
  BY DEF IsInjective, ToSet
<1>20. LinesFit(g, <<>>)
  BY <1>4, <1>14, <1>15, <1>18, <1>19 DEF LinesFit
<1> QED
  BY <1>2, <1>14, <1>15, <1>18, <1>20, <1>22

\* A batch that settles leaves the line, and its ask the asks.
LEMMA BatchSettleKeeps ==
  ASSUME NEW f, NEW buffer, LinesFit(f, buffer), NEW asks, NEW lost,
         AsksFit(f.running, asks, lost), NEW i \in DOMAIN asks, NEW b, b = asks[i], NEW status,
         NEW r, r = SettledBy(f, b, status),
         NEW more, more = Joined(RemoveAt(asks, i), r.launch)
  PROVE  /\ b \in Batch /\ b \in ToSet(f.running)
         /\ LinesFit(r.s, buffer) /\ AsksFit(r.s.running, more, lost)
         /\ Batched(Line(r.s)) = Batched(Line(f)) \ ToSet(b)
         /\ ToSet(b) \subseteq Batched(Line(f))
<1>1. PICK go : go = r.launch
  OBVIOUS
<1>2. PICK g : g = r.s
  OBVIOUS
<1>3. FanFits(f)
  BY DEF LinesFit
<1>4. PICK q \in Seq(Batch) : q = f.running
  BY <1>3 DEF FanFits
<1>5. PICK p \in Seq(Batch) : p = f.pending
  BY <1>3 DEF FanFits
<1>6. PICK old : old = Joined(q, p)
  OBVIOUS
<1>7. old = Line(f) /\ Apart(old)
  BY <1>4, <1>5, <1>6 DEF Line, LinesFit
<1>8. /\ old \in Seq(Batch) /\ Apart(q) /\ Apart(p)
      /\ Batched(q) \intersect Batched(p) = {}
      /\ Batched(old) = Batched(q) \union Batched(p)
  <2>1. q \in Seq(Batch) /\ p \in Seq(Batch) /\ old = Joined(q, p) /\ Apart(old)
    BY <1>4, <1>5, <1>6, <1>7
  <2> QED
    BY <2>1, JoinPlaces
<1>9. /\ asks \in Seq(Batch) /\ Apart(asks) /\ ToSet(asks) \subseteq ToSet(q)
      /\ Batched(asks) \intersect lost = {} /\ Batched(q) = Batched(asks) \union lost
  BY <1>4 DEF AsksFit
<1>10. b \in Batch /\ b \in ToSet(asks) /\ b \in ToSet(q)
  <2>1. b \in Batch
    BY <1>9
  <2>2. b \in ToSet(asks)
    BY DEF ToSet
  <2> QED
    BY <1>9, <2>1, <2>2
<1>11. /\ FanFits(g) /\ FanFull(g) /\ go \in Seq(Batch) /\ p = Joined(go, g.pending)
       /\ \E j \in DOMAIN q : q[j] = b /\ g.running = Joined(RemoveAt(q, j), go)
  <2>1. Apart(f.running) /\ b \in ToSet(f.running)
    BY <1>4, <1>8, <1>10
  <2>2. /\ FanFits(r.s) /\ FanFull(r.s) /\ r.launch \in Seq(Batch)
        /\ f.pending = Joined(r.launch, r.s.pending)
        /\ \E j \in DOMAIN f.running :
             f.running[j] = b /\ r.s.running = Joined(RemoveAt(f.running, j), r.launch)
    BY <1>3, <2>1, SettleFits
  <2> QED
    BY <1>1, <1>2, <1>4, <1>5, <2>2
<1>12. PICK j \in DOMAIN q : q[j] = b /\ g.running = Joined(RemoveAt(q, j), go)
  BY <1>11
<1>13. PICK q2 : q2 = RemoveAt(q, j)
  OBVIOUS
<1>14. /\ q2 \in Seq(Batch) /\ Apart(q2) /\ Batched(q2) = Batched(q) \ ToSet(b)
       /\ \A c \in ToSet(q) : c # b => c \in ToSet(q2)
  BY <1>4, <1>8, <1>12, <1>13, Without
<1>15. PICK asks2 : asks2 = RemoveAt(asks, i)
  OBVIOUS
<1>16. /\ asks2 \in Seq(Batch) /\ Apart(asks2)
       /\ Batched(asks2) = Batched(asks) \ ToSet(b)
       /\ ToSet(asks2) \subseteq ToSet(asks) /\ b \notin ToSet(asks2)
  BY <1>9, <1>15, Without
<1>17. ToSet(asks2) \subseteq ToSet(q2)
  BY <1>9, <1>14, <1>16
<1>18. ToSet(b) \subseteq Batched(asks)
  BY <1>9, InBatched DEF KeyIn
<1>19. Batched(asks2) \intersect lost = {} /\ Batched(q2) = Batched(asks2) \union lost
  BY <1>9, <1>14, <1>16, <1>18
<1>20. PICK new : new = Joined(q2, p)
  OBVIOUS
<1>21. Batched(q2) \intersect Batched(p) = {}
  BY <1>8, <1>14
<1>22. Apart(new) /\ Batched(new) = Batched(q2) \union Batched(p)
  BY <1>5, <1>8, <1>14, <1>20, <1>21, JoinPlaces
<1>23. /\ Apart(Joined(q2, p)) /\ g.running = Joined(q2, go) /\ more = Joined(asks2, go)
  BY <1>1, <1>12, <1>13, <1>15, <1>20, <1>22
<1>24. Line(g) = Joined(q2, p) /\ AsksFit(g.running, more, lost)
  <2>1. FanFits(g) /\ go \in Seq(Batch) /\ p = Joined(go, g.pending)
    BY <1>11
  <2> QED
    <3>1. /\ q2 \in Seq(Batch) /\ p \in Seq(Batch) /\ Apart(Joined(q2, p))
          /\ AsksFit(q2, asks2, lost) /\ FanFits(g) /\ go \in Seq(Batch) /\ g.running = Joined(q2, go)
          /\ p = Joined(go, g.pending) /\ more = Joined(asks2, go)
      BY <1>5, <1>14, <1>16, <1>17, <1>19, <1>23, <2>1 DEF AsksFit
    <3> QED
      BY <3>1, LaunchKeeps
<1>25. Batched(new) = Batched(old) \ ToSet(b) /\ ToSet(b) \subseteq Batched(old)
  BY <1>8, <1>9, <1>14, <1>18, <1>22
<1>26. LinesFit(g, buffer)
  <2>1. Line(g) = new
    BY <1>20, <1>24
  <2>2. ToSet(buffer) \intersect Batched(old) = {} /\ buffer \in Seq(ClassKeys)
        /\ IsInjective(buffer)
    BY <1>7 DEF LinesFit
  <2>3. ToSet(buffer) \intersect Batched(new) = {}
    BY <1>25, <2>2
  <2> QED
    BY <1>11, <1>22, <2>1, <2>2, <2>3 DEF LinesFit
<1> QED
  BY <1>2, <1>4, <1>7, <1>10, <1>20, <1>24, <1>25, <1>26

-----------------------------------------------------------------------------
(* What a key is told.                                                     *)

\* A key that is taken in is told to be in flight.
LEMMA TakenTold ==
  ASSUME NEW s, NEW last \in [ClassKeys -> Attempts], NEW time \in Nat,
         AnswersFit(s, last, time), NEW k \in ClassKeys, s.cache[k] <= time,
         NEW s2, s2.failed = s.failed \ {k}, s2.cache = s.cache,
         ToSet(s2.buffer) \union Batched(Line(s2.fan))
           = (ToSet(s.buffer) \union Batched(Line(s.fan))) \union {k},
         NEW last2, last2 = [last EXCEPT ![k] = "asked"]
  PROVE  AnswersFit(s2, last2, time) /\ last2 \in [ClassKeys -> Attempts]
<1>1. PICK now : now = ToSet(s.buffer) \union Batched(Line(s.fan))
  OBVIOUS
<1>2. PICK then : then = ToSet(s2.buffer) \union Batched(Line(s2.fan))
  OBVIOUS
<1>3. then = now \union {k}
  BY <1>1, <1>2
<1>4. /\ last2 \in [ClassKeys -> Attempts] /\ last2[k] = "asked"
      /\ \A l \in ClassKeys : l # k => last2[l] = last[l]
  BY DEF Attempts
<1>5. ASSUME NEW l \in ClassKeys
      PROVE  /\ l \in then <=> last2[l] = "asked"
             /\ l \in s2.failed <=> last2[l] = "failed"
             /\ last2[l] # "answered" => s2.cache[l] <= time
  <2>1. /\ l \in now <=> last[l] = "asked"
        /\ l \in s.failed <=> last[l] = "failed"
        /\ last[l] # "answered" => s.cache[l] <= time
    BY <1>1 DEF AnswersFit
  <2>2. CASE l = k
    BY <1>3, <1>4, <2>2
  <2>3. CASE l # k
    BY <1>3, <1>4, <2>1, <2>3
  <2> QED
    BY <2>2, <2>3
<1> QED
  BY <1>2, <1>4, <1>5 DEF AnswersFit

\* The keys of a batch that is over are told how it went.
LEMMA SettledTold ==
  ASSUME NEW s, NEW last \in [ClassKeys -> Attempts], NEW time \in Nat,
         AnswersFit(s, last, time), NEW B,
         NEW s2, NEW status \in {"answered", "failed"},
         MarkedAs(s, s2, B, status, time),
         NEW last2, last2 = LastOf(last, B, status)
  PROVE  AnswersFit(s2, last2, time) /\ last2 \in [ClassKeys -> Attempts]
<1>6. /\ \A l \in B : status = "failed" => s.cache[l] <= time
      /\ s2.failed = IF status = "failed" THEN s.failed \union B ELSE s.failed \ B
      /\ \A l \in ClassKeys : l \notin B => s2.cache[l] = s.cache[l]
      /\ \A l \in B : status = "failed" => s2.cache[l] = s.cache[l]
      /\ ToSet(s2.buffer) \union Batched(Line(s2.fan))
           = (ToSet(s.buffer) \union Batched(Line(s.fan))) \ B
  BY DEF MarkedAs
<1>1. PICK now : now = ToSet(s.buffer) \union Batched(Line(s.fan))
  OBVIOUS
<1>2. PICK then : then = ToSet(s2.buffer) \union Batched(Line(s2.fan))
  OBVIOUS
<1>3. then = now \ B
  BY <1>1, <1>2, <1>6
<1>4. /\ last2 \in [ClassKeys -> Attempts]
      /\ \A l \in ClassKeys : last2[l] = IF l \in B THEN status ELSE last[l]
  BY DEF Attempts, LastOf
<1>5. ASSUME NEW l \in ClassKeys
      PROVE  /\ l \in then <=> last2[l] = "asked"
             /\ l \in s2.failed <=> last2[l] = "failed"
             /\ last2[l] # "answered" => s2.cache[l] <= time
  <2>1. /\ l \in now <=> last[l] = "asked"
        /\ l \in s.failed <=> last[l] = "failed"
        /\ last[l] # "answered" => s.cache[l] <= time
    BY <1>1 DEF AnswersFit
  <2>2. CASE l \in B
    <3>1. last2[l] = status /\ l \notin then
      BY <1>3, <1>4, <2>2
    <3>2. CASE status = "failed"
      BY <1>6, <2>1, <2>2, <3>1, <3>2
    <3>3. CASE status = "answered"
      BY <1>6, <2>2, <3>1, <3>3
    <3> QED
      BY <3>2, <3>3
  <2>3. CASE l \notin B
    <3>1. last2[l] = last[l] /\ s2.cache[l] = s.cache[l]
      BY <1>4, <1>6, <2>3
    <3>2. l \in then <=> l \in now
      BY <1>3, <2>3
    <3>3. l \in s2.failed <=> l \in s.failed
      BY <1>6, <2>3
    <3> QED
      BY <2>1, <3>1, <3>2, <3>3
  <2> QED
    BY <2>2, <2>3
<1> QED
  BY <1>2, <1>4, <1>5 DEF AnswersFit

-----------------------------------------------------------------------------
(* Each step keeps the invariant.                                          *)

\* The parts of the invariant.
LEMMA ClassFacts ==
  ASSUME ClassInv
  PROVE  /\ class = SliceOf(class.buffer, class.fan, class.cache, class.failed)
         /\ class.cache \in [ClassKeys -> Nat] /\ class.failed \subseteq ClassKeys
         /\ LinesFit(class.fan, class.buffer)
         /\ AsksFit(class.fan.running, classAsks, classLost)
         /\ AnswersFit(class, classLast, classTime)
         /\ classLast \in [ClassKeys -> Attempts]
         /\ classTime \in Nat \ {0} /\ classAsks \in Seq(Batch)
  BY DEF ClassInv, SliceFits, AsksFit

\* A slice put together again.
LEMMA SliceParts ==
  ASSUME NEW buffer, NEW f, NEW cache, NEW failed,
         NEW s, s = SliceOf(buffer, f, cache, failed)
  PROVE  /\ s.buffer = buffer /\ s.fan = f /\ s.cache = cache /\ s.failed = failed
         /\ s = SliceOf(s.buffer, s.fan, s.cache, s.failed)
  BY DEF SliceOf

\* The empty slice has the invariant.
LEMMA ClassStarts == ClassInit => ClassInv
<1> SUFFICES ASSUME ClassInit PROVE ClassInv
  OBVIOUS
<1>1. PICK cache : cache = [k \in ClassKeys |-> NotCached]
  OBVIOUS
<1>2. class = SliceOf(<<>>, InitFan, cache, {})
  BY <1>1 DEF ClassInit, SliceOf
<1>3. /\ class.buffer = <<>> /\ class.fan = InitFan /\ class.cache = cache
      /\ class.failed = {}
      /\ class = SliceOf(class.buffer, class.fan, class.cache, class.failed)
  BY <1>2, SliceParts
<1>4. /\ InitFan.running = <<>> /\ InitFan.pending = <<>>
      /\ FanFits(InitFan) /\ FanFull(InitFan)
  <2>1. /\ InitFan.pending = <<>> /\ InitFan.running = <<>> /\ InitFan.done = <<>>
        /\ InitFan.failed = <<>> /\ InitFan.items = <<>> /\ InitFan.doneFrom = 0
        /\ InitFan.failedFrom = 0 /\ InitFan.joined = FALSE
    BY DEF InitFan
  <2>2. <<>> \in Seq(Batch) /\ Len(<<>>) = 0 /\ 0 <= ClassWindow
    BY ClassAssumption
  <2>3. InitFan = [pending |-> InitFan.pending, running |-> InitFan.running,
                   done |-> InitFan.done, failed |-> InitFan.failed,
                   items |-> InitFan.items, doneFrom |-> InitFan.doneFrom,
                   failedFrom |-> InitFan.failedFrom, joined |-> InitFan.joined]
    BY DEF InitFan
  <2> QED
    BY <2>1, <2>2, <2>3 DEF FanFits, FanFull
<1>14. <<>> \in Seq(Batch)
  OBVIOUS
<1>5. PICK none \in Seq(Batch) : none = <<>>
  BY <1>14
<1>6. Apart(none) /\ Batched(none) = {} /\ ToSet(none) = {}
  BY <1>5 DEF Apart, Batched, ToSet
<1>7. Line(InitFan) = none
  BY <1>4, <1>5 DEF Line, Joined
<1>8. <<>> \in Seq(ClassKeys) /\ IsInjective(<<>>) /\ ToSet(<<>>) = {}
  BY DEF IsInjective, ToSet
<1>9. LinesFit(class.fan, class.buffer)
  BY <1>3, <1>4, <1>6, <1>7, <1>8 DEF LinesFit
<1>10. classAsks = none /\ classLost = {} /\ class.fan.running = none
  BY <1>3, <1>4, <1>5 DEF ClassInit
<1>11. AsksFit(class.fan.running, classAsks, classLost)
  BY <1>6, <1>10 DEF AsksFit
<1>12. /\ classLast \in [ClassKeys -> Attempts] /\ classTime \in Nat \ {0}
       /\ \A k \in ClassKeys : classLast[k] = "never"
       /\ cache \in [ClassKeys -> Nat] /\ \A k \in ClassKeys : cache[k] = 0
       /\ classTime = 1
  BY <1>1 DEF ClassInit, Attempts, NotCached
<1>13. AnswersFit(class, classLast, classTime)
  <2>1. ToSet(class.buffer) = {} /\ Batched(Line(class.fan)) = {}
    BY <1>3, <1>6, <1>7, <1>8
  <2> QED
    BY <1>3, <1>12, <2>1 DEF AnswersFit
<1> QED
  BY <1>3, <1>9, <1>11, <1>12, <1>13 DEF ClassInv, SliceFits

\* What one key more does to an open window.
LEMMA BufferGrows ==
  ASSUME NEW f, NEW buffer, LinesFit(f, buffer), NEW k \in ClassKeys,
         NEW more, TakenIn(f, buffer, k, more)
  PROVE  /\ LinesFit(f, more) /\ more \in Batch
         /\ ToSet(more) = ToSet(buffer) \union {k}
<1>1. buffer \in Seq(ClassKeys) /\ IsInjective(buffer)
  BY DEF LinesFit
<1>2. PICK n \in Nat : n = Len(buffer)
  BY <1>1
<1>8. more = Append(buffer, k) /\ k \notin ToSet(buffer) \union Batched(Line(f))
  BY DEF TakenIn
<1>3. /\ more \in Seq(ClassKeys) /\ DOMAIN more = 1 .. n + 1 /\ more # <<>>
      /\ DOMAIN buffer = 1 .. n
      /\ \A i \in 1 .. n : more[i] = buffer[i] /\ more[n + 1] = k
  BY <1>1, <1>2, <1>8
<1>4. more[n + 1] = k
  BY <1>1, <1>2, <1>8
<1>5. ToSet(more) = ToSet(buffer) \union {k}
  <2>1. ASSUME NEW x \in ToSet(more) PROVE x \in ToSet(buffer) \union {k}
    <3>1. PICK i \in 1 .. n + 1 : more[i] = x
      BY <1>3, <2>1 DEF ToSet
    <3>2. i \in 1 .. n \/ i = n + 1
      BY <1>2
    <3> QED
      BY <1>3, <1>4, <3>1, <3>2 DEF ToSet
  <2>2. ASSUME NEW x \in ToSet(buffer) PROVE x \in ToSet(more)
    <3>1. PICK i \in 1 .. n : buffer[i] = x
      BY <1>3, <2>2 DEF ToSet
    <3>2. i \in 1 .. n + 1 /\ more[i] = x
      BY <1>2, <1>3, <3>1
    <3> QED
      BY <1>3, <3>2 DEF ToSet
  <2>3. k \in ToSet(more)
    <3>1. n + 1 \in 1 .. n + 1
      BY <1>2
    <3> QED
      BY <1>3, <1>4, <3>1 DEF ToSet
  <2> QED
    BY <2>1, <2>2, <2>3
<1>6. IsInjective(more)
  <2> SUFFICES ASSUME NEW i \in 1 .. n + 1, NEW j \in 1 .. n + 1, more[i] = more[j]
               PROVE  i = j
    BY <1>3 DEF IsInjective
  <2>1. \A l \in 1 .. n : buffer[l] # k
    BY <1>3, <1>8 DEF ToSet
  <2>2. (i \in 1 .. n \/ i = n + 1) /\ (j \in 1 .. n \/ j = n + 1)
    BY <1>2
  <2>3. CASE i \in 1 .. n /\ j \in 1 .. n
    BY <1>1, <1>3, <2>3 DEF IsInjective
  <2> QED
    BY <1>3, <1>4, <2>1, <2>2, <2>3
<1>7. ToSet(more) \intersect Batched(Line(f)) = {}
  BY <1>5, <1>8 DEF LinesFit
<1> QED
  BY <1>3, <1>5, <1>6, <1>7 DEF LinesFit, Batch

\* AnswersFit looks at the keys in flight as one set.
LEMMA ToldOfTheSame ==
  ASSUME NEW s, NEW last, NEW time, AnswersFit(s, last, time), NEW s2,
         s2.failed = s.failed, s2.cache = s.cache,
         ToSet(s2.buffer) \union Batched(Line(s2.fan))
           = ToSet(s.buffer) \union Batched(Line(s.fan))
  PROVE  AnswersFit(s2, last, time)
<1>1. PICK now : now = ToSet(s.buffer) \union Batched(Line(s.fan))
  OBVIOUS
<1> QED
  BY <1>1 DEF AnswersFit

\* The window's buffer goes to the fan-out as one batch.
LEMMA FlushStep ==
  ASSUME NEW s, SliceFits(s), s.buffer \in Batch, NEW last, NEW time,
         AsksFit(s.fan.running, classAsks, classLost), AnswersFit(s, last, time),
         Flush(s, s.buffer)
  PROVE  /\ SliceFits(class')
         /\ AsksFit(class'.fan.running, classAsks', classLost)
         /\ AnswersFit(class', last, time)
<1>1. PICK r : r = Scatter(s.fan, <<s.buffer>>, ClassWindow)
  OBVIOUS
<1>2. /\ s = SliceOf(s.buffer, s.fan, s.cache, s.failed)
      /\ s.cache \in [ClassKeys -> Nat] /\ s.failed \subseteq ClassKeys
      /\ LinesFit(s.fan, s.buffer)
  BY DEF SliceFits
<1>3. /\ class' = [[s EXCEPT !.buffer = <<>>] EXCEPT !.fan = r.s]
      /\ classAsks' = classAsks \o r.launch
  BY <1>1 DEF Flush, ClassFolds
<1>4. class' = SliceOf(<<>>, r.s, s.cache, s.failed)
  BY <1>2, <1>3 DEF SliceOf
<1>5. /\ class'.buffer = <<>> /\ class'.fan = r.s /\ class'.cache = s.cache
      /\ class'.failed = s.failed
      /\ class' = SliceOf(class'.buffer, class'.fan, class'.cache, class'.failed)
  BY <1>4, SliceParts
<1>6. PICK more : more = Joined(classAsks, r.launch)
  OBVIOUS
<1>7. classAsks' = more
  BY <1>3, <1>6 DEF Joined
<1>8. PICK b \in Batch : b = s.buffer
  OBVIOUS
<1>17. PICK f : f = s.fan
  OBVIOUS
<1>18. PICK asks : asks = classAsks
  OBVIOUS
<1>19. PICK lost : lost = classLost
  OBVIOUS
<1>9. /\ b \in Batch /\ LinesFit(f, b) /\ r = Scatter(f, <<b>>, ClassWindow)
      /\ AsksFit(f.running, asks, lost) /\ more = Joined(asks, r.launch)
  BY <1>1, <1>2, <1>6, <1>8, <1>17, <1>18, <1>19
<1>20. /\ LinesFit(r.s, <<>>) /\ AsksFit(r.s.running, more, lost)
       /\ Batched(Line(r.s)) = Batched(Line(f)) \union ToSet(b)
  BY <1>9, FlushKeeps
<1>10. /\ LinesFit(r.s, <<>>) /\ AsksFit(r.s.running, more, classLost)
       /\ Batched(Line(r.s)) = Batched(Line(s.fan)) \union ToSet(b)
  BY <1>17, <1>19, <1>20
<1>11. SliceFits(class')
  BY <1>2, <1>5, <1>10 DEF SliceFits
<1>12. AsksFit(class'.fan.running, classAsks', classLost)
  BY <1>5, <1>7, <1>10
<1>13. PICK s2 : s2 = class'
  OBVIOUS
<1>14. ToSet(<<>>) = {}
  BY DEF ToSet
<1>15. /\ s2.failed = s.failed /\ s2.cache = s.cache
       /\ ToSet(s2.buffer) \union Batched(Line(s2.fan))
            = ToSet(s.buffer) \union Batched(Line(s.fan))
  BY <1>5, <1>8, <1>10, <1>13, <1>14
<1>16. AnswersFit(s2, last, time)
  BY <1>15, ToldOfTheSame
<1> QED
  BY <1>11, <1>12, <1>13, <1>16

\* What inFlight reads is the buffer and the line.
LEMMA InFlightKeys ==
  InFlight(class) = ToSet(class.buffer) \union Batched(Line(class.fan))
  BY DEF InFlight, Line, Joined

\* An item is dropped, or taken in, which may close the window.
LEMMA OfferItemPost ==
  ASSUME ClassInv, NEW k \in ClassKeys, OfferItem(k)
  PROVE  ClassInv'
<1>1. /\ class = SliceOf(class.buffer, class.fan, class.cache, class.failed)
      /\ class.cache \in [ClassKeys -> Nat] /\ class.failed \subseteq ClassKeys
      /\ LinesFit(class.fan, class.buffer)
      /\ AsksFit(class.fan.running, classAsks, classLost)
      /\ AnswersFit(class, classLast, classTime)
      /\ classLast \in [ClassKeys -> Attempts] /\ classTime \in Nat \ {0}
  BY ClassFacts
<1>2. classTime' = classTime /\ classLost' = classLost
  BY DEF OfferItem
<1>3. CASE Drops(class, k)
  <2>1. class' = class /\ classAsks' = classAsks /\ classLast' = classLast
    BY <1>3 DEF OfferItem
  <2> QED
    BY <1>2, <2>1 DEF ClassInv
<1>4. CASE ~Drops(class, k)
  <2>1. PICK s : s = Taken(class, k)
    OBVIOUS
  <2>2. PICK buffer : buffer = Append(class.buffer, k)
    OBVIOUS
  <2>3. PICK failed : failed = class.failed \ {k}
    OBVIOUS
  <2>4. s = SliceOf(buffer, class.fan, class.cache, failed)
    BY <1>1, <2>1, <2>2, <2>3 DEF Taken, SliceOf
  <2>5. /\ s.buffer = buffer /\ s.fan = class.fan /\ s.cache = class.cache
        /\ s.failed = failed /\ s = SliceOf(s.buffer, s.fan, s.cache, s.failed)
    BY <2>4, SliceParts
  <2>6. /\ k \notin ToSet(class.buffer) \union Batched(Line(class.fan))
        /\ class.cache[k] <= classTime
    <3>1. k \notin InFlight(class) /\ ~IsAnswered(class, k, classTime)
      BY <1>4 DEF Drops
    <3>2. class.cache[k] \in Nat
      BY <1>1
    <3>3. class.cache[k] <= classTime
      BY <1>1, <3>1, <3>2 DEF IsAnswered, NotCached
    <3> QED
      BY <3>1, <3>3, InFlightKeys
  <2>7. /\ LinesFit(class.fan, buffer) /\ buffer \in Batch
        /\ ToSet(buffer) = ToSet(class.buffer) \union {k}
    <3>1. PICK f : f = class.fan
      OBVIOUS
    <3>2. PICK old : old = class.buffer
      OBVIOUS
    <3>3. LinesFit(f, old) /\ TakenIn(f, old, k, buffer)
      BY <1>1, <2>2, <2>6, <3>1, <3>2 DEF TakenIn
    <3>4. LinesFit(f, buffer) /\ buffer \in Batch /\ ToSet(buffer) = ToSet(old) \union {k}
      BY <3>3, BufferGrows
    <3> QED
      BY <3>1, <3>2, <3>4
  <2>8. SliceFits(s)
    BY <1>1, <2>3, <2>5, <2>7 DEF SliceFits
  <2>9. PICK last : last = [classLast EXCEPT ![k] = "asked"]
    OBVIOUS
  <2>10. AnswersFit(s, last, classTime) /\ last \in [ClassKeys -> Attempts]
    <3>1. ToSet(s.buffer) \union Batched(Line(s.fan))
            = (ToSet(class.buffer) \union Batched(Line(class.fan))) \union {k}
      BY <2>5, <2>7
    <3>2. s.failed = class.failed \ {k} /\ s.cache = class.cache
      BY <2>3, <2>5
    <3>3. classTime \in Nat
      BY <1>1
    <3> QED
      BY <1>1, <2>6, <2>9, <3>1, <3>2, <3>3, TakenTold
  <2>11. classLast' = last
    BY <1>4, <2>9 DEF OfferItem
  <2>12. AsksFit(s.fan.running, classAsks, classLost)
    BY <1>1, <2>5
  <2>13. IF Len(s.buffer) >= ClassMax
           THEN Flush(s, s.buffer)
           ELSE class' = s /\ UNCHANGED classAsks
    BY <1>4, <2>1 DEF OfferItem
  <2>14. CASE Len(s.buffer) >= ClassMax
    <3>1. Flush(s, s.buffer) /\ s.buffer \in Batch
      BY <2>5, <2>7, <2>13, <2>14
    <3>2. /\ SliceFits(class')
          /\ AsksFit(class'.fan.running, classAsks', classLost)
          /\ AnswersFit(class', last, classTime)
      BY <2>8, <2>10, <2>12, <3>1, FlushStep
    <3> QED
      BY <1>1, <1>2, <2>10, <2>11, <3>2 DEF ClassInv
  <2>15. CASE ~(Len(s.buffer) >= ClassMax)
    <3>1. class' = s /\ classAsks' = classAsks
      BY <2>13, <2>15
    <3> QED
      BY <1>1, <1>2, <2>8, <2>10, <2>11, <2>12, <3>1 DEF ClassInv
  <2> QED
    BY <2>14, <2>15
<1> QED
  BY <1>3, <1>4

\* The window's timer flushes what the window holds, if it is still open.
LEMMA ClassOnWindowPost ==
  ASSUME ClassInv, ClassOnWindow
  PROVE  ClassInv'
<1>1. /\ class = SliceOf(class.buffer, class.fan, class.cache, class.failed)
      /\ class.cache \in [ClassKeys -> Nat] /\ class.failed \subseteq ClassKeys
      /\ LinesFit(class.fan, class.buffer)
      /\ AsksFit(class.fan.running, classAsks, classLost)
      /\ AnswersFit(class, classLast, classTime)
      /\ classLast \in [ClassKeys -> Attempts] /\ classTime \in Nat \ {0}
  BY ClassFacts
<1>2. classTime' = classTime /\ classLost' = classLost /\ classLast' = classLast
  BY DEF ClassOnWindow
<1>3. CASE class.buffer = <<>>
  <2>1. class' = class /\ classAsks' = classAsks
    BY <1>3 DEF ClassOnWindow
  <2> QED
    BY <1>2, <2>1 DEF ClassInv
<1>4. CASE class.buffer # <<>>
  <2>1. Flush(class, class.buffer)
    BY <1>4 DEF ClassOnWindow
  <2>2. class.buffer \in Batch
    BY <1>1, <1>4 DEF LinesFit, Batch
  <2>3. SliceFits(class)
    BY DEF ClassInv
  <2>4. /\ SliceFits(class')
        /\ AsksFit(class'.fan.running, classAsks', classLost)
        /\ AnswersFit(class', classLast, classTime)
    BY <1>1, <2>1, <2>2, <2>3, FlushStep
  <2> QED
    BY <1>1, <1>2, <2>4 DEF ClassInv
<1> QED
  BY <1>3, <1>4

\* A batch settles: its keys leave the line, with the mark of how it went.
LEMMA BatchSettlesPost ==
  ASSUME ClassInv, NEW i \in DOMAIN classAsks, NEW s, NEW status \in {"answered", "failed"},
         s = SliceOf(class.buffer, class.fan, s.cache, s.failed),
         s.cache \in [ClassKeys -> Nat],
         \A l \in ClassKeys : l \notin ToSet(classAsks[i]) => s.cache[l] = class.cache[l],
         status = "failed" => s.cache = class.cache,
         s.failed = IF status = "failed" THEN class.failed \union ToSet(classAsks[i])
                                         ELSE class.failed \ ToSet(classAsks[i]),
         NEW end, NEW r, r = SettledBy(class.fan, classAsks[i], end),
         BatchSettles(i, s, r, status)
  PROVE  ClassInv'
<1>1. /\ LinesFit(class.fan, class.buffer)
      /\ class.cache \in [ClassKeys -> Nat] /\ class.failed \subseteq ClassKeys
      /\ AsksFit(class.fan.running, classAsks, classLost)
      /\ AnswersFit(class, classLast, classTime) /\ classAsks \in Seq(Batch)
      /\ classLast \in [ClassKeys -> Attempts] /\ classTime \in Nat \ {0}
  BY ClassFacts
<1>2. PICK f : f = class.fan
  OBVIOUS
<1>3. PICK buffer : buffer = class.buffer
  OBVIOUS
<1>4. PICK asks : asks = classAsks
  OBVIOUS
<1>5. PICK lost : lost = classLost
  OBVIOUS
<1>6. PICK b : b = classAsks[i]
  OBVIOUS
<1>7. PICK more : more = Joined(RemoveAt(asks, i), r.launch)
  OBVIOUS
<1>8. /\ LinesFit(f, buffer) /\ AsksFit(f.running, asks, lost) /\ i \in DOMAIN asks
      /\ b = asks[i] /\ r = SettledBy(f, b, end)
      /\ more = Joined(RemoveAt(asks, i), r.launch)
  BY <1>1, <1>2, <1>3, <1>4, <1>5, <1>6, <1>7
<1>9. /\ b \in Batch /\ LinesFit(r.s, buffer) /\ AsksFit(r.s.running, more, lost)
      /\ Batched(Line(r.s)) = Batched(Line(f)) \ ToSet(b)
      /\ ToSet(b) \subseteq Batched(Line(f))
  BY <1>8, BatchSettleKeeps
<1>10. /\ class' = [s EXCEPT !.fan = r.s]
       /\ classAsks' = RemoveAt(classAsks, i) \o r.launch
       /\ classLast' = [k \in ClassKeys |->
                          IF k \in ToSet(classAsks[i]) THEN status ELSE classLast[k]]
       /\ classLost' = classLost /\ classTime' = classTime
  BY DEF BatchSettles
<1>11. class' = SliceOf(buffer, r.s, s.cache, s.failed)
  <2>1. PICK cache : cache = s.cache
    OBVIOUS
  <2>2. PICK failed : failed = s.failed
    OBVIOUS
  <2>3. s = SliceOf(buffer, f, cache, failed)
    BY <1>2, <1>3, <2>1, <2>2
  <2>4. class' = SliceOf(buffer, r.s, cache, failed)
    BY <1>10, <2>3 DEF SliceOf
  <2> QED
    BY <2>1, <2>2, <2>4
<1>12. /\ class'.buffer = buffer /\ class'.fan = r.s /\ class'.cache = s.cache
       /\ class'.failed = s.failed
       /\ class' = SliceOf(class'.buffer, class'.fan, class'.cache, class'.failed)
  BY <1>11, SliceParts
<1>13. classAsks' = more
  BY <1>4, <1>7, <1>10 DEF Joined
<1>14. ToSet(b) \subseteq ClassKeys
  BY <1>9, BatchKeys
<1>15. SliceFits(class')
  <2>1. class'.failed \subseteq ClassKeys
    BY <1>1, <1>6, <1>12, <1>14
  <2> QED
    BY <1>9, <1>12, <2>1 DEF SliceFits
<1>16. AsksFit(class'.fan.running, classAsks', classLost')
  BY <1>5, <1>9, <1>10, <1>12, <1>13
<1>17. PICK s2 : s2 = class'
  OBVIOUS
<1>18. PICK B : B = ToSet(b)
  OBVIOUS
<1>19. PICK last2 : last2 = classLast'
  OBVIOUS
<1>20. AnswersFit(s2, last2, classTime) /\ last2 \in [ClassKeys -> Attempts]
  <2>1. PICK now : now = class
    OBVIOUS
  <2>2. PICK last : last = classLast
    OBVIOUS
  <2>3. PICK time : time = classTime
    OBVIOUS
  <2>4. /\ last \in [ClassKeys -> Attempts] /\ time \in Nat /\ AnswersFit(now, last, time)
    BY <1>1, <2>1, <2>2, <2>3
  <2>5. \A l \in B : l \in ClassKeys /\ last[l] = "asked"
    BY <1>2, <1>9, <1>14, <1>18, <2>1, <2>4 DEF AnswersFit
  <2>6. \A l \in B : status = "failed" => now.cache[l] <= time
    BY <2>4, <2>5 DEF AnswersFit
  <2>7. s2.failed = IF status = "failed" THEN now.failed \union B ELSE now.failed \ B
    BY <1>6, <1>12, <1>17, <1>18, <2>1
  <2>8. \A l \in ClassKeys : l \notin B => s2.cache[l] = now.cache[l]
    BY <1>6, <1>12, <1>17, <1>18, <2>1
  <2>9. \A l \in B : status = "failed" => s2.cache[l] = now.cache[l]
    BY <1>12, <1>17, <2>1
  <2>10. last2 = LastOf(last, B, status)
    BY <1>6, <1>10, <1>18, <1>19, <2>2 DEF LastOf
  <2>11. ToSet(buffer) \intersect B = {}
    BY <1>8, <1>9, <1>18 DEF LinesFit
  <2>12. ToSet(s2.buffer) \union Batched(Line(s2.fan))
           = (ToSet(now.buffer) \union Batched(Line(now.fan))) \ B
    <3>1. PICK in : in = Batched(Line(f))
      OBVIOUS
    <3>2. PICK out : out = Batched(Line(r.s))
      OBVIOUS
    <3>3. PICK held : held = ToSet(buffer)
      OBVIOUS
    <3>4. out = in \ B /\ held \intersect B = {}
      BY <1>9, <1>18, <2>11, <3>1, <3>2, <3>3
    <3>5. held \union out = (held \union in) \ B
      BY <3>4
    <3> QED
      BY <1>2, <1>3, <1>12, <1>17, <2>1, <3>1, <3>2, <3>3, <3>5
  <2> QED
    <3>1. MarkedAs(now, s2, B, status, time)
      BY <2>6, <2>7, <2>8, <2>9, <2>12 DEF MarkedAs
    <3>2. AnswersFit(s2, last2, time) /\ last2 \in [ClassKeys -> Attempts]
      BY <2>4, <2>10, <3>1, SettledTold
    <3> QED
      BY <2>3, <3>2
<1> QED
  BY <1>1, <1>10, <1>15, <1>16, <1>17, <1>19, <1>20 DEF ClassInv

\* The keys of a batch that came back well are cached.
LEMMA OnBatchOkPost ==
  ASSUME ClassInv, NEW i \in DOMAIN classAsks, OnBatchOk(i)
  PROVE  ClassInv'
<1>1. /\ class = SliceOf(class.buffer, class.fan, class.cache, class.failed)
      /\ class.cache \in [ClassKeys -> Nat] /\ classTime \in Nat \ {0}
  BY ClassFacts
<1>2. PICK b : b = classAsks[i]
  OBVIOUS
<1>3. PICK cache : cache = [k \in ClassKeys |-> IF k \in ToSet(b)
                                                  THEN classTime + ClassTtl
                                                  ELSE class.cache[k]]
  OBVIOUS
<1>4. PICK failed : failed = class.failed \ ToSet(b)
  OBVIOUS
<1>5. PICK r : r = ItemOk(class.fan, b, ClassWindow, FALSE)
  OBVIOUS
<1>6. PICK s : s = SliceOf(class.buffer, class.fan, cache, failed)
  OBVIOUS
<1>7. BatchSettles(i, s, r, "answered")
  <2>1. s = [class EXCEPT
               !.cache = [k \in ClassKeys |->
                            IF k \in ToSet(b) THEN classTime + ClassTtl ELSE @[k]],
               !.failed = @ \ ToSet(b)]
    <3>1. PICK buffer, f, old, marked : class = SliceOf(buffer, f, old, marked)
      BY <1>1
    <3>2. /\ class.buffer = buffer /\ class.fan = f /\ class.cache = old
          /\ class.failed = marked
      BY <3>1, SliceParts
    <3>3. [class EXCEPT !.cache = cache, !.failed = failed]
            = SliceOf(buffer, f, cache, failed)
      <4>1. PICK mid : mid = [class EXCEPT !.cache = cache]
        OBVIOUS
      <4>2. mid = [buffer |-> buffer, fan |-> f, cache |-> cache, failed |-> marked]
        BY <3>1, <4>1 DEF SliceOf
      <4>3. [mid EXCEPT !.failed = failed] = SliceOf(buffer, f, cache, failed)
        BY <4>2 DEF SliceOf
      <4> QED
        BY <4>1, <4>3
    <3> QED
      BY <1>3, <1>4, <1>6, <3>2, <3>3
  <2> QED
    BY <1>2, <1>5, <2>1 DEF OnBatchOk
<1>8. /\ s.cache = cache /\ s.failed = failed
      /\ s = SliceOf(class.buffer, class.fan, s.cache, s.failed)
  BY <1>6 DEF SliceOf
<1>9. s.cache \in [ClassKeys -> Nat]
  BY <1>1, <1>3, <1>8, ClassAssumption
<1>10. \A l \in ClassKeys : l \notin ToSet(classAsks[i]) => s.cache[l] = class.cache[l]
  BY <1>2, <1>3, <1>8
<1>11. r = SettledBy(class.fan, classAsks[i], "done")
  BY <1>2, <1>5 DEF ItemOk, SettledBy
<1>12. PICK status : status = "answered"
  OBVIOUS
<1>13. /\ status \in {"answered", "failed"} /\ status # "failed"
       /\ s.failed = IF status = "failed" THEN class.failed \union ToSet(classAsks[i])
                                          ELSE class.failed \ ToSet(classAsks[i])
       /\ BatchSettles(i, s, r, status)
  BY <1>2, <1>4, <1>7, <1>8, <1>12
<1> QED
  BY <1>8, <1>9, <1>10, <1>11, <1>13, BatchSettlesPost

\* The keys of a batch that failed are marked.
LEMMA OnBatchErrPost ==
  ASSUME ClassInv, NEW i \in DOMAIN classAsks, OnBatchErr(i)
  PROVE  ClassInv'
<1>1. /\ class = SliceOf(class.buffer, class.fan, class.cache, class.failed)
      /\ class.cache \in [ClassKeys -> Nat] /\ classTime \in Nat \ {0}
      /\ AsksFit(class.fan.running, classAsks, classLost)
  BY ClassFacts
<1>2. PICK b : b = classAsks[i]
  OBVIOUS
<1>3. b \in ToSet(class.fan.running)
  BY <1>1, <1>2 DEF AsksFit, ToSet
<1>4. PICK failed : failed = class.failed \union ToSet(b)
  OBVIOUS
<1>5. PICK r : r = ItemErr(class.fan, b, ClassWindow, FALSE)
  OBVIOUS
<1>6. PICK s : s = SliceOf(class.buffer, class.fan, class.cache, failed)
  OBVIOUS
<1>7. BatchSettles(i, s, r, "failed")
  <2>1. s = [class EXCEPT !.failed = @ \union ToSet(b)]
    <3>1. PICK buffer, f, old, marked : class = SliceOf(buffer, f, old, marked)
      BY <1>1
    <3>2. /\ class.buffer = buffer /\ class.fan = f /\ class.cache = old
          /\ class.failed = marked
      BY <3>1, SliceParts
    <3>3. [class EXCEPT !.failed = failed] = SliceOf(buffer, f, old, failed)
      BY <3>1 DEF SliceOf
    <3> QED
      BY <1>4, <1>6, <3>2, <3>3
  <2> QED
    BY <1>2, <1>3, <1>5, <2>1 DEF OnBatchErr
<1>8. /\ s.cache = class.cache /\ s.failed = failed
      /\ s = SliceOf(class.buffer, class.fan, s.cache, s.failed)
  BY <1>6 DEF SliceOf
<1>9. /\ s.cache \in [ClassKeys -> Nat]
      /\ \A l \in ClassKeys : l \notin ToSet(classAsks[i]) => s.cache[l] = class.cache[l]
  BY <1>1, <1>8
<1>11. r = SettledBy(class.fan, classAsks[i], "failed")
  BY <1>2, <1>5 DEF ItemErr, SettledBy
<1>12. PICK status : status = "failed"
  OBVIOUS
<1>13. /\ status \in {"answered", "failed"} /\ (status = "failed" => s.cache = class.cache)
       /\ s.failed = IF status = "failed" THEN class.failed \union ToSet(classAsks[i])
                                          ELSE class.failed \ ToSet(classAsks[i])
       /\ BatchSettles(i, s, r, status)
  BY <1>2, <1>4, <1>7, <1>8, <1>12
<1> QED
  BY <1>8, <1>9, <1>11, <1>13, BatchSettlesPost

\* Only what has expired is evicted.
LEMMA OnEvictPost ==
  ASSUME ClassInv, OnEvict
  PROVE  ClassInv'
<1>1. /\ class = SliceOf(class.buffer, class.fan, class.cache, class.failed)
      /\ class.cache \in [ClassKeys -> Nat] /\ class.failed \subseteq ClassKeys
      /\ LinesFit(class.fan, class.buffer)
      /\ AsksFit(class.fan.running, classAsks, classLost)
      /\ AnswersFit(class, classLast, classTime)
      /\ classLast \in [ClassKeys -> Attempts] /\ classTime \in Nat \ {0}
  BY ClassFacts
<1>2. PICK cache : cache = [k \in ClassKeys |-> IF classTime >= class.cache[k]
                                                  THEN NotCached ELSE class.cache[k]]
  OBVIOUS
<1>3. class' = SliceOf(class.buffer, class.fan, cache, class.failed)
  BY <1>1, <1>2 DEF OnEvict, SliceOf
<1>4. /\ class'.buffer = class.buffer /\ class'.fan = class.fan /\ class'.cache = cache
      /\ class'.failed = class.failed
      /\ class' = SliceOf(class'.buffer, class'.fan, class'.cache, class'.failed)
  BY <1>3, SliceParts
<1>5. /\ classAsks' = classAsks /\ classLast' = classLast /\ classLost' = classLost
      /\ classTime' = classTime
  BY DEF OnEvict
<1>6. cache \in [ClassKeys -> Nat]
  BY <1>1, <1>2 DEF NotCached
<1>7. \A k \in ClassKeys : class.cache[k] <= classTime => cache[k] <= classTime
  BY <1>1, <1>2 DEF NotCached
<1>8. AnswersFit(class', classLast, classTime)
  <2>1. PICK held : held = ToSet(class.buffer) \union Batched(Line(class.fan))
    OBVIOUS
  <2>2. ToSet(class'.buffer) \union Batched(Line(class'.fan)) = held
    BY <1>4, <2>1
  <2> QED
    BY <1>1, <1>4, <1>7, <2>1, <2>2 DEF AnswersFit
<1>9. SliceFits(class')
  BY <1>1, <1>4, <1>6 DEF SliceFits
<1> QED
  BY <1>1, <1>4, <1>5, <1>8, <1>9 DEF ClassInv

\* The asks of a host that goes down are lost; their batches stay in their places.
LEMMA ClassHostDownPost ==
  ASSUME ClassInv, ClassHostDown
  PROVE  ClassInv'
<1>1. AsksFit(class.fan.running, classAsks, classLost)
  BY ClassFacts
<1>2. /\ class' = class /\ classLast' = classLast /\ classTime' = classTime
      /\ classAsks' = <<>> /\ classLost' = classLost \union Batched(classAsks)
  BY DEF ClassHostDown
<1>3. <<>> \in Seq(Batch)
  OBVIOUS
<1>4. PICK none \in Seq(Batch) : none = <<>>
  BY <1>3
<1>5. Apart(none) /\ Batched(none) = {} /\ ToSet(none) = {}
  BY <1>4 DEF Apart, Batched, ToSet
<1>6. AsksFit(class.fan.running, none, classLost')
  BY <1>1, <1>2, <1>4, <1>5 DEF AsksFit
<1> QED
  BY <1>2, <1>4, <1>6 DEF ClassInv

\* What has expired stays so.
LEMMA ClassTimePost ==
  ASSUME ClassInv, ClassTime
  PROVE  ClassInv'
<1>1. /\ class.cache \in [ClassKeys -> Nat] /\ classTime \in Nat \ {0}
      /\ AnswersFit(class, classLast, classTime)
  BY ClassFacts
<1>2. /\ class' = class /\ classLast' = classLast /\ classTime' = classTime + 1
      /\ classAsks' = classAsks /\ classLost' = classLost
  BY DEF ClassTime
<1>3. PICK later \in Nat \ {0} : later = classTime + 1
  BY <1>1
<1>4. \A k \in ClassKeys : class.cache[k] <= classTime => class.cache[k] <= later
  BY <1>1, <1>3
<1>5. PICK held : held = ToSet(class.buffer) \union Batched(Line(class.fan))
  OBVIOUS
<1>6. AnswersFit(class, classLast, later)
  BY <1>1, <1>4, <1>5 DEF AnswersFit
<1> QED
  BY <1>2, <1>3, <1>6 DEF ClassInv

\* Every step keeps the invariant.
LEMMA ClassStep == ClassInv /\ [ClassNext]_classVars => ClassInv'
<1> SUFFICES ASSUME ClassInv, [ClassNext]_classVars PROVE ClassInv'
  OBVIOUS
<1>1. CASE \E k \in ClassKeys : OfferItem(k)
  BY <1>1, OfferItemPost
<1>2. CASE \E i \in DOMAIN classAsks : OnBatchOk(i) \/ OnBatchErr(i)
  BY <1>2, OnBatchOkPost, OnBatchErrPost
<1>3. CASE ClassWindowRings
  BY <1>3 DEF ClassInv, ClassWindowRings
<1>4. CASE ClassOnWindow
  BY <1>4, ClassOnWindowPost
<1>5. CASE OnEvict
  BY <1>5, OnEvictPost
<1>6. CASE ClassHostDown
  BY <1>6, ClassHostDownPost
<1>7. CASE ClassTime
  BY <1>7, ClassTimePost
<1>8. CASE UNCHANGED classVars
  BY <1>8 DEF ClassInv, classVars
<1> QED
  BY <1>1, <1>2, <1>3, <1>4, <1>5, <1>6, <1>7, <1>8 DEF ClassNext

-----------------------------------------------------------------------------

\* The lots: the running batches, the waiting ones, and the window's buffer.
LEMMA LotsApart ==
  ASSUME NEW f, NEW buffer, LinesFit(f, buffer), NEW line, line = Line(f),
         NEW lots, lots = Append(line, buffer)
  PROVE  \A i, j \in DOMAIN lots :
           IF i = j THEN IsInjective(lots[i])
                    ELSE ToSet(lots[i]) \intersect ToSet(lots[j]) = {}
<1>1. /\ FanFits(f) /\ Apart(line) /\ buffer \in Seq(ClassKeys) /\ IsInjective(buffer)
      /\ ToSet(buffer) \intersect Batched(line) = {}
  BY DEF LinesFit
<1>2. PICK q \in Seq(Batch) : q = f.running
  BY <1>1 DEF FanFits
<1>3. PICK p \in Seq(Batch) : p = f.pending
  BY <1>1 DEF FanFits
<1>4. line = Joined(q, p)
  BY <1>2, <1>3 DEF Line
<1>5. line \in Seq(Batch)
  BY <1>4, JoinPlaces
<1>6. PICK n \in Nat : n = Len(line)
  BY <1>5
<1>7. PICK S : S = Batch \union Seq(ClassKeys)
  OBVIOUS
<1>8. /\ DOMAIN line = 1 .. n /\ DOMAIN lots = 1 .. n + 1
      /\ \A i \in 1 .. n : lots[i] = line[i]
      /\ lots[n + 1] = buffer
  <2>1. line \in Seq(S) /\ buffer \in S
    <3>1. \A i \in 1 .. n : line[i] \in S
      BY <1>5, <1>6, <1>7
    <3> QED
      BY <1>1, <1>5, <1>6, <1>7, <3>1
  <2> QED
    BY <1>6, <2>1
<1>9. ASSUME NEW i \in 1 .. n
      PROVE  lots[i] \in Batch /\ ToSet(lots[i]) \intersect ToSet(buffer) = {}
  <2>1. lots[i] = line[i] /\ line[i] \in Batch
    BY <1>5, <1>6, <1>8
  <2>2. ToSet(line[i]) \subseteq Batched(line)
    BY <1>5, <1>8, InBatched DEF KeyIn
  <2> QED
    BY <1>1, <2>1, <2>2
<1> SUFFICES ASSUME NEW i \in DOMAIN lots, NEW j \in DOMAIN lots
             PROVE  IF i = j THEN IsInjective(lots[i])
                             ELSE ToSet(lots[i]) \intersect ToSet(lots[j]) = {}
  OBVIOUS
<1>11. (i \in 1 .. n \/ i = n + 1) /\ (j \in 1 .. n \/ j = n + 1)
  BY <1>6, <1>8
<1>12. CASE i = j
  BY <1>1, <1>8, <1>9, <1>11, <1>12, BatchKeys
<1>13. CASE i # j
  <2>1. CASE i \in 1 .. n /\ j \in 1 .. n
    <3>1. lots[i] = line[i] /\ lots[j] = line[j]
      BY <1>8, <2>1
    <3>2. \A k : ~(KeyIn(line[i], k) /\ KeyIn(line[j], k))
      BY <1>1, <1>8, <1>13, <2>1 DEF Apart
    <3> QED
      BY <1>13, <3>1, <3>2 DEF KeyIn
  <2>2. CASE i = n + 1 \/ j = n + 1
    BY <1>8, <1>9, <1>11, <1>13, <2>2
  <2> QED
    BY <1>11, <2>1, <2>2
<1> QED
  BY <1>12, <1>13

\* What a key is told follows from where it is held.
LEMMA AnswersTold ==
  ASSUME ClassInv, NEW k \in ClassKeys, NEW answer, answer = AnswerFor(class, k, classTime)
  PROVE  CASE classLast[k] = "never" -> answer = "absent"
           [] classLast[k] = "asked" -> answer = "pending"
           [] classLast[k] = "failed" -> answer = "failed"
           [] classLast[k] = "answered" -> answer \in {"answered", "absent"}
<1>1. /\ class.cache[k] \in Nat /\ classTime \in Nat
      /\ classLast[k] \in {"never", "asked", "failed", "answered"}
      /\ AnswersFit(class, classLast, classTime)
  BY ClassFacts DEF Attempts
<1>2. PICK last : last = classLast[k]
  OBVIOUS
<1>3. /\ k \in InFlight(class) <=> last = "asked"
      /\ k \in class.failed <=> last = "failed"
      /\ last # "answered" => class.cache[k] <= classTime
  BY <1>1, <1>2, InFlightKeys DEF AnswersFit
<1>4. last # "answered" => ~IsAnswered(class, k, classTime)
  BY <1>1, <1>3 DEF IsAnswered
<1>5. answer = IF IsAnswered(class, k, classTime) THEN "answered"
               ELSE IF k \in class.failed THEN "failed"
               ELSE IF k \in InFlight(class) THEN "pending" ELSE "absent"
  BY DEF AnswerFor
<1>6. CASE last = "never"
  BY <1>2, <1>3, <1>4, <1>5, <1>6
<1>7. CASE last = "asked"
  BY <1>2, <1>3, <1>4, <1>5, <1>7
<1>8. CASE last = "failed"
  BY <1>2, <1>3, <1>4, <1>5, <1>8
<1>9. CASE last = "answered"
  BY <1>2, <1>3, <1>5, <1>9
<1> QED
  BY <1>1, <1>2, <1>6, <1>7, <1>8, <1>9

\* The invariant is what the property says.
LEMMA AnswersAreTold == ClassInv => AnswersAreTrue
<1> SUFFICES ASSUME ClassInv PROVE AnswersAreTrue
  OBVIOUS
<1>1. LinesFit(class.fan, class.buffer) /\ AsksFit(class.fan.running, classAsks, classLost)
  BY ClassFacts
<1>2. /\ Len(class.fan.running) <= ClassWindow
      /\ class.fan.pending # <<>> => Len(class.fan.running) = ClassWindow
      /\ Batched(class.fan.running) = Batched(classAsks) \union classLost
  BY <1>1 DEF LinesFit, FanFits, FanFull, AsksFit
<1>3. PICK line : line = Line(class.fan)
  OBVIOUS
<1>4. PICK lots : lots = Append(line, class.buffer)
  OBVIOUS
<1>5. \A i, j \in DOMAIN lots :
        IF i = j THEN IsInjective(lots[i])
                 ELSE ToSet(lots[i]) \intersect ToSet(lots[j]) = {}
  BY <1>1, <1>3, <1>4, LotsApart
<1>6. lots = Append(class.fan.running \o class.fan.pending, class.buffer)
  BY <1>3, <1>4 DEF Line, Joined
<1>7. \A k \in ClassKeys :
        LET answer == AnswerFor(class, k, classTime)
        IN CASE classLast[k] = "never" -> answer = "absent"
             [] classLast[k] = "asked" -> answer = "pending"
             [] classLast[k] = "failed" -> answer = "failed"
             [] classLast[k] = "answered" -> answer \in {"answered", "absent"}
  BY AnswersTold
<1> QED
  BY <1>2, <1>5, <1>6, <1>7 DEF AnswersAreTrue

\* What answerFor tells of a key is what became of its last attempt, and no key is
\* asked about twice at once: the buffer, the waiting batches and the running ones
\* are apart however asks end, windows ring late and the host goes down.
THEOREM AnswersStayTrue == ClassSpec => []AnswersAreTrue
<1>1. ClassInit => ClassInv
  BY ClassStarts
<1>2. ClassInv /\ [ClassNext]_classVars => ClassInv'
  BY ClassStep
<1>3. ClassInv => AnswersAreTrue
  BY AnswersAreTold
<1> QED
  BY <1>1, <1>2, <1>3, PTL DEF ClassSpec
=============================================================================
