--------------------------- MODULE SequenceLemmas ---------------------------
(***************************************************************************)
(* What the proofs about batches, playlists and queues need of naturals    *)
(* and sequences. Induction is stated for a set rather than a predicate    *)
(* (the set of the numbers for which the claim holds), and definition by   *)
(* recursion for a function rather than an operator, so that a proof can   *)
(* cite both like any other fact.                                          *)
(***************************************************************************)
EXTENDS Integers, Sequences, FiniteSets, SequencesExt, TLAPS,
        FiniteSetTheorems, SequenceTheorems

(* A set of naturals with 0 that is closed under successor is all of Nat:  *)
(* otherwise the numbers up to n that are missing from it, each less one,  *)
(* would go into one place less than there are.                            *)
LEMMA SetInduction ==
  ASSUME NEW T, 0 \in T, \A n \in Nat : n \in T => n + 1 \in T
  PROVE  Nat \subseteq T
<1> SUFFICES ASSUME NEW n \in Nat, n \notin T PROVE FALSE
  OBVIOUS
<1> DEFINE S == {m \in 0..n : m \notin T}
           f == [m \in S |-> m - 1]
<1>1. IsFiniteSet(S) /\ n \in S
  <2>1. IsFiniteSet(0..n)
    BY FS_Interval
  <2>2. S \in SUBSET (0..n)
    OBVIOUS
  <2>3. IsFiniteSet(S)
    BY <2>1, <2>2, FS_Subset
  <2>4. QED BY <2>3
<1>2. ASSUME NEW m \in S PROVE m - 1 \in S \ {n}
  <2>1. m \in 0..n /\ m \notin T /\ m # 0
    OBVIOUS
  <2>2. m - 1 \in Nat /\ m = (m - 1) + 1
    BY <2>1
  <2>3. m - 1 \notin T
    BY <2>1, <2>2
  <2>4. QED BY <2>1, <2>2, <2>3
<1>3. f \in [S -> S \ {n}]
  BY <1>2
<1>4. IsFiniteSet(S \ {n}) /\ Cardinality(S \ {n}) = Cardinality(S) - 1
  BY <1>1, FS_RemoveElement
<1>5. Cardinality(S \ {n}) < Cardinality(S)
  BY <1>1, <1>4, FS_CardinalityType
<1>6. \A g \in [S -> S \ {n}] : \E x, y \in S : x # y /\ g[x] = g[y]
  <2> HIDE DEF f, S
  <2>1. QED BY <1>1, <1>4, <1>5, FS_PigeonHole
<1>7. PICK x, y \in S : x # y /\ f[x] = f[y]
  BY <1>3, <1>6
<1>8. QED BY <1>7

(* Induction up to a bound.                                                *)
LEMMA BoundedInduction ==
  ASSUME NEW n \in Nat, NEW T, 0 \in T,
         \A i \in 1..n : i - 1 \in T => i \in T
  PROVE  0..n \subseteq T
<1> DEFINE U == {m \in Nat : m <= n => m \in T}
<1>1. 0 \in U
  OBVIOUS
<1>2. \A m \in Nat : m \in U => m + 1 \in U
  <2> SUFFICES ASSUME NEW m \in Nat, m \in U, m + 1 <= n PROVE m + 1 \in T
    OBVIOUS
  <2>1. m + 1 \in 1..n /\ (m + 1) - 1 = m
    OBVIOUS
  <2>2. m \in T
    OBVIOUS
  <2>3. QED BY <2>1, <2>2
<1>3. Nat \subseteq U
  <2> HIDE DEF U
  <2>1. QED BY <1>1, <1>2, SetInduction
<1>4. QED BY <1>3

(* A set of naturals has a least element.                                  *)
LEMMA LeastNat ==
  ASSUME NEW S \in SUBSET Nat, NEW n \in S
  PROVE  \E m \in S : \A k \in S : m <= k
<1> SUFFICES ASSUME \A m \in S : \E k \in S : ~(m <= k) PROVE FALSE
  OBVIOUS
<1> DEFINE T == {i \in Nat : \A k \in 0..i : k \notin S}
<1>1. 0 \in T
  OBVIOUS
<1>2. ASSUME NEW i \in Nat, i \in T PROVE i + 1 \in T
  <2>1. \A k \in S : i + 1 <= k
    BY <1>2
  <2>2. i + 1 \notin S
    BY <2>1
  <2>3. QED BY <1>2, <2>2
<1>3. Nat \subseteq T
  <2> HIDE DEF T
  <2>1. QED BY <1>1, <1>2, SetInduction
<1>4. QED BY <1>3

(* g makes n steps from base, each from the value before.                  *)
Iterates(g, n, base, step) ==
  g[0] = base /\ \A i \in 1..n : g[i] = step[i][g[i - 1]]

(* Such a function exists.                                                 *)
LEMMA Iteration ==
  ASSUME NEW X, NEW n \in Nat, NEW base \in X, NEW step \in [1..n -> [X -> X]]
  PROVE  \E g \in [0..n -> X] : Iterates(g, n, base, step)
<1> DEFINE Good(g, m) ==
             /\ g \in [0..m -> X]
             /\ g[0] = base
             /\ \A i \in 1..m : g[i] = step[i][g[i - 1]]
           T == {m \in 0..n : \E g : Good(g, m)}
<1>1. 0 \in T
  <2>1. Good([i \in 0..0 |-> base], 0)
    OBVIOUS
  <2> HIDE DEF Good
  <2>2. QED BY <2>1
<1>2. ASSUME NEW m \in 1..n, m - 1 \in T
      PROVE  m \in T
  <2>1. PICK g : Good(g, m - 1)
    BY <1>2
  <2> DEFINE h == [i \in 0..m |-> IF i = m THEN step[m][g[m - 1]] ELSE g[i]]
  <2>2. g[m - 1] \in X
    BY <2>1
  <2>3. step[m][g[m - 1]] \in X
    BY <2>2
  <2>4. h \in [0..m -> X]
    BY <2>1, <2>3
  <2>5. h[0] = base
    BY <2>1
  <2>6. ASSUME NEW i \in 1..m PROVE h[i] = step[i][h[i - 1]]
    <3>1. CASE i = m
      BY <3>1
    <3>2. CASE i # m
      <4>1. i \in 1..(m - 1) /\ i \in 0..m /\ i - 1 \in 0..m /\ i - 1 # m
        BY <3>2
      <4>2. h[i] = g[i] /\ h[i - 1] = g[i - 1]
        BY <3>2, <4>1
      <4>3. g[i] = step[i][g[i - 1]]
        BY <2>1, <4>1
      <4>4. QED BY <4>2, <4>3
    <3>3. QED BY <3>1, <3>2
  <2>7. Good(h, m)
    BY <2>4, <2>5, <2>6
  <2> HIDE DEF Good
  <2>8. QED BY <2>7
<1>3. n \in T
  <2>1. 0..n \subseteq T
    <3> HIDE DEF T
    <3>1. QED BY <1>1, <1>2, BoundedInduction
  <2>2. QED BY <2>1
<1>4. PICK g : Good(g, n)
  BY <1>3
<1>5. QED BY <1>4 DEF Iterates

-----------------------------------------------------------------------------
(* A prefix grows by the next element.                                    *)
LEMMA SubSeqGrows ==
  ASSUME NEW S, NEW s \in Seq(S), NEW m \in 1..Len(s)
  PROVE  Append(SubSeq(s, 1, m - 1), s[m]) = SubSeq(s, 1, m)
<1>1. /\ SubSeq(s, 1, m - 1) \in Seq(S) /\ SubSeq(s, 1, m) \in Seq(S)
      /\ Len(SubSeq(s, 1, m - 1)) = m - 1 /\ Len(SubSeq(s, 1, m)) = m
      /\ s[m] \in S
  OBVIOUS
<1> DEFINE l == Append(SubSeq(s, 1, m - 1), s[m])
<1>2. l \in Seq(S) /\ Len(l) = m
  BY <1>1
<1>3. \A i \in 1..m : l[i] = SubSeq(s, 1, m)[i]
  BY <1>1
<1>4. QED BY <1>1, <1>2, <1>3, SeqEqual

(* A finite set can be listed: SetToSeq names each element once.           *)
LEMMA SetListed ==
  ASSUME NEW S, IsFiniteSet(S)
  PROVE  /\ SetToSeq(S) \in Seq(S)
         /\ Len(SetToSeq(S)) = Cardinality(S)
         /\ \A i, j \in DOMAIN SetToSeq(S) :
              SetToSeq(S)[i] = SetToSeq(S)[j] => i = j
         /\ \A x \in S : \E i \in DOMAIN SetToSeq(S) : SetToSeq(S)[i] = x
<1> DEFINE n == Cardinality(S)
<1>1. n \in Nat /\ ExistsBijection(1..n, S)
  BY FS_CardinalityType
<1>2. PICK f \in [1..n -> S] : \A i, j \in 1..n : f[i] = f[j] => i = j
  BY <1>1 DEF ExistsBijection, Bijection, Injection, IsInjective
<1>3. \E g \in [1..n -> S] : IsInjective(g)
  BY <1>2 DEF IsInjective
<1>4. SetToSeq(S) \in [1..n -> S] /\ IsInjective(SetToSeq(S))
  BY <1>3 DEF SetToSeq
<1>5. \A x \in S : \E i \in 1..n : SetToSeq(S)[i] = x
  <2> DEFINE q == SetToSeq(S)
  <2>1. q \in Injection(1..n, S)
    BY <1>4 DEF Injection
  <2>2. Cardinality(1..n) = n
    BY <1>1, FS_Interval
  <2> HIDE DEF q
  <2>3. q \in Surjection(1..n, S)
    BY <2>1, <2>2, FS_Injection
  <2>4. QED BY <2>3 DEF Surjection, q
<1>6. QED BY <1>1, <1>4, <1>5 DEF IsInjective

=============================================================================
