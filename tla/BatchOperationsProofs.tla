----------------------- MODULE BatchOperationsProofs ------------------------
(***************************************************************************)
(* Proofs about a batch under any sequence of push_back and erase, for any *)
(* requests and types: its count and indexes are exact, and a batch        *)
(* without countable items has the type of one of its items.               *)
(*                                                                         *)
(* The numbering is inductive together with the fact that no request is in *)
(* the batch twice. Amount counts the countable requests of a stretch; the *)
(* lemmas say how it splits, and what is left of it when an item is gone.  *)
(***************************************************************************)
EXTENDS BatchOperations, TLAPS, FiniteSetTheorems, SequenceTheorems

Places(s, i, j) == {k \in i..j : s[k] \in Countable}

Amount(s, i, j) == Cardinality(Places(s, i, j))

Kinds == SystemTypes \cup {TypeOf[r] : r \in Requests}

BatchRecord == [items: Seq(Requests), count: Nat, type: Kinds,
                index: [Requests -> Nat]]

(* No request is in the batch twice: each knows one place only.            *)
Distinct(s) == \A i, j \in DOMAIN s : s[i] = s[j] => i = j

IInv ==
  /\ batch \in BatchRecord
  /\ Distinct(batch.items)
  /\ NumberingMatches
  /\ TypeIsOfAnItem

-----------------------------------------------------------------------------
(* The places of a stretch are finitely many.                              *)
LEMMA PlacesFinite ==
  ASSUME NEW s, NEW i \in Int, NEW j \in Int
  PROVE  IsFiniteSet(Places(s, i, j)) /\ Amount(s, i, j) \in Nat
<1>1. IsFiniteSet(i..j)
  BY FS_Interval
<1>2. IsFiniteSet(Places(s, i, j))
  BY <1>1, FS_Subset DEF Places
<1>3. QED BY <1>2, FS_CardinalityType DEF Amount

(* An empty stretch has none.                                              *)
LEMMA AmountEmpty ==
  ASSUME NEW s, NEW i \in Int, NEW j \in Int, j < i
  PROVE  Amount(s, i, j) = 0
<1>1. Places(s, i, j) = {}
  BY DEF Places
<1>2. QED BY <1>1, FS_EmptySet DEF Amount

(* A stretch of one item has one or none.                                  *)
LEMMA AmountOne ==
  ASSUME NEW s, NEW i \in Int
  PROVE  Amount(s, i, i) = IF s[i] \in Countable THEN 1 ELSE 0
<1>1. CASE s[i] \in Countable
  <2>1. Places(s, i, i) = {i}
    BY <1>1 DEF Places
  <2>2. QED BY <1>1, <2>1, FS_Singleton DEF Amount
<1>2. CASE s[i] \notin Countable
  <2>1. Places(s, i, i) = {}
    BY <1>2 DEF Places
  <2>2. QED BY <1>2, <2>1, FS_EmptySet DEF Amount
<1>3. QED BY <1>1, <1>2

(* Two stretches, one behind the other.                                    *)
LEMMA AmountSplits ==
  ASSUME NEW s, NEW i \in Int, NEW j \in Int, NEW k \in Int,
         i <= j + 1, j <= k
  PROVE  Amount(s, i, k) = Amount(s, i, j) + Amount(s, j + 1, k)
<1> DEFINE P == Places(s, i, j)
           Q == Places(s, j + 1, k)
<1>1. /\ IsFiniteSet(P) /\ Cardinality(P) \in Nat
      /\ IsFiniteSet(Q) /\ Cardinality(Q) \in Nat
  BY PlacesFinite DEF Amount
<1>2. Places(s, i, k) = P \cup Q
  BY DEF Places
<1>3. P \cap Q = {}
  BY DEF Places
<1>4. Cardinality(P \cup Q) = Cardinality(P) + Cardinality(Q) - 0
  BY <1>1, <1>3, FS_Union, FS_EmptySet
<1>5. QED BY <1>1, <1>2, <1>4 DEF Amount

(* Stretches that agree on what is countable have as many.                 *)
LEMMA AmountAgrees ==
  ASSUME NEW s, NEW t, NEW i \in Int, NEW j \in Int,
         \A k \in i..j : s[k] = t[k]
  PROVE  Amount(s, i, j) = Amount(t, i, j)
<1>1. Places(s, i, j) = Places(t, i, j)
  BY DEF Places
<1>2. QED BY <1>1 DEF Amount

(* A stretch that has moved up one place has as many.                      *)
LEMMA AmountMoves ==
  ASSUME NEW s, NEW t, NEW i \in Int, NEW j \in Int,
         \A k \in i..j : t[k] = s[k + 1]
  PROVE  Amount(t, i, j) = Amount(s, i + 1, j + 1)
<1> DEFINE P == Places(t, i, j)
           Q == Places(s, i + 1, j + 1)
           f == [k \in P |-> k + 1]
<1>1. IsFiniteSet(P)
  BY PlacesFinite
<1>2. f \in [P -> Q]
  BY DEF Places
<1>3. \A k, l \in P : f[k] = f[l] => k = l
  BY DEF Places
<1>4. \A q \in Q : \E k \in P : f[k] = q
  <2> SUFFICES ASSUME NEW q \in Q PROVE \E k \in P : f[k] = q
    OBVIOUS
  <2>1. q - 1 \in P /\ f[q - 1] = q
    BY DEF Places
  <2>2. QED BY <2>1
<1>5. f \in Bijection(P, Q)
  <2> HIDE DEF P, Q
  <2>1. DOMAIN f = P
    OBVIOUS
  <2> HIDE DEF f
  <2>2. QED
    BY <1>2, <1>3, <1>4, <2>1
       DEF Bijection, Injection, Surjection, IsInjective
<1>6. ExistsBijection(P, Q)
  BY <1>5 DEF ExistsBijection
<1>7. QED BY <1>1, <1>6, FS_Bijection DEF Amount

-----------------------------------------------------------------------------
(* What is left when the item at i is gone.                                *)
LEMMA Removed ==
  ASSUME NEW s \in Seq(Requests), NEW i \in DOMAIN s
  PROVE  /\ RemoveAt(s, i) \in Seq(Requests)
         /\ Len(RemoveAt(s, i)) = Len(s) - 1
         /\ \A k \in 1..(i - 1) : RemoveAt(s, i)[k] = s[k]
         /\ \A k \in i..(Len(s) - 1) : RemoveAt(s, i)[k] = s[k + 1]
<1> DEFINE p == SubSeq(s, 1, i - 1)
           q == SubSeq(s, i + 1, Len(s))
<1>0. /\ i \in 1..Len(s) /\ Len(s) \in Nat
      /\ \A k \in 1..Len(s) : s[k] \in Requests
  OBVIOUS
<1>1. /\ p \in Seq(Requests) /\ Len(p) = i - 1
      /\ \A k \in 1..(i - 1) : p[k] = s[k]
  BY <1>0
<1>2. /\ q \in Seq(Requests) /\ Len(q) = Len(s) - i
      /\ \A k \in 1..(Len(s) - i) : q[k] = s[i + k]
  BY <1>0
<1>3. RemoveAt(s, i) = p \o q
  BY DEF RemoveAt
<1> HIDE DEF p, q
<1>4. /\ p \o q \in Seq(Requests)
      /\ Len(p \o q) = Len(s) - 1
      /\ \A k \in 1..(i - 1) : (p \o q)[k] = p[k]
      /\ \A k \in i..(Len(s) - 1) : (p \o q)[k] = q[k - (i - 1)]
  BY <1>0, <1>1, <1>2
<1>5. \A k \in i..(Len(s) - 1) : q[k - (i - 1)] = s[k + 1]
  BY <1>0, <1>2
<1>6. QED BY <1>1, <1>3, <1>4, <1>5

(* The numbering, in terms of Amount.                                      *)
LEMMA NumberingIs ==
  ASSUME NEW b \in BatchRecord
  PROVE  /\ CountIsExact(b) <=> b.count = Amount(b.items, 1, Len(b.items))
         /\ IndexIsPosition(b) <=>
              \A k \in DOMAIN b.items :
                b.items[k] \in Countable =>
                  b.index[b.items[k]] = Amount(b.items, 1, k - 1)
BY DEF CountIsExact, IndexIsPosition, CountableBetween, Amount, Places

-----------------------------------------------------------------------------
(* push_back keeps a batch a batch, and numbers the request it adds.       *)
LEMMA PushKeeps ==
  ASSUME IInv, NEW r \in Requests, Push(r)
  PROVE  IInv'
<1> DEFINE s == batch.items
           t == Append(s, r)
<1>0. /\ batch \in BatchRecord
      /\ s \in Seq(Requests) /\ Len(s) \in Nat
      /\ batch.count \in Nat
      /\ batch.type \in Kinds
      /\ batch.index \in [Requests -> Nat]
  BY DEF IInv, BatchRecord
<1>1. /\ t \in Seq(Requests) /\ Len(t) = Len(s) + 1
      /\ \A k \in 1..Len(s) : t[k] = s[k]
      /\ t[Len(s) + 1] = r
  BY <1>0
<1>2. \A k \in DOMAIN s : s[k] # r
  BY DEF Push, InBatch
<1>3. /\ batch'.items = t
      /\ batch'.count = IF r \in Countable THEN batch.count + 1
                        ELSE batch.count
      /\ batch'.type = IF r \in Countable
                       THEN IF batch.type \in SystemTypes THEN TypeOf[r]
                            ELSE batch.type
                       ELSE IF batch.type = NotSet THEN TypeOf[r]
                            ELSE batch.type
      /\ batch'.index = IF r \in Countable
                        THEN [batch.index EXCEPT ![r] = batch.count]
                        ELSE batch.index
      /\ batch' = [items |-> batch'.items, count |-> batch'.count,
                   type |-> batch'.type, index |-> batch'.index]
  BY <1>0 DEF Push, PushBack, BatchRecord
<1>4. batch' \in BatchRecord
  <2>1. batch'.count \in Nat /\ batch'.items \in Seq(Requests)
    BY <1>0, <1>1, <1>3
  <2>2. batch'.type \in Kinds
    BY <1>0, <1>3 DEF Kinds
  <2>3. batch'.index \in [Requests -> Nat]
    BY <1>0, <1>3
  <2>4. QED BY <1>3, <2>1, <2>2, <2>3 DEF BatchRecord
<1>5. Distinct(batch.items)'
  BY <1>0, <1>1, <1>2, <1>3 DEF IInv, Distinct
<1>6. /\ batch.count = Amount(s, 1, Len(s))
      /\ \A k \in DOMAIN s :
           s[k] \in Countable => batch.index[s[k]] = Amount(s, 1, k - 1)
  BY <1>0, NumberingIs DEF IInv, NumberingMatches
<1>7. \A k \in 0..Len(s) : Amount(t, 1, k) = Amount(s, 1, k)
  <2> SUFFICES ASSUME NEW k \in 0..Len(s)
               PROVE  Amount(t, 1, k) = Amount(s, 1, k)
    OBVIOUS
  <2>1. \A m \in 1..k : t[m] = s[m]
    BY <1>0, <1>1
  <2> HIDE DEF s, t
  <2>2. QED BY <2>1, AmountAgrees
<1> HIDE DEF s, t
<1>8. batch'.count = Amount(t, 1, Len(t))
  <2>1. Amount(t, 1, Len(t))
          = Amount(t, 1, Len(s)) + Amount(t, Len(s) + 1, Len(s) + 1)
    BY <1>0, <1>1, AmountSplits
  <2>2. Amount(t, Len(s) + 1, Len(s) + 1) = IF r \in Countable THEN 1 ELSE 0
    BY <1>0, <1>1, AmountOne
  <2>3. QED BY <1>0, <1>3, <1>6, <1>7, <2>1, <2>2
<1>9. \A k \in DOMAIN t :
        t[k] \in Countable => batch'.index[t[k]] = Amount(t, 1, k - 1)
  <2> SUFFICES ASSUME NEW k \in 1..Len(t), t[k] \in Countable
               PROVE  batch'.index[t[k]] = Amount(t, 1, k - 1)
    BY <1>1
  <2>1. Amount(t, 1, k - 1) = Amount(s, 1, k - 1)
    BY <1>0, <1>1, <1>7
  <2>2. CASE k \in 1..Len(s)
    <3>1. t[k] = s[k] /\ s[k] # r /\ s[k] \in Requests /\ k \in DOMAIN s
      BY <1>0, <1>1, <1>2, <2>2
    <3>2. batch'.index[s[k]] = batch.index[s[k]]
      BY <1>0, <1>3, <3>1
    <3>3. QED BY <1>6, <2>1, <3>1, <3>2
  <2>3. CASE k = Len(s) + 1
    <3>1. t[k] = r /\ r \in Countable
      BY <1>1, <2>3
    <3>2. batch'.index[r] = batch.count
      BY <1>0, <1>3, <3>1
    <3>3. QED BY <1>0, <1>6, <2>1, <2>3, <3>1, <3>2
  <2>4. QED BY <1>0, <1>1, <2>2, <2>3
<1>10. NumberingMatches'
  <2>1. CountIsExact(batch') /\ IndexIsPosition(batch')
    BY <1>3, <1>4, <1>8, <1>9, NumberingIs
  <2>2. QED BY <2>1 DEF NumberingMatches
<1>11. TypeIsOfAnItem'
  <2> SUFFICES ASSUME batch'.count = 0
               PROVE  batch'.type \in {TypeOf[q] : q \in InBatch'}
    <3>1. t # <<>>
      BY <1>0, <1>1
    <3>2. QED BY <1>3, <3>1 DEF TypeIsOfAnItem
  <2>1. r \notin Countable /\ batch.count = 0
    BY <1>0, <1>3
  <2>2. InBatch \subseteq InBatch' /\ r \in InBatch'
    <3>1. InBatch = {s[k] : k \in 1..Len(s)}
      BY <1>0 DEF InBatch, s
    <3>2. InBatch' = {t[k] : k \in 1..Len(t)}
      BY <1>1, <1>3 DEF InBatch
    <3>3. QED BY <1>0, <1>1, <3>1, <3>2
  <2>3. CASE s = <<>>
    <3>1. batch.type = NotSet
      BY <2>1, <2>3 DEF IInv, TypeIsOfAnItem, s
    <3>2. QED BY <1>3, <2>1, <2>2, <3>1
  <2>4. CASE s # <<>>
    <3>1. batch.type \in {TypeOf[q] : q \in InBatch}
      BY <2>1, <2>4 DEF IInv, TypeIsOfAnItem, s
    <3>2. QED BY <1>3, <2>1, <2>2, <3>1
  <2>5. QED BY <2>3, <2>4
<1>12. QED BY <1>4, <1>5, <1>10, <1>11 DEF IInv

-----------------------------------------------------------------------------
(* What erase leaves of the countable requests up to k: those in front of  *)
(* i, and those behind it, one place further up.                           *)
LEMMA AmountWithout ==
  ASSUME NEW s \in Seq(Requests), NEW i \in DOMAIN s,
         NEW k \in (i - 1)..(Len(s) - 1)
  PROVE  Amount(RemoveAt(s, i), 1, k)
           = Amount(s, 1, i - 1) + Amount(s, i + 1, k + 1)
<1> DEFINE t == RemoveAt(s, i)
<1>0. /\ Len(s) \in Nat /\ i \in 1..Len(s) /\ k \in Int
  OBVIOUS
<1>1. /\ \A m \in 1..(i - 1) : t[m] = s[m]
      /\ \A m \in i..(Len(s) - 1) : t[m] = s[m + 1]
  BY Removed
<1> HIDE DEF t
<1>2. Amount(t, 1, k) = Amount(t, 1, i - 1) + Amount(t, i, k)
  <2>1. Amount(t, 1, k) = Amount(t, 1, i - 1) + Amount(t, (i - 1) + 1, k)
    BY <1>0, AmountSplits
  <2>2. (i - 1) + 1 = i
    BY <1>0
  <2>3. QED BY <2>1, <2>2
<1>3. Amount(t, 1, i - 1) = Amount(s, 1, i - 1)
  BY <1>0, <1>1, AmountAgrees
<1>4. Amount(t, i, k) = Amount(s, i + 1, k + 1)
  BY <1>0, <1>1, AmountMoves
<1>5. QED BY <1>2, <1>3, <1>4 DEF t

(* erase keeps a batch a batch, and renumbers what was behind the request. *)
LEMMA EraseKeeps ==
  ASSUME IInv, NEW i \in DOMAIN batch.items, batch' = EraseAt(batch, i)
  PROVE  IInv'
<1> DEFINE s == batch.items
           t == RemoveAt(s, i)
<1>0. /\ batch \in BatchRecord
      /\ s \in Seq(Requests) /\ Len(s) \in Nat
      /\ i \in 1..Len(s) /\ i \in DOMAIN s
      /\ batch.count \in Nat
      /\ batch.type \in Kinds
      /\ batch.index \in [Requests -> Nat]
      /\ \A k \in 1..Len(s) : s[k] \in Requests
  BY DEF IInv, BatchRecord
<1>1. /\ t \in Seq(Requests) /\ Len(t) = Len(s) - 1
      /\ \A k \in 1..(i - 1) : t[k] = s[k]
      /\ \A k \in i..(Len(s) - 1) : t[k] = s[k + 1]
  BY <1>0, Removed
<1>2. /\ batch'.items = t
      /\ batch'.count = CountWithout(batch, i)
      /\ batch'.type = TypeWithout(batch, i)
      /\ batch'.index = IndexWithout(batch, i)
      /\ batch' = [items |-> batch'.items, count |-> batch'.count,
                   type |-> batch'.type, index |-> batch'.index]
  BY DEF EraseAt
<1>3. Distinct(s)
  BY DEF IInv
<1>4. /\ batch.count = Amount(s, 1, Len(s))
      /\ \A k \in 1..Len(s) :
           s[k] \in Countable => batch.index[s[k]] = Amount(s, 1, k - 1)
  BY <1>0, NumberingIs DEF IInv, NumberingMatches
<1>5. \A k \in (i - 1)..(Len(s) - 1) :
        Amount(t, 1, k) = Amount(s, 1, i - 1) + Amount(s, i + 1, k + 1)
  BY <1>0, AmountWithout
<1>6. CountWithout(batch, i) =
        IF s[i] \in Countable THEN batch.count - 1 ELSE batch.count
  BY DEF CountWithout
<1> HIDE DEF s, t
<1>7. \A k \in i..Len(s) :
        Amount(s, 1, k) = Amount(s, 1, i - 1)
                            + (IF s[i] \in Countable THEN 1 ELSE 0)
                            + Amount(s, i + 1, k)
  <2> SUFFICES ASSUME NEW k \in i..Len(s)
               PROVE  Amount(s, 1, k)
                        = Amount(s, 1, i - 1)
                            + (IF s[i] \in Countable THEN 1 ELSE 0)
                            + Amount(s, i + 1, k)
    OBVIOUS
  <2>1. Amount(s, 1, k) = Amount(s, 1, i) + Amount(s, i + 1, k)
    BY <1>0, AmountSplits
  <2>2. Amount(s, 1, i) = Amount(s, 1, i - 1) + Amount(s, (i - 1) + 1, i)
    BY <1>0, AmountSplits
  <2>3. (i - 1) + 1 = i
    BY <1>0
  <2>4. Amount(s, i, i) = IF s[i] \in Countable THEN 1 ELSE 0
    BY <1>0, AmountOne
  <2>5. QED BY <2>1, <2>2, <2>3, <2>4
<1>8. batch'.count = Amount(t, 1, Len(t)) /\ batch'.count \in Nat
  <2>1. Amount(t, 1, Len(t)) = Amount(s, 1, i - 1) + Amount(s, i + 1, Len(s))
    <3>1. Len(t) \in (i - 1)..(Len(s) - 1) /\ Len(t) + 1 = Len(s)
      BY <1>0, <1>1
    <3>2. QED BY <1>5, <3>1
  <2>2. Amount(s, 1, Len(s)) = Amount(s, 1, i - 1)
                                 + (IF s[i] \in Countable THEN 1 ELSE 0)
                                 + Amount(s, i + 1, Len(s))
    BY <1>0, <1>7
  <2>3. Amount(s, 1, i - 1) \in Nat /\ Amount(s, i + 1, Len(s)) \in Nat
    BY <1>0, PlacesFinite
  <2>4. QED BY <1>2, <1>4, <1>6, <2>1, <2>2, <2>3
<1>9. \A k \in i..(Len(s) - 1) : s[k + 1] \in Countable =>
        IndexWithout(batch, i)[s[k + 1]] =
          IF s[i] \in Countable
          THEN batch.index[s[i]] + Amount(s, i + 1, k)
          ELSE batch.index[s[k + 1]]
  <2> SUFFICES ASSUME NEW k \in i..(Len(s) - 1), s[k + 1] \in Countable
               PROVE  IndexWithout(batch, i)[s[k + 1]] =
                        IF s[i] \in Countable
                        THEN batch.index[s[i]] + Amount(s, i + 1, k)
                        ELSE batch.index[s[k + 1]]
    OBVIOUS
  <2> DEFINE Behind(r) == {m \in (i + 1)..Len(s) : s[m] = r}
  <2>1. Behind(s[k + 1]) = {k + 1}
    BY <1>0, <1>3 DEF Distinct
  <2>2. Min({k + 1}) = k + 1
    BY DEF Min
  <2>3. s[k + 1] \in Requests
    BY <1>0
  <2>4. CountableBetween(batch, i + 1, k) = Places(s, i + 1, k)
    BY DEF CountableBetween, Places, s
  <2>5. IndexWithout(batch, i)[s[k + 1]] =
          IF {s[i], s[k + 1]} \subseteq Countable /\ Behind(s[k + 1]) # {}
          THEN batch.index[s[i]]
                 + Cardinality(CountableBetween(batch, i + 1,
                                                Min(Behind(s[k + 1])) - 1))
          ELSE batch.index[s[k + 1]]
    BY <2>3 DEF IndexWithout, s
  <2>6. Min(Behind(s[k + 1])) - 1 = k /\ Behind(s[k + 1]) # {}
    <3> HIDE DEF Behind
    <3>1. Min(Behind(s[k + 1])) = k + 1
      BY <2>1, <2>2
    <3>2. (k + 1) - 1 = k
      BY <1>0
    <3>3. QED BY <2>1, <3>1, <3>2
  <2> HIDE DEF Behind
  <2>7. QED BY <2>4, <2>5, <2>6 DEF Amount
<1>10. \A k \in 1..(i - 1) :
         IndexWithout(batch, i)[s[k]] = batch.index[s[k]]
  <2> SUFFICES ASSUME NEW k \in 1..(i - 1)
               PROVE  IndexWithout(batch, i)[s[k]] = batch.index[s[k]]
    OBVIOUS
  <2>1. {m \in (i + 1)..Len(s) : s[m] = s[k]} = {}
    BY <1>0, <1>3 DEF Distinct
  <2>2. s[k] \in Requests
    BY <1>0
  <2>3. QED BY <2>1, <2>2 DEF IndexWithout, s
<1>11. batch'.index \in [Requests -> Nat]
  <2> DEFINE Behind(r) == {m \in (i + 1)..Len(s) : s[m] = r}
             Low(r) == Cardinality(CountableBetween(batch, i + 1,
                                                    Min(Behind(r)) - 1))
  <2>1. ASSUME NEW r \in Requests, Behind(r) # {}
        PROVE  Low(r) \in Nat
    <3>1. PICK m \in (i + 1)..Len(s) : s[m] = r
      BY <2>1
    <3>2. Behind(r) = {m}
      BY <1>0, <1>3, <3>1 DEF Distinct
    <3>3. Min({m}) = m
      BY DEF Min
    <3>4. CountableBetween(batch, i + 1, m - 1) = Places(s, i + 1, m - 1)
      BY DEF CountableBetween, Places, s
    <3>5. Amount(s, i + 1, m - 1) \in Nat
      BY <1>0, <3>1, PlacesFinite
    <3> HIDE DEF Behind
    <3>6. QED BY <3>2, <3>3, <3>4, <3>5 DEF Amount
  <2>2. IndexWithout(batch, i) =
          [r \in Requests |->
             IF {s[i], r} \subseteq Countable /\ Behind(r) # {}
             THEN batch.index[s[i]] + Low(r)
             ELSE batch.index[r]]
    BY DEF IndexWithout, s
  <2>3. s[i] \in Requests /\ batch.index[s[i]] \in Nat
    BY <1>0
  <2> HIDE DEF Behind, Low
  <2>4. \A r \in Requests :
          (IF {s[i], r} \subseteq Countable /\ Behind(r) # {}
           THEN batch.index[s[i]] + Low(r) ELSE batch.index[r]) \in Nat
    BY <1>0, <2>1, <2>3
  <2>5. QED BY <1>2, <2>2, <2>4
<1>12. \A k \in 1..Len(t) :
         t[k] \in Countable => batch'.index[t[k]] = Amount(t, 1, k - 1)
  <2> SUFFICES ASSUME NEW k \in 1..Len(t), t[k] \in Countable
               PROVE  batch'.index[t[k]] = Amount(t, 1, k - 1)
    OBVIOUS
  <2>1. CASE k \in 1..(i - 1)
    <3>1. t[k] = s[k] /\ k \in 1..Len(s)
      BY <1>0, <1>1, <2>1
    <3>2. Amount(t, 1, k - 1) = Amount(s, 1, k - 1)
      <4>1. \A m \in 1..(k - 1) : t[m] = s[m]
        BY <1>0, <1>1, <2>1
      <4>2. QED BY <4>1, AmountAgrees
    <3>3. QED BY <1>2, <1>4, <1>10, <2>1, <3>1, <3>2
  <2>2. CASE k \in i..(Len(s) - 1)
    <3>1. t[k] = s[k + 1] /\ s[k + 1] \in Countable /\ k + 1 \in 1..Len(s)
      BY <1>0, <1>1, <2>2
    <3>2. Amount(t, 1, k - 1) = Amount(s, 1, i - 1) + Amount(s, i + 1, k)
      <4>1. k - 1 \in (i - 1)..(Len(s) - 1) /\ (k - 1) + 1 = k
        BY <1>0, <2>2
      <4>2. QED BY <1>5, <4>1
    <3>3. Amount(s, 1, k) = Amount(s, 1, i - 1)
                              + (IF s[i] \in Countable THEN 1 ELSE 0)
                              + Amount(s, i + 1, k)
      BY <1>0, <1>7, <2>2
    <3>4. Amount(s, 1, i - 1) \in Nat /\ Amount(s, i + 1, k) \in Nat
      BY <1>0, <2>2, PlacesFinite
    <3>5. batch.index[s[k + 1]] = Amount(s, 1, k)
      <4>1. (k + 1) - 1 = k
        BY <2>2
      <4>2. QED BY <1>4, <3>1, <4>1
    <3>6. s[i] \in Countable => batch.index[s[i]] = Amount(s, 1, i - 1)
      BY <1>0, <1>4
    <3>7. batch'.index[t[k]] = IF s[i] \in Countable
                               THEN batch.index[s[i]] + Amount(s, i + 1, k)
                               ELSE batch.index[s[k + 1]]
      BY <1>2, <1>9, <2>2, <3>1
    <3>8. CASE s[i] \in Countable
      BY <3>2, <3>6, <3>7, <3>8
    <3>9. CASE s[i] \notin Countable
      BY <3>2, <3>3, <3>4, <3>5, <3>7, <3>9
    <3>10. QED BY <3>8, <3>9
  <2>3. QED BY <1>0, <1>1, <2>1, <2>2
<1>13. batch'.type \in Kinds
  <2>1. NotSet \in Kinds
    BY RequestAssumption DEF Kinds
  <2>2. t # <<>> => TypeOf[t[1]] \in Kinds
    BY <1>1 DEF Kinds
  <2>3. QED BY <1>0, <1>2, <2>1, <2>2 DEF TypeWithout, s, t
<1>14. batch' \in BatchRecord
  BY <1>1, <1>2, <1>8, <1>11, <1>13 DEF BatchRecord
<1>15. Distinct(t)
  <2> SUFFICES ASSUME NEW k \in 1..Len(t), NEW l \in 1..Len(t), t[k] = t[l]
               PROVE  k = l
    BY <1>1 DEF Distinct
  <2> DEFINE from(m) == IF m < i THEN m ELSE m + 1
  <2>1. ASSUME NEW m \in 1..Len(t)
        PROVE  t[m] = s[from(m)] /\ from(m) \in 1..Len(s)
    <3>1. CASE m < i
      <4>1. from(m) = m
        BY <3>1
      <4> HIDE DEF from
      <4>2. m \in 1..Len(s)
        BY <1>0, <1>1
      <4>3. m \in 1..(i - 1)
        BY <1>0, <3>1, <4>2
      <4>4. QED BY <1>1, <4>1, <4>2, <4>3
    <3>2. CASE ~(m < i)
      <4>1. /\ m \in i..(Len(s) - 1) /\ m + 1 \in 1..Len(s)
            /\ from(m) = m + 1
        BY <1>0, <1>1, <3>2
      <4> HIDE DEF from
      <4>2. QED BY <1>1, <4>1
    <3>3. QED BY <3>1, <3>2
  <2>2. from(k) = from(l)
    <3> HIDE DEF from
    <3>1. t[k] = s[from(k)] /\ t[l] = s[from(l)]
          /\ from(k) \in 1..Len(s) /\ from(l) \in 1..Len(s)
      BY <2>1
    <3>2. s[from(k)] = s[from(l)]
      BY <3>1
    <3>3. QED BY <1>0, <1>3, <3>1, <3>2 DEF Distinct
  <2>3. QED BY <1>0, <1>1, <2>2
<1>16. NumberingMatches'
  <2>1. DOMAIN t = 1..Len(t)
    BY <1>1
  <2>2. CountIsExact(batch') /\ IndexIsPosition(batch')
    BY <1>2, <1>8, <1>12, <1>14, <2>1, NumberingIs
  <2>3. QED BY <2>2 DEF NumberingMatches
<1>17. TypeIsOfAnItem'
  <2> SUFFICES ASSUME batch'.count = 0
               PROVE  batch'.type \in IF t = <<>> THEN {NotSet}
                                      ELSE {TypeOf[r] : r \in InBatch'}
    BY <1>2 DEF TypeIsOfAnItem
  <2>1. batch'.type = IF t = <<>> THEN NotSet ELSE TypeOf[t[1]]
    BY <1>2 DEF TypeWithout, t, s
  <2>2. InBatch' = {t[k] : k \in DOMAIN t}
    BY <1>2 DEF InBatch
  <2>3. t # <<>> => 1 \in DOMAIN t
    BY <1>1
  <2>4. QED BY <2>1, <2>2, <2>3
<1>18. QED BY <1>2, <1>14, <1>15, <1>16, <1>17 DEF IInv

-----------------------------------------------------------------------------
(* A batch starts empty, with nothing counted and no type.                 *)
LEMMA InitKeeps == Init => IInv
<1> SUFFICES ASSUME Init PROVE IInv
  OBVIOUS
<1>1. /\ batch = [items |-> <<>>, count |-> 0, type |-> NotSet,
                  index |-> [r \in Requests |-> 0]]
      /\ batch.items = <<>> /\ batch.count = 0 /\ batch.type = NotSet
  BY DEF Init, NewBatch
<1>2. batch \in BatchRecord
  BY <1>1, RequestAssumption DEF BatchRecord, Kinds
<1>3. Amount(<<>>, 1, 0) = 0
  BY AmountEmpty
<1>4. NumberingMatches
  BY <1>1, <1>2, <1>3, NumberingIs DEF NumberingMatches
<1>5. QED BY <1>1, <1>2, <1>4 DEF IInv, Distinct, TypeIsOfAnItem

(* The invariant is inductive.                                             *)
THEOREM Invariance == Spec => []IInv
<1>1. Init => IInv
  BY InitKeeps
<1>2. IInv /\ [Next]_batch => IInv'
  <2> SUFFICES ASSUME IInv, [Next]_batch PROVE IInv'
    OBVIOUS
  <2>1. CASE \E r \in Requests : Push(r)
    BY <2>1, PushKeeps
  <2>2. CASE \E i \in 1..Cardinality(Requests) : EraseItem(i)
    BY <2>2, EraseKeeps DEF EraseItem
  <2>3. CASE UNCHANGED batch
    BY <2>3 DEF IInv, Distinct, NumberingMatches, CountIsExact,
                IndexIsPosition, CountableBetween, TypeIsOfAnItem, InBatch
  <2>4. QED BY <2>1, <2>2, <2>3 DEF Next
<1>3. QED BY <1>1, <1>2, PTL DEF Spec

(* A batch is a batch: requests, a count and an index for each request.    *)
THEOREM TypeCorrect == Spec => []TypeOK
<1>1. IInv => TypeOK
  BY DEF IInv, BatchRecord, TypeOK
<1>2. QED BY <1>1, Invariance, PTL

(* Whatever was pushed and erased before, in whatever order, the count and *)
(* the index of every countable request are exact (erase renumbers exactly *)
(* the requests that have to be).                                          *)
THEOREM NumberingExact == Spec => []NumberingMatches
<1>1. IInv => NumberingMatches
  BY DEF IInv
<1>2. QED BY <1>1, Invariance, PTL

(* Without countable requests the batch has the type of one that is there. *)
THEOREM TypeKnown == Spec => []TypeIsOfAnItem
<1>1. IInv => TypeIsOfAnItem
  BY DEF IInv
<1>2. QED BY <1>1, Invariance, PTL

=============================================================================
