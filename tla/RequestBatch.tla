---------------------------- MODULE RequestBatch ----------------------------
(***************************************************************************)
(* sbRequestThreadQueue::Batch: an ordered collection of request items     *)
(* that numbers its countable items, counts them and knows their type.     *)
(*                                                                         *)
(* A batch is a record: items, the requests; count, mCountableItems; type, *)
(* mRequestType; and index, the mBatchIndex of each request, which lives   *)
(* in the request and outlasts the batch.                                  *)
(*                                                                         *)
(* insert is a bare list insertion "for copying", and sort cannot be       *)
(* instantiated (std::sort over std::list iterators); nobody calls either, *)
(* and neither is modelled.                                                *)
(***************************************************************************)
EXTENDS Integers, Sequences, FiniteSets, SequencesExt

CONSTANTS
  Requests,    \* the request items
  Countable,   \* those whose GetIsCountable() is true
  TypeOf,      \* GetType() of each
  SystemTypes, \* types up to USER_REQUEST_TYPES
  NotSet       \* REQUEST_TYPE_NOT_SET, a system type

ASSUME RequestAssumption ==
  /\ Countable \subseteq Requests
  /\ DOMAIN TypeOf = Requests
  /\ NotSet \in SystemTypes

NewBatch ==
  [items |-> <<>>, count |-> 0, type |-> NotSet,
   index |-> [r \in Requests |-> 0]]

(* A countable request takes the next index, and its type replaces one     *)
(* that is not the user's.                                                 *)
PushBack(b, r) ==
  IF r \in Countable
  THEN [items |-> Append(b.items, r),
        count |-> b.count + 1,
        type  |-> IF b.type \in SystemTypes THEN TypeOf[r] ELSE b.type,
        index |-> [b.index EXCEPT ![r] = b.count]]
  ELSE [b EXCEPT !.items = Append(@, r),
                 !.type = IF @ = NotSet THEN TypeOf[r] ELSE @]

(* Countable requests at positions i to j.                                 *)
CountableBetween(b, i, j) == {k \in i..j : b.items[k] \in Countable}

(* Mutants of erase: every request is taken off the count, the type is     *)
(* left as it is, nothing is renumbered.                                   *)
CountAnyway(b, i) == b.count - 1
TypeKept(b, i) == b.type
IndexKept(b, i) == b.index

(* erase: a countable request is no longer counted...                      *)
CountWithout(b, i) == IF b.items[i] \in Countable THEN b.count - 1 ELSE b.count

(* ... without countable requests the type is that of the first request... *)
TypeWithout(b, i) ==
  LET items == RemoveAt(b.items, i)
  IN  IF CountWithout(b, i) # 0 THEN b.type
      ELSE IF items = <<>> THEN NotSet ELSE TypeOf[items[1]]

(* ... and the countable ones behind it are numbered from its index on.    *)
IndexWithout(b, i) ==
  LET Behind(r) == {k \in (i + 1)..Len(b.items) : b.items[k] = r}
  IN  [r \in Requests |->
         IF {b.items[i], r} \subseteq Countable /\ Behind(r) # {}
         THEN b.index[b.items[i]]
                + Cardinality(CountableBetween(b, i + 1, Min(Behind(r)) - 1))
         ELSE b.index[r]]

EraseAt(b, i) ==
  [items |-> RemoveAt(b.items, i), count |-> CountWithout(b, i),
   type |-> TypeWithout(b, i), index |-> IndexWithout(b, i)]

(* clear forgets the items and the type, and leaves the count as it is.    *)
Clear(b) == [b EXCEPT !.items = <<>>, !.type = NotSet]

(* The last steps of PopBatch: aBatch.clear() and a push_back each.        *)
Refill(b, requests) ==
  LET filled[n \in 0..Len(requests)] ==
        IF n = 0 THEN Clear(b) ELSE PushBack(filled[n - 1], requests[n])
  IN  filled[Len(requests)]

-----------------------------------------------------------------------------
(* What the class promises: "the countable items contained within the      *)
(* batch", and a zero based "position of the request within the batch"     *)
(* that is "logical ... not physical", as countable items are numbered.    *)
CountIsExact(b) ==
  b.count = Cardinality(CountableBetween(b, 1, Len(b.items)))

IndexIsPosition(b) ==
  \A k \in DOMAIN b.items :
    b.items[k] \in Countable =>
      b.index[b.items[k]] = Cardinality(CountableBetween(b, 1, k - 1))

=============================================================================
