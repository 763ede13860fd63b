-------------------------- MODULE BatchOperations ---------------------------
(***************************************************************************)
(* A batch under any sequence of push_back and erase.                      *)
(***************************************************************************)
EXTENDS RequestBatch

VARIABLE batch

Init == batch = NewBatch

InBatch == {batch.items[k] : k \in DOMAIN batch.items}

Push(r) == r \notin InBatch /\ batch' = PushBack(batch, r)

EraseItem(i) == i \in DOMAIN batch.items /\ batch' = EraseAt(batch, i)

Next == \/ \E r \in Requests : Push(r)
        \/ \E i \in 1..Cardinality(Requests) : EraseItem(i)

Spec == Init /\ [][Next]_batch

-----------------------------------------------------------------------------
TypeOK ==
  /\ batch.items \in Seq(Requests)
  /\ batch.count \in Nat
  /\ batch.index \in [Requests -> Nat]

(* CountableItems() is the number of countable items in the batch          *)
(* (sbRequestThreadQueue.h:132), and every countable item knows its place  *)
(* among them (sbRequestItem.h:184), whatever was pushed or erased before.  *)
NumberingMatches == CountIsExact(batch) /\ IndexIsPosition(batch)

(* A batch without countable items never claims the type of an item that   *)
(* is gone: Run reads RequestType() to tell a stop request from work.      *)
TypeIsOfAnItem ==
  batch.count = 0 =>
    batch.type \in IF batch.items = <<>> THEN {NotSet}
                   ELSE {TypeOf[r] : r \in InBatch}

=============================================================================
