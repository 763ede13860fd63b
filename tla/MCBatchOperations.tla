------------------------- MODULE MCBatchOperations --------------------------
(* Two countable writes, a countable delete, a playlist request and the    *)
(* request that starts the thread.                                         *)
EXTENDS BatchOperations

CONSTANTS w1, w2, d, p, start
CONSTANTS WRITE, DELETE, UPDATE, THREAD_START, NOT_SET

AllRequests == {w1, w2, d, p, start}
CountableRequests == {w1, w2, d}
Types ==
  [r \in AllRequests |->
     IF r \in {w1, w2} THEN WRITE
     ELSE IF r = d THEN DELETE
     ELSE IF r = p THEN UPDATE ELSE THREAD_START]
System == {NOT_SET, THREAD_START}

=============================================================================
