---------------------- MODULE RequestThreadQueueProofs ----------------------
(***************************************************************************)
(* Proofs about RequestThreadQueue, for any set of callers and requests.   *)
(*                                                                         *)
(* IInv is inductive: each action has a lemma, the QED of NextIInv puts    *)
(* them together, and theorems read the type, the abort and the stop       *)
(* properties off IInv.                                                    *)
(*                                                                         *)
(* On top of it: a batch that is open stays whole, the depth is in         *)
(* balance, nothing is processed before the start request, every request   *)
(* has one owner and keeps its turn, and no request is left without        *)
(* notice. Each part has an invariant of its own (BatchInv, LifeInv,       *)
(* OwnerInv, OrderInv, NoticeInv), which is inductive given IInv and those *)
(* before it, one lemma for the actions that matter to it, and one for all *)
(* the others.                                                             *)
(***************************************************************************)
EXTENDS RequestThreadQueue, TLAPS, FiniteSetTheorems

(* Appending an entry for an item keeps the queue well typed.              *)
LEMMA AppendEntry ==
  ASSUME NEW q \in Seq(Entries), NEW r \in Items,
         currentBatchId \in Nat
  PROVE  Append(q, Entry(r)) \in Seq(Entries)
BY DEF Entry, Entries

(* The entries of a queue carry items.                                     *)
LEMMA EntryAt ==
  ASSUME NEW q \in Seq(Entries), NEW i \in 1..Len(q)
  PROVE  q[i] \in Entries /\ q[i].req \in Items
<1>1. q[i] \in Entries
  OBVIOUS
<1>2. QED BY <1>1 DEF Entries

(* What is left of a sequence when its first n elements are taken off.     *)
LEMMA Suffix ==
  ASSUME NEW S, NEW q \in Seq(S), NEW n \in 1..Len(q)
  PROVE  LET p == SubSeq(q, n + 1, Len(q))
         IN  /\ p \in Seq(S)
             /\ Len(p) = Len(q) - n
             /\ \A i \in 1..Len(p) : p[i] = q[n + i]
OBVIOUS

(* Append leaves the elements in place and adds one at the end.            *)
LEMMA QueuedAppend ==
  ASSUME NEW q \in Seq(Entries), NEW e \in Entries
  PROVE  /\ Len(Append(q, e)) = Len(q) + 1
         /\ Append(q, e)[Len(q) + 1] = e
         /\ \A i \in DOMAIN q : Append(q, e)[i] = q[i]
         /\ \A i \in DOMAIN Append(q, e) : i \in DOMAIN q \/ i = Len(q) + 1
OBVIOUS

(* The requests of a queue, in its order, are a sequence of items.         *)
LEMMA RequestsOf ==
  ASSUME NEW q \in Seq(Entries)
  PROVE  [i \in DOMAIN q |-> q[i].req] \in Seq(Items)
<1>1. \A i \in DOMAIN q : q[i].req \in Items
  BY EntryAt
<1>2. QED BY <1>1

(* Start preserves IInv.                                                   *)
LEMMA StartStep == ASSUME IInv, Start PROVE IInv'
<1>. USE DEF IInv, TypeOK, Start, rt, callers, stop
<1>1. QueueType'
  <2>1. CASE abortRequests
    BY <2>1 DEF QueueType
  <2>2. CASE ~abortRequests
    BY <2>2, AppendEntry DEF QueueType, Items
  <2>3. QED BY <2>1, <2>2
<1>2. FlagType'
  BY Zenon DEF FlagType
<1>3. ThreadType'
  BY DEF QueueType, ThreadType
<1>4. CallerType'
  BY DEF CallerType, BoundedCalls
<1>5. (AbortWhileHandling /\ AbortLeavesNothingQueued)'
  BY DEF QueueType, AbortWhileHandling, AbortLeavesNothingQueued, Queued
<1>6. StopIsLast'
  BY ItemAssumption
     DEF Entry, QueueType, StopIsLast, StopPhases, Queued, Ended
<1>7. StopPhases'
  BY ItemAssumption
     DEF Entry, QueueType, FlagType, ThreadType, StopPhases, Queued,
         StopPopped, Ended
<1>8. QED BY <1>1, <1>2, <1>3, <1>4, <1>5, <1>6, <1>7

(* StopBegin preserves IInv.                                               *)
LEMMA StopBeginStep == ASSUME IInv, StopBegin PROVE IInv'
<1>. USE DEF IInv, TypeOK, StopBegin, members, xpcom, rt, callers, history
<1>1. QueueType'
  BY DEF QueueType
<1>2. FlagType'
  BY Zenon DEF FlagType
<1>3. ThreadType'
  BY DEF ThreadType
<1>4. CallerType'
  BY DEF CallerType, BoundedCalls
<1>5. (AbortWhileHandling /\ AbortLeavesNothingQueued)'
  BY DEF AbortWhileHandling, AbortLeavesNothingQueued, Queued
<1>6. StopIsLast'
  BY DEF StopIsLast
<1>7. StopPhases'
  BY DEF StopPhases, Queued, StopPopped, Ended
<1>8. QED BY <1>1, <1>2, <1>3, <1>4, <1>5, <1>6, <1>7

(* StopFlag preserves IInv.                                                *)
LEMMA StopFlagStep == ASSUME IInv, StopFlag PROVE IInv'
<1>. USE DEF IInv, TypeOK, StopFlag, members, xpcom, rt, callers, history
<1>1. QueueType'
  BY DEF QueueType
<1>2. FlagType'
  BY Zenon DEF FlagType
<1>3. ThreadType'
  BY DEF ThreadType
<1>4. CallerType'
  BY DEF CallerType
<1>5. (AbortWhileHandling /\ AbortLeavesNothingQueued)'
  BY DEF AbortWhileHandling, AbortLeavesNothingQueued, Queued
<1>6. StopIsLast'
  BY DEF StopIsLast
<1>7. StopPhases'
  BY DEF StopPhases, Queued, StopPopped, Ended
<1>8. QED BY <1>1, <1>2, <1>3, <1>4, <1>5, <1>6, <1>7

(* StopPushRead preserves IInv.                                            *)
LEMMA StopPushReadStep == ASSUME IInv, StopPushRead PROVE IInv'
<1>. USE DEF IInv, TypeOK, StopPushRead, Entry, members, lifecycle, xpcom, rt,
    callers, history
<1>1. QueueType'
  BY AppendEntry DEF QueueType, Items
<1>2. FlagType'
  BY Zenon DEF FlagType
<1>3. ThreadType'
  BY DEF ThreadType
<1>4. CallerType'
  BY DEF CallerType
<1>5. (AbortWhileHandling /\ AbortLeavesNothingQueued)'
  BY DEF AbortWhileHandling, AbortLeavesNothingQueued, Queued
<1>6. StopIsLast'
  BY DEF StopIsLast
<1>7. StopPhases'
    <2>1. pushed' = Append(queue, Entry(STOP)) /\ Entry(STOP).req = STOP /\
      Entry(STOP) \in Entries
    BY DEF QueueType, Entries, Items
  <2>2. \A i \in DOMAIN pushed' : pushed'[i].req = STOP <=> i = Len(pushed')
    BY <2>1, QueuedAppend DEF QueueType, StopPhases, Queued
  <2>3. pushed' # <<>>
    BY <2>1, QueuedAppend DEF QueueType
  <2>4. QED BY <2>2, <2>3, Zenon DEF StopPhases, Queued, StopPopped, Ended
<1>8. QED BY <1>1, <1>2, <1>3, <1>4, <1>5, <1>6, <1>7

(* StopPushWrite preserves IInv.                                           *)
LEMMA StopPushWriteStep == ASSUME IInv, StopPushWrite PROVE IInv'
<1>. USE DEF IInv, TypeOK, lifecycle, xpcom, rt, callers
<1>. DEFINE stopEntry == pushed[Len(pushed)]
<1>1. /\ stopPC = "write" /\ stopPC' = "dispatch" /\ pushed' = <<>>
      /\ \/ queue' = Append(queue, stopEntry) /\ torn' = torn
         \/ queue' \in {<<>>, pushed} /\ torn' = TRUE
  BY DEF StopPushWrite
<1>2. /\ pushed \in Seq(Entries)
      /\ stopEntry \in Entries
      /\ stopEntry.req = STOP
      /\ \A i \in DOMAIN pushed : pushed[i].req = STOP => i = Len(pushed)
  <2>1. /\ pushed \in Seq(Entries) /\ pushed # <<>>
        /\ \A i \in DOMAIN pushed : pushed[i].req = STOP <=> i = Len(pushed)
    BY <1>1 DEF StopPhases, QueueType
  <2>2. Len(pushed) \in DOMAIN pushed
    BY <2>1
  <2>3. QED BY <2>1, <2>2
<1>3. STOP \notin Queued /\ stopProcessing /\ ~Ended /\ ~threadStarted /\
    ~StopPopped
  BY <1>1 DEF StopPhases, FlagType
<1>4. queue' \in Seq(Entries)
  <2>1. Append(queue, stopEntry) \in Seq(Entries)
    BY <1>2 DEF QueueType
  <2>2. <<>> \in Seq(Entries)
    OBVIOUS
  <2>3. QED BY <1>1, <1>2, <2>1, <2>2
<1>5. QueueType'
  BY <1>1, <1>4 DEF StopPushWrite, QueueType
<1>6. torn' \in BOOLEAN /\ (torn => torn')
  BY <1>1 DEF FlagType
<1>7. FlagType'
  BY <1>6, Zenon DEF StopPushWrite, FlagType
<1>8. ThreadType'
  BY <1>1 DEF StopPushWrite, ThreadType
<1>9. CallerType'
  BY DEF StopPushWrite, CallerType
<1>10. AbortWhileHandling'
  BY DEF StopPushWrite, AbortWhileHandling
<1>11. AbortLeavesNothingQueued'
  <2>1. CASE queue' = Append(queue, stopEntry) /\ torn' = torn
    <3>1. Queued' \subseteq Queued \cup {STOP}
      BY <1>2, <2>1, QueuedAppend DEF QueueType, Queued
    <3>2. QED BY <2>1, <3>1 DEF StopPushWrite, AbortLeavesNothingQueued
  <2>2. CASE torn' = TRUE
    BY <2>2 DEF AbortLeavesNothingQueued
  <2>3. QED BY <1>1, <2>1, <2>2
<1>12. StopIsLast'
  <2>1. CASE queue' = Append(queue, stopEntry)
    BY <1>2, <1>3, <2>1, QueuedAppend DEF QueueType, StopIsLast, Queued
  <2>2. CASE queue' = <<>>
    BY <2>2 DEF StopIsLast
  <2>3. CASE queue' = pushed
    BY <1>2, <2>3 DEF StopIsLast
  <2>4. QED BY <1>1, <2>1, <2>2, <2>3
<1>13. StopPhases'
  BY <1>1, <1>3 DEF StopPushWrite, StopPhases, Ended, StopPopped
<1>14. QED BY <1>5, <1>7, <1>8, <1>9, <1>10, <1>11, <1>12, <1>13

(* StopDispatch preserves IInv.                                            *)
LEMMA StopDispatchStep == ASSUME IInv, StopDispatch PROVE IInv'
<1>. USE DEF IInv, TypeOK, StopDispatch, Dispatched, members, lifecycle, rt,
    callers, history
<1>1. QueueType'
  BY DEF QueueType
<1>2. FlagType'
  BY Zenon DEF FlagType
<1>3. ThreadType'
  BY DEF ThreadType
<1>4. CallerType'
  BY DEF CallerType
<1>5. (AbortWhileHandling /\ AbortLeavesNothingQueued)'
  BY DEF AbortWhileHandling, AbortLeavesNothingQueued, Queued
<1>6. StopIsLast'
  BY DEF StopIsLast
<1>7. StopPhases'
  BY DEF StopPhases, Queued, StopPopped, Ended
<1>8. QED BY <1>1, <1>2, <1>3, <1>4, <1>5, <1>6, <1>7

(* PushRejected preserves IInv.                                            *)
LEMMA PushRejectedStep ==
  ASSUME IInv, NEW c \in Callers, NEW r \in Requests, PushRejected(c, r)
  PROVE  IInv'
<1>. USE DEF IInv, TypeOK, PushRejected, Ready, Stopping, members, lifecycle,
    xpcom, rt, callers, stop
<1>1. QueueType'
  BY DEF QueueType
<1>2. FlagType'
  BY Zenon DEF FlagType
<1>3. ThreadType'
  BY DEF ThreadType
<1>4. CallerType'
  BY DEF CallerType
<1>5. (AbortWhileHandling /\ AbortLeavesNothingQueued)'
  BY DEF AbortWhileHandling, AbortLeavesNothingQueued, Queued
<1>6. StopIsLast'
  BY DEF StopIsLast
<1>7. StopPhases'
  BY DEF StopPhases, Queued, StopPopped, Ended
<1>8. QED BY <1>1, <1>2, <1>3, <1>4, <1>5, <1>6, <1>7

(* PushAccepted preserves IInv.                                            *)
LEMMA PushAcceptedStep ==
  ASSUME IInv, NEW c \in Callers, NEW r \in Requests, PushAccepted(c, r)
  PROVE  IInv'
<1>. USE DEF IInv, TypeOK, PushAccepted, Entry, Ready, Stopping, lifecycle,
    xpcom, rt, stop
<1>1. QueueType'
  BY AppendEntry DEF QueueType, Items
<1>2. FlagType'
  BY Zenon DEF FlagType
<1>3. ThreadType'
  BY DEF ThreadType
<1>4. CallerType'
  BY DEF CallerType
<1>5. (AbortWhileHandling /\ AbortLeavesNothingQueued)'
  BY DEF AbortWhileHandling, AbortLeavesNothingQueued, Queued
<1>6. StopIsLast'
  BY ItemAssumption DEF QueueType, FlagType, StopIsLast, StopPhases, Queued
<1>7. StopPhases'
  <2>1. Entry(r) \in Entries /\ Entry(r).req = r /\ r # STOP
    BY ItemAssumption DEF QueueType, Entries, Items
  <2>2. STOP \notin Queued /\ ~Ended /\ ~StopPopped
    BY DEF StopPhases
  <2>3. STOP \notin Queued'
    BY <2>1, <2>2, QueuedAppend DEF QueueType, Queued
  <2>4. ~StopPopped' /\ ~Ended'
    BY <2>2 DEF StopPopped, Ended
  <2>5. QED BY <2>3, <2>4 DEF StopPhases
<1>8. QED BY <1>1, <1>2, <1>3, <1>4, <1>5, <1>6, <1>7

(* PushNotify preserves IInv.                                              *)
LEMMA PushNotifyStep ==
  ASSUME IInv, NEW c \in Callers, PushNotify(c)
  PROVE  IInv'
<1>. USE DEF IInv, TypeOK, PushNotify, Dispatched, members, lifecycle, rt,
    stop, history
<1>1. QueueType'
  BY DEF QueueType
<1>2. FlagType'
  BY Zenon DEF FlagType
<1>3. ThreadType'
  BY DEF ThreadType
<1>4. CallerType'
  BY DEF CallerType
<1>5. (AbortWhileHandling /\ AbortLeavesNothingQueued)'
  BY DEF AbortWhileHandling, AbortLeavesNothingQueued, Queued
<1>6. StopIsLast'
  BY DEF StopIsLast
<1>7. StopPhases'
  BY DEF StopPhases, Queued, StopPopped, Ended
<1>8. QED BY <1>1, <1>2, <1>3, <1>4, <1>5, <1>6, <1>7

(* BatchBegin preserves IInv.                                              *)
LEMMA BatchBeginStep ==
  ASSUME IInv, NEW c \in Callers, BatchBegin(c)
  PROVE  IInv'
<1>. USE DEF IInv, TypeOK, BatchBegin, Ready, lifecycle, xpcom, rt, stop,
    history
<1>1. QueueType'
  BY DEF QueueType
<1>2. FlagType'
  BY Zenon DEF FlagType
<1>3. ThreadType'
  BY DEF ThreadType
<1>4. CallerType'
  BY DEF CallerType, BoundedCalls
<1>5. (AbortWhileHandling /\ AbortLeavesNothingQueued)'
  BY DEF AbortWhileHandling, AbortLeavesNothingQueued, Queued
<1>6. StopIsLast'
  BY DEF StopIsLast
<1>7. StopPhases'
  BY DEF StopPhases, Queued, StopPopped, Ended
<1>8. QED BY <1>1, <1>2, <1>3, <1>4, <1>5, <1>6, <1>7

(* BatchEnd preserves IInv.                                                *)
LEMMA BatchEndStep == ASSUME IInv, NEW c \in Callers, BatchEnd(c) PROVE IInv'
<1>. USE DEF IInv, TypeOK, BatchEnd, Ready, Dispatched, lifecycle, rt, stop
<1>1. QueueType'
  BY DEF QueueType
<1>2. FlagType'
  BY Zenon DEF FlagType
<1>3. ThreadType'
  BY DEF ThreadType
<1>4. CallerType'
  BY DEF CallerType
<1>5. (AbortWhileHandling /\ AbortLeavesNothingQueued)'
  BY DEF AbortWhileHandling, AbortLeavesNothingQueued, Queued
<1>6. StopIsLast'
  BY DEF StopIsLast
<1>7. StopPhases'
  BY DEF StopPhases, Queued, StopPopped, Ended
<1>8. QED BY <1>1, <1>2, <1>3, <1>4, <1>5, <1>6, <1>7

(* ClearRequests preserves IInv.                                           *)
LEMMA ClearRequestsStep ==
  ASSUME IInv, NEW c \in Callers, ClearRequests(c)
  PROVE  IInv'
<1>. USE DEF IInv, TypeOK, ClearRequests, Ready, TakeQueue, lifecycle, xpcom,
    rt, stop, history
<1>1. QueueType'
  BY DEF QueueType
<1>2. FlagType'
  BY Zenon DEF FlagType
<1>3. ThreadType'
  BY DEF ThreadType
<1>4. CallerType'
  BY RequestsOf DEF QueueType, CallerType, BoundedCalls
<1>5. (AbortWhileHandling /\ AbortLeavesNothingQueued)'
  BY DEF AbortWhileHandling, AbortLeavesNothingQueued, Queued
<1>6. StopIsLast'
  BY DEF StopIsLast
<1>7. StopPhases'
  BY DEF StopPhases, Queued, StopPopped, Ended
<1>8. QED BY <1>1, <1>2, <1>3, <1>4, <1>5, <1>6, <1>7

(* CancelRequests preserves IInv.                                          *)
LEMMA CancelRequestsStep ==
  ASSUME IInv, NEW c \in Callers, CancelRequests(c)
  PROVE  IInv'
<1>. USE DEF IInv, TypeOK, CancelRequests, Ready, TakeQueue, lifecycle, xpcom,
    rt, stop, history
<1>1. QueueType'
  BY DEF QueueType
<1>2. FlagType'
  BY Zenon DEF FlagType
<1>3. ThreadType'
  BY DEF ThreadType
<1>4. CallerType'
  BY RequestsOf DEF QueueType, CallerType, BoundedCalls
<1>5. (AbortWhileHandling /\ AbortLeavesNothingQueued)'
  BY DEF AbortWhileHandling, AbortLeavesNothingQueued, Queued
<1>6. StopIsLast'
  BY DEF StopIsLast
<1>7. StopPhases'
  BY DEF StopPhases, Queued, StopPopped, Ended
<1>8. QED BY <1>1, <1>2, <1>3, <1>4, <1>5, <1>6, <1>7

(* CallerCleanupBatch preserves IInv.                                      *)
LEMMA CallerCleanupBatchStep ==
  ASSUME IInv, NEW c \in Callers, CallerCleanupBatch(c)
  PROVE  IInv'
<1>. USE DEF IInv, TypeOK, CallerCleanupBatch, InCleanup, members, lifecycle,
    xpcom, rt, stop
<1>1. QueueType'
  BY DEF QueueType
<1>2. FlagType'
  BY Zenon DEF FlagType
<1>3. ThreadType'
  BY DEF ThreadType
<1>4. CallerType'
  BY DEF CallerType
<1>5. (AbortWhileHandling /\ AbortLeavesNothingQueued)'
  BY DEF AbortWhileHandling, AbortLeavesNothingQueued, Queued
<1>6. StopIsLast'
  BY DEF StopIsLast
<1>7. StopPhases'
  BY DEF StopPhases, Queued, StopPopped, Ended
<1>8. QED BY <1>1, <1>2, <1>3, <1>4, <1>5, <1>6, <1>7

(* StartRequests preserves IInv.                                           *)
LEMMA StartRequestsStep == ASSUME IInv, StartRequests PROVE IInv'
<1>. USE DEF IInv, TypeOK, StartRequests, lifecycle, callers, stop, history
<1>1. QueueType'
  BY DEF QueueType
<1>2. FlagType'
  BY Zenon DEF FlagType
<1>3. ThreadType'
  BY DEF ThreadType
<1>4. CallerType'
  BY DEF CallerType
<1>5. (AbortWhileHandling /\ AbortLeavesNothingQueued)'
  BY DEF AbortWhileHandling, AbortLeavesNothingQueued, Queued
<1>6. StopIsLast'
  BY DEF StopIsLast
<1>7. StopPhases'
  BY DEF StopPhases, Queued, StopPopped, Ended
<1>8. QED BY <1>1, <1>2, <1>3, <1>4, <1>5, <1>6, <1>7

(* NestedEvent preserves IInv.                                             *)
LEMMA NestedEventStep == ASSUME IInv, NestedEvent PROVE IInv'
<1>. USE DEF IInv, TypeOK, NestedEvent, members, lifecycle, rt, callers, stop,
    history
<1>1. QueueType'
  BY DEF QueueType
<1>2. FlagType'
  BY Zenon DEF FlagType
<1>3. ThreadType'
  BY DEF ThreadType
<1>4. CallerType'
  BY DEF CallerType
<1>5. (AbortWhileHandling /\ AbortLeavesNothingQueued)'
  BY DEF AbortWhileHandling, AbortLeavesNothingQueued, Queued
<1>6. StopIsLast'
  BY DEF StopIsLast
<1>7. StopPhases'
  BY DEF StopPhases, Queued, StopPopped, Ended
<1>8. QED BY <1>1, <1>2, <1>3, <1>4, <1>5, <1>6, <1>7

(* PopBatch preserves IInv.                                                *)
LEMMA PopBatchStep == ASSUME IInv, PopBatch PROVE IInv'
<1>. USE DEF IInv, TypeOK, lifecycle, xpcom, callers, stop, history
<1>1. PICK n \in 1..Len(queue) :
        /\ IsNextBatch(n)
        /\ batch' = [i \in 1..n |-> queue[i].req]
        /\ queue' = SubSeq(queue, n + 1, Len(queue))
  BY DEF PopBatch
<1>2. /\ queue' \in Seq(Entries)
      /\ Len(queue') = Len(queue) - n
      /\ \A i \in 1..Len(queue') : queue'[i] = queue[n + i]
  BY <1>1, Suffix DEF QueueType
<1>3. batch' \in Seq(Items) /\ batch'[1] = queue[1].req
  <2>1. \A i \in 1..n : queue[i].req \in Items
    BY EntryAt DEF QueueType
  <2>2. QED BY <1>1, <2>1
<1>4. Queued' \subseteq Queued
  BY <1>1, <1>2 DEF QueueType, Queued
<1>5. QueueType'
  BY <1>2 DEF PopBatch, QueueType
<1>6. FlagType'
  BY Zenon DEF PopBatch, FlagType
<1>7. ThreadType'
  BY <1>3 DEF PopBatch, ThreadType
<1>8. CallerType'
  BY DEF PopBatch, CallerType
<1>9. (AbortWhileHandling /\ AbortLeavesNothingQueued)'
  BY <1>4 DEF PopBatch, AbortWhileHandling, AbortLeavesNothingQueued
<1>10. StopIsLast'
  BY <1>1, <1>2 DEF QueueType, StopIsLast
<1>11. StopPopped' => STOP \in Queued /\ queue' = <<>>
  <2>. SUFFICES ASSUME queue[1].req = STOP
                PROVE  STOP \in Queued /\ queue' = <<>>
    BY <1>3 DEF StopPopped
  <2>1. STOP \in Queued
    BY <1>1 DEF QueueType, Queued
  <2>2. Len(queue) = 1
    <3>1. 1 \in DOMAIN queue
      BY <1>1 DEF QueueType
    <3>2. QED BY <3>1 DEF StopIsLast
  <2>3. QED BY <1>2, <2>1, <2>2
<1>12. ~StopPopped /\ queue # <<>>
  BY <1>1 DEF PopBatch, StopPopped, QueueType
<1>13. StopPhases'
  BY <1>4, <1>11, <1>12 DEF PopBatch, StopPhases, Ended
<1>14. QED BY <1>5, <1>6, <1>7, <1>8, <1>9, <1>10, <1>13

(* PopNothing preserves IInv.                                              *)
LEMMA PopNothingStep == ASSUME IInv, PopNothing PROVE IInv'
<1>. USE DEF IInv, TypeOK, PopNothing, members, lifecycle, xpcom, callers,
    stop, history
<1>1. QueueType'
  BY DEF QueueType
<1>2. FlagType'
  BY Zenon DEF FlagType
<1>3. ThreadType'
  BY DEF ThreadType
<1>4. CallerType'
  BY DEF CallerType
<1>5. (AbortWhileHandling /\ AbortLeavesNothingQueued)'
  BY DEF AbortWhileHandling, AbortLeavesNothingQueued, Queued
<1>6. StopIsLast'
  BY DEF StopIsLast
<1>7. StopPhases'
  BY DEF StopPhases, Queued, StopPopped, Ended
<1>8. QED BY <1>1, <1>2, <1>3, <1>4, <1>5, <1>6, <1>7

(* ThreadStop preserves IInv.                                              *)
LEMMA ThreadStopStep == ASSUME IInv, ThreadStop PROVE IInv'
<1>. USE DEF IInv, TypeOK, ThreadStop, members, callers, stop, history
<1>1. QueueType'
  BY DEF QueueType
<1>2. FlagType'
  BY Zenon DEF FlagType
<1>3. ThreadType'
  BY DEF ThreadType
<1>4. CallerType'
  BY DEF CallerType
<1>5. (AbortWhileHandling /\ AbortLeavesNothingQueued)'
  BY DEF AbortWhileHandling, AbortLeavesNothingQueued, Queued
<1>6. StopIsLast'
  BY DEF StopIsLast
<1>7. StopPhases'
  <2>1. StopPopped
    BY DEF StopPopped
  <2>2. ~StopPopped'
    BY DEF StopPopped
  <2>3. STOP \notin Queued /\ STOP \notin Queued' /\ thread = "alive"
    BY <2>1 DEF StopPhases, Queued, Ended
    <2>4. ~threadStarted /\ stopProcessing /\ queue = <<>> /\ stopPC \in
      {"none", "dispatch"}
    BY <2>1 DEF StopPhases, ThreadType, FlagType
  <2>5. QED BY <2>2, <2>3, <2>4 DEF StopPhases, Ended
<1>8. QED BY <1>1, <1>2, <1>3, <1>4, <1>5, <1>6, <1>7

(* AbortBatch preserves IInv.                                              *)
LEMMA AbortBatchStep == ASSUME IInv, AbortBatch PROVE IInv'
<1>. USE DEF IInv, TypeOK, AbortBatch, Stopping, lifecycle, xpcom, callers,
    stop, history
<1>1. QueueType'
  BY DEF QueueType
<1>2. FlagType'
  BY Zenon DEF FlagType
<1>3. ThreadType'
  BY DEF ThreadType
<1>4. CallerType'
  BY DEF CallerType
<1>5. (AbortWhileHandling /\ AbortLeavesNothingQueued)'
  BY DEF AbortWhileHandling, AbortLeavesNothingQueued, Queued
<1>6. StopIsLast'
  BY DEF StopIsLast
<1>7. StopPhases'
  BY DEF StopPhases, Queued, StopPopped, Ended
<1>8. QED BY <1>1, <1>2, <1>3, <1>4, <1>5, <1>6, <1>7

(* BeginBatch preserves IInv.                                              *)
LEMMA BeginBatchStep == ASSUME IInv, BeginBatch PROVE IInv'
<1>. USE DEF IInv, TypeOK, BeginBatch, Stopping, members, lifecycle, xpcom,
    callers, stop
<1>1. QueueType'
  BY DEF QueueType
<1>2. FlagType'
  BY Zenon DEF FlagType
<1>3. ThreadType'
  BY DEF ThreadType
<1>4. CallerType'
  BY DEF CallerType
<1>5. (AbortWhileHandling /\ AbortLeavesNothingQueued)'
  BY DEF AbortWhileHandling, AbortLeavesNothingQueued, Queued
<1>6. StopIsLast'
  BY DEF StopIsLast
<1>7. StopPhases'
  BY DEF StopPhases, Queued, StopPopped, Ended
<1>8. QED BY <1>1, <1>2, <1>3, <1>4, <1>5, <1>6, <1>7

(* ProcessItem preserves IInv.                                             *)
LEMMA ProcessItemStep == ASSUME IInv, ProcessItem PROVE IInv'
<1>. USE DEF IInv, TypeOK, ProcessItem, members, lifecycle, xpcom, callers,
    stop
<1>1. QueueType'
  BY DEF QueueType
<1>2. FlagType'
  BY Zenon DEF FlagType
<1>3. ThreadType'
  BY DEF ThreadType
<1>4. CallerType'
  BY DEF CallerType, ThreadType
<1>5. (AbortWhileHandling /\ AbortLeavesNothingQueued)'
  BY DEF AbortWhileHandling, AbortLeavesNothingQueued, Queued
<1>6. StopIsLast'
  BY DEF StopIsLast
<1>7. StopPhases'
  BY DEF StopPhases, Queued, StopPopped, Ended
<1>8. QED BY <1>1, <1>2, <1>3, <1>4, <1>5, <1>6, <1>7

(* ProcessDone preserves IInv.                                             *)
LEMMA ProcessDoneStep == ASSUME IInv, ProcessDone PROVE IInv'
<1>. USE DEF IInv, TypeOK, ProcessDone, members, lifecycle, xpcom, callers,
    stop, history
<1>1. QueueType'
  BY DEF QueueType
<1>2. FlagType'
  BY Zenon DEF FlagType
<1>3. ThreadType'
  BY DEF ThreadType
<1>4. CallerType'
  BY DEF CallerType
<1>5. (AbortWhileHandling /\ AbortLeavesNothingQueued)'
  BY DEF AbortWhileHandling, AbortLeavesNothingQueued, Queued
<1>6. StopIsLast'
  BY DEF StopIsLast
<1>7. StopPhases'
  BY DEF StopPhases, Queued, StopPopped, Ended
<1>8. QED BY <1>1, <1>2, <1>3, <1>4, <1>5, <1>6, <1>7

(* ProcessAborted preserves IInv.                                          *)
LEMMA ProcessAbortedStep == ASSUME IInv, ProcessAborted PROVE IInv'
<1>. USE DEF IInv, TypeOK, ProcessAborted, Stopping, lifecycle, xpcom,
    callers, stop, history
<1>1. QueueType'
  BY DEF QueueType
<1>2. FlagType'
  BY Zenon DEF FlagType
<1>3. ThreadType'
  BY DEF ThreadType
<1>4. CallerType'
  BY DEF CallerType
<1>5. (AbortWhileHandling /\ AbortLeavesNothingQueued)'
  BY DEF AbortWhileHandling, AbortLeavesNothingQueued, Queued
<1>6. StopIsLast'
  BY DEF StopIsLast
<1>7. StopPhases'
  BY DEF StopPhases, Queued, StopPopped, Ended
<1>8. QED BY <1>1, <1>2, <1>3, <1>4, <1>5, <1>6, <1>7

(* ProcessFailed preserves IInv.                                           *)
LEMMA ProcessFailedStep == ASSUME IInv, ProcessFailed PROVE IInv'
<1>. USE DEF IInv, TypeOK, ProcessFailed, members, lifecycle, xpcom, callers,
    stop, history
<1>1. QueueType'
  BY DEF QueueType
<1>2. FlagType'
  BY Zenon DEF FlagType
<1>3. ThreadType'
  BY DEF ThreadType
<1>4. CallerType'
  BY DEF CallerType
<1>5. (AbortWhileHandling /\ AbortLeavesNothingQueued)'
  BY DEF AbortWhileHandling, AbortLeavesNothingQueued, Queued
<1>6. StopIsLast'
  BY DEF StopIsLast
<1>7. StopPhases'
  BY DEF StopPhases, Queued, StopPopped, Ended
<1>8. QED BY <1>1, <1>2, <1>3, <1>4, <1>5, <1>6, <1>7

(* CleanupBatch preserves IInv.                                            *)
LEMMA CleanupBatchStep == ASSUME IInv, CleanupBatch PROVE IInv'
<1>. USE DEF IInv, TypeOK, CleanupBatch, Unprocessed, members, lifecycle,
    xpcom, callers, stop
<1>1. QueueType'
  BY DEF QueueType
<1>2. FlagType'
  BY Zenon DEF FlagType
<1>3. ThreadType'
  BY DEF ThreadType
<1>4. CallerType'
  BY DEF CallerType, ThreadType
<1>5. (AbortWhileHandling /\ AbortLeavesNothingQueued)'
  BY DEF AbortWhileHandling, AbortLeavesNothingQueued, Queued
<1>6. StopIsLast'
  BY DEF StopIsLast
<1>7. StopPhases'
  BY DEF StopPhases, Queued, StopPopped, Ended
<1>8. QED BY <1>1, <1>2, <1>3, <1>4, <1>5, <1>6, <1>7

(* CompleteRequests preserves IInv.                                        *)
LEMMA CompleteRequestsStep == ASSUME IInv, CompleteRequests PROVE IInv'
<1>. USE DEF IInv, TypeOK, CompleteRequests, lifecycle, xpcom, callers, stop,
    history
<1>1. QueueType'
  BY DEF QueueType
<1>2. FlagType'
  BY Zenon DEF FlagType
<1>3. ThreadType'
  BY DEF ThreadType
<1>4. CallerType'
  BY DEF CallerType
<1>5. (AbortWhileHandling /\ AbortLeavesNothingQueued)'
  BY DEF AbortWhileHandling, AbortLeavesNothingQueued, Queued
<1>6. StopIsLast'
  BY DEF StopIsLast
<1>7. StopPhases'
  BY DEF StopPhases, Queued, StopPopped, Ended
<1>8. QED BY <1>1, <1>2, <1>3, <1>4, <1>5, <1>6, <1>7

(* ThreadShutdownAction preserves IInv.                                    *)
LEMMA ThreadShutdownActionStep ==
  ASSUME IInv, ThreadShutdownAction
  PROVE  IInv'
<1>. USE DEF IInv, TypeOK, ThreadShutdownAction, members, lifecycle, rt,
    callers, stop, history
<1>1. QueueType'
  BY DEF QueueType
<1>2. FlagType'
  BY Zenon DEF FlagType
<1>3. ThreadType'
  BY DEF ThreadType
<1>4. CallerType'
  BY DEF CallerType
<1>5. (AbortWhileHandling /\ AbortLeavesNothingQueued)'
  BY DEF AbortWhileHandling, AbortLeavesNothingQueued, Queued
<1>6. StopIsLast'
  BY DEF StopIsLast
<1>7. StopPhases'
  BY DEF StopPhases, Queued, StopPopped, Ended
<1>8. QED BY <1>1, <1>2, <1>3, <1>4, <1>5, <1>6, <1>7

(* ThreadExit preserves IInv.                                              *)
LEMMA ThreadExitStep == ASSUME IInv, ThreadExit PROVE IInv'
<1>. USE DEF IInv, TypeOK, ThreadExit, members, lifecycle, rt, callers, stop,
    history
<1>1. QueueType'
  BY DEF QueueType
<1>2. FlagType'
  BY Zenon DEF FlagType
<1>3. ThreadType'
  BY DEF ThreadType
<1>4. CallerType'
  BY DEF CallerType
<1>5. (AbortWhileHandling /\ AbortLeavesNothingQueued)'
  BY DEF AbortWhileHandling, AbortLeavesNothingQueued, Queued
<1>6. StopIsLast'
  BY DEF StopIsLast
<1>7. StopPhases'
  BY DEF StopPhases, Queued, StopPopped, Ended
<1>8. QED BY <1>1, <1>2, <1>3, <1>4, <1>5, <1>6, <1>7

(* A step that changes nothing preserves IInv.                             *)
LEMMA StutterStep == ASSUME IInv, UNCHANGED vars PROVE IInv'
<1>. USE DEF IInv, vars, members, lifecycle, xpcom, rt, callers, stop, history
<1>1. TypeOK'
  <2>1. QueueType' /\ ThreadType' /\ CallerType'
    BY DEF TypeOK, QueueType, ThreadType, CallerType
  <2>2. FlagType'
    BY Zenon DEF TypeOK, FlagType
  <2>3. QED BY <2>1, <2>2 DEF TypeOK
<1>2. (AbortWhileHandling /\ AbortLeavesNothingQueued /\ StopIsLast)'
  BY DEF AbortWhileHandling, AbortLeavesNothingQueued, StopIsLast, Queued
<1>3. StopPhases'
  BY DEF StopPhases, Queued, StopPopped, Ended
<1>4. QED BY <1>1, <1>2, <1>3

(* IInv holds of a queue just constructed.                                 *)
LEMMA InitIInv == Init => IInv
<1>. SUFFICES ASSUME Init PROVE IInv
  OBVIOUS
<1>. USE DEF Init
<1>1. TypeOK
  <2>1. QueueType /\ ThreadType
    BY DEF QueueType, ThreadType
  <2>2. FlagType
    BY Zenon DEF FlagType
  <2>3. CallerType
    BY DEF CallerType
  <2>4. QED BY <2>1, <2>2, <2>3 DEF TypeOK
<1>2. AbortWhileHandling /\ AbortLeavesNothingQueued /\ StopIsLast
  BY DEF AbortWhileHandling, AbortLeavesNothingQueued, StopIsLast
<1>3. StopPhases
  BY DEF StopPhases, Queued, StopPopped, Ended, BoundedCalls
<1>4. QED BY <1>1, <1>2, <1>3 DEF IInv

(* Every step of the queue, its threads and its callers preserves IInv.    *)
LEMMA NextIInv == IInv /\ [Next]_vars => IInv'
<1>. SUFFICES ASSUME IInv, [Next]_vars PROVE IInv'
  OBVIOUS
<1>1. CASE ControlStep
  BY <1>1, StartStep, StopBeginStep, StopFlagStep, StopPushReadStep,
     StopPushWriteStep, StopDispatchStep
     DEF ControlStep
<1>2. ASSUME NEW c \in Callers, CallerStep(c) PROVE IInv'
  BY <1>2, PushRejectedStep, PushAcceptedStep, PushNotifyStep,
     BatchBeginStep, BatchEndStep, ClearRequestsStep, CancelRequestsStep,
     CallerCleanupBatchStep
     DEF CallerStep, CallerReturns
<1>3. CASE RequestThreadStep
  BY <1>3, StartRequestsStep, NestedEventStep, PopBatchStep, PopNothingStep,
     ThreadStopStep, AbortBatchStep, BeginBatchStep, ProcessItemStep,
     ProcessDoneStep, ProcessAbortedStep, ProcessFailedStep, CleanupBatchStep,
     CompleteRequestsStep
     DEF RequestThreadStep
<1>4. CASE MainThreadStep
  BY <1>4, ThreadShutdownActionStep, ThreadExitStep DEF MainThreadStep
<1>5. CASE UNCHANGED vars
  BY <1>5, StutterStep
<1>6. QED BY <1>1, <1>2, <1>3, <1>4, <1>5 DEF Next

(* IInv holds in every reachable state of sbRequestThreadQueue.            *)
THEOREM Invariance == Spec => []IInv
BY InitIInv, NextIInv, PTL DEF Spec

(* Every member of sbRequestThreadQueue stays in range.                    *)
THEOREM TypeCorrect == Spec => []TypeOK
BY Invariance, PTL DEF IInv

(* mAbortRequests is only ever set while Run is handling requests.         *)
THEOREM AbortContained == Spec => []AbortWhileHandling
BY Invariance, PTL DEF IInv

(* While mAbortRequests is set no request that a caller pushed is queued:  *)
(* an abort hits only what was accepted before the cancel.                 *)
THEOREM AbortFresh == Spec => []AbortLeavesNothingQueued
BY Invariance, PTL DEF IInv

(* REQUEST_THREAD_STOP is the last entry of the queue.                     *)
THEOREM StopOrder == Spec => []StopIsLast
BY Invariance, PTL DEF IInv

(* The request thread is told to end, and ends, with an empty queue.       *)
THEOREM EmptyAtEnd == Spec => []NothingLeftBehind
<1>1. IInv => NothingLeftBehind
  BY DEF IInv, StopPhases, Ended, NothingLeftBehind
<1>2. QED BY Invariance, <1>1, PTL

-----------------------------------------------------------------------------
(* All the actions, by what they do to the queue.                          *)
Takes(c) == ClearRequests(c) \/ CancelRequests(c)

OtherThreadStep ==
  \/ StartRequests \/ NestedEvent \/ PopNothing
  \/ ThreadStop \/ AbortBatch \/ BeginBatch
  \/ ProcessItem \/ ProcessDone \/ ProcessAborted \/ ProcessFailed
  \/ CleanupBatch \/ CompleteRequests

OtherStep ==
  \/ StopBegin \/ StopFlag \/ StopPushRead \/ StopDispatch
  \/ \E c \in Callers : \/ \E r \in Requests : PushRejected(c, r)
                        \/ CallerReturns(c)
  \/ OtherThreadStep \/ MainThreadStep
  \/ UNCHANGED vars

(* Every step is one of those named here, or one of the others.            *)
LEMMA Steps ==
  ASSUME [Next]_vars
  PROVE  \/ Start \/ StopPushWrite
         \/ \E c \in Callers, r \in Requests : PushAccepted(c, r)
         \/ \E c \in Callers : BatchBegin(c) \/ BatchEnd(c) \/ Takes(c)
         \/ PopBatch
         \/ OtherStep
BY DEF Next, ControlStep, CallerStep, RequestThreadStep, OtherStep,
       OtherThreadStep, Takes

(* The others leave the queue, its depth and the callers' batches alone.   *)
LEMMA OtherLeaves ==
  ASSUME IInv, OtherStep
  PROVE  /\ UNCHANGED <<queue, batchDepth, open, window, accepted>>
         /\ \A op \in BoundedCalls \ {"stop"} : calls'[op] = calls[op]
<1>0. calls \in [BoundedCalls -> Nat]
  BY DEF IInv, TypeOK, CallerType
<1>1. CASE StopBegin \/ StopFlag \/ StopPushRead \/ StopDispatch
  BY <1>0, <1>1 DEF StopBegin, StopFlag, StopPushRead, StopDispatch, members,
                    callers, history
<1>2. CASE \E c \in Callers : \/ \E r \in Requests : PushRejected(c, r)
                              \/ CallerReturns(c)
  BY <1>2 DEF PushRejected, CallerReturns, PushNotify, CallerCleanupBatch,
              members, callers, history
<1>3. CASE OtherThreadStep
  BY <1>3 DEF OtherThreadStep, StartRequests, NestedEvent, PopNothing,
              ThreadStop, AbortBatch, BeginBatch, ProcessItem, ProcessDone,
              ProcessAborted, ProcessFailed, CleanupBatch, CompleteRequests,
              members, callers, history
<1>4. CASE MainThreadStep
  BY <1>4 DEF MainThreadStep, ThreadShutdownAction, ThreadExit, members,
              callers, history
<1>5. CASE UNCHANGED vars
  BY <1>5 DEF vars, members, callers, history
<1>6. QED BY <1>1, <1>2, <1>3, <1>4, <1>5 DEF OtherStep

(* Stop's push leaves what is queued, unless it is torn: then nothing was. *)
LEMMA StopPushKeeps ==
  ASSUME IInv, StopPushWrite
  PROVE  Queued \subseteq Queued'
<1>1. queue \in Seq(Entries)
  BY DEF IInv, TypeOK, QueueType
<1>2. PICK e \in Entries : queue' = Append(queue, e) \/ queue = <<>>
  <2>1. pushed \in Seq(Entries) /\ pushed # <<>>
    BY DEF IInv, TypeOK, QueueType, StopPhases, StopPushWrite
  <2>2. pushed[Len(pushed)] \in Entries
    BY <2>1
  <2>3. QED BY <2>2 DEF StopPushWrite
<1>3. CASE queue' = Append(queue, e)
  BY <1>1, <1>3, QueuedAppend DEF Queued
<1>4. CASE queue = <<>>
  BY <1>4 DEF Queued
<1>5. QED BY <1>2, <1>3, <1>4

-----------------------------------------------------------------------------
(***************************************************************************)
(* Batches of the callers.                                                 *)
(***************************************************************************)
Opened == {c \in Callers : open[c]}

(* Without a cancel the depth counts the callers that have a batch open.   *)
DepthCounts ==
  calls["cancel"] = 0
    => IsFiniteSet(Opened) /\ batchDepth = Cardinality(Opened)

BatchInv ==
  /\ DepthCounts
  /\ \A c \in Callers : ~open[c] => window[c] = {}
  /\ OpenBatchIsWhole

(* No batch is open when the depth is 0.                                   *)
LEMMA NoneOpen ==
  ASSUME BatchInv, calls["cancel"] = 0, NEW c \in Callers, open[c]
  PROVE  batchDepth # 0
<1>1. c \in Opened /\ IsFiniteSet(Opened) /\ batchDepth = Cardinality(Opened)
  BY DEF BatchInv, DepthCounts, Opened
<1>2. QED BY <1>1, FS_EmptySet

(* Calls are counted and never forgotten.                                  *)
LEMMA CallsType == ASSUME IInv PROVE calls \in [BoundedCalls -> Nat]
BY DEF IInv, TypeOK, CallerType

(* Opening a batch counts up.                                              *)
LEMMA BatchBeginCounts ==
  ASSUME IInv, BatchInv, NEW c \in Callers, BatchBegin(c)
  PROVE  BatchInv'
<1>0. open \in [Callers -> BOOLEAN] /\ calls \in [BoundedCalls -> Nat]
  BY DEF IInv, TypeOK, CallerType
<1>1. /\ UNCHANGED <<queue, window>> /\ ~open[c]
      /\ open' = [open EXCEPT ![c] = TRUE]
      /\ batchDepth' = batchDepth + 1
      /\ calls'["cancel"] = calls["cancel"]
      /\ calls'["clear"] = calls["clear"]
  BY <1>0 DEF BatchBegin, history, BoundedCalls
<1>2. Opened' = Opened \cup {c} /\ c \notin Opened
  BY <1>0, <1>1 DEF Opened
<1>3. DepthCounts'
  <2> SUFFICES ASSUME calls["cancel"] = 0
               PROVE  /\ IsFiniteSet(Opened')
                      /\ batchDepth' = Cardinality(Opened')
    BY <1>1 DEF DepthCounts
  <2>1. IsFiniteSet(Opened) /\ batchDepth = Cardinality(Opened)
    BY DEF BatchInv, DepthCounts
  <2>2. QED BY <1>1, <1>2, <2>1, FS_AddElement
<1>4. (\A d \in Callers : ~open[d] => window[d] = {})'
  BY <1>0, <1>1 DEF BatchInv
<1>5. OpenBatchIsWhole'
  BY <1>1 DEF BatchInv, OpenBatchIsWhole, Queued
<1>6. QED BY <1>3, <1>4, <1>5 DEF BatchInv

(* Closing a batch counts down.                                            *)
LEMMA BatchEndCounts ==
  ASSUME IInv, BatchInv, NEW c \in Callers, BatchEnd(c)
  PROVE  BatchInv'
<1>0. /\ open \in [Callers -> BOOLEAN]
      /\ window \in [Callers -> SUBSET Requests]
  BY DEF IInv, TypeOK, CallerType
<1>1. /\ UNCHANGED <<queue, calls>> /\ open[c]
      /\ open' = [open EXCEPT ![c] = FALSE]
      /\ window' = [window EXCEPT ![c] = {}]
      /\ batchDepth' = IF batchDepth > 0 THEN batchDepth - 1 ELSE batchDepth
  BY DEF BatchEnd
<1>2. Opened' = Opened \ {c} /\ c \in Opened
  BY <1>0, <1>1 DEF Opened
<1>3. DepthCounts'
  <2> SUFFICES ASSUME calls["cancel"] = 0
               PROVE  /\ IsFiniteSet(Opened')
                      /\ batchDepth' = Cardinality(Opened')
    BY <1>1 DEF DepthCounts
  <2>1. IsFiniteSet(Opened) /\ batchDepth = Cardinality(Opened)
    BY DEF BatchInv, DepthCounts
  <2>2. Cardinality(Opened) \in Nat /\ Cardinality(Opened) # 0
    BY <1>2, <2>1, FS_CardinalityType, FS_EmptySet
  <2>3. IsFiniteSet(Opened') /\ Cardinality(Opened') = Cardinality(Opened) - 1
    BY <1>2, <2>1, FS_RemoveElement
  <2>4. QED BY <1>1, <2>1, <2>2, <2>3
<1>4. (\A d \in Callers : ~open[d] => window[d] = {})'
  BY <1>0, <1>1 DEF BatchInv
<1>5. OpenBatchIsWhole'
  BY <1>0, <1>1 DEF BatchInv, OpenBatchIsWhole, Queued
<1>6. QED BY <1>3, <1>4, <1>5 DEF BatchInv

(* A push adds a request to the queue and to the window of its caller.     *)
LEMMA PushStaysWhole ==
  ASSUME IInv, BatchInv, NEW c \in Callers, NEW r \in Requests,
         PushAccepted(c, r)
  PROVE  BatchInv'
<1>0. /\ queue \in Seq(Entries) /\ Entry(r) \in Entries
      /\ window \in [Callers -> SUBSET Requests]
  BY DEF IInv, TypeOK, QueueType, CallerType, Entry, Entries, Items
<1>1. /\ UNCHANGED <<open, batchDepth, calls>>
      /\ queue' = Append(queue, Entry(r))
      /\ window' = [window EXCEPT ![c] = IF open[c] THEN @ \cup {r} ELSE @]
  BY DEF PushAccepted
<1>2. Queued \subseteq Queued' /\ r \in Queued'
  BY <1>0, <1>1, QueuedAppend DEF Queued, Entry
<1>3. DepthCounts'
  BY <1>1 DEF BatchInv, DepthCounts, Opened
<1>4. (\A d \in Callers : ~open[d] => window[d] = {})'
  BY <1>0, <1>1 DEF BatchInv
<1>5. OpenBatchIsWhole'
  BY <1>0, <1>1, <1>2 DEF BatchInv, OpenBatchIsWhole
<1>6. QED BY <1>3, <1>4, <1>5 DEF BatchInv

(* Taking the queue ends the promise.                                      *)
LEMMA TakeCounts ==
  ASSUME IInv, BatchInv, NEW c \in Callers, Takes(c)
  PROVE  BatchInv'
<1>0. calls \in [BoundedCalls -> Nat]
  BY CallsType
<1>1. UNCHANGED <<open, window>>
  BY DEF Takes, ClearRequests, CancelRequests, history
<1>2. /\ calls'["cancel"] \in Nat /\ calls'["clear"] \in Nat
      /\ calls'["cancel"] + calls'["clear"] # 0
      /\ calls'["cancel"] = 0 => calls["cancel"] = 0
                                   /\ batchDepth' = batchDepth
  BY <1>0 DEF Takes, ClearRequests, CancelRequests, BoundedCalls
<1>3. QED BY <1>1, <1>2 DEF BatchInv, DepthCounts, OpenBatchIsWhole, Opened

(* A pop finds no batch open, so no window to break.                       *)
LEMMA PopFindsNoneOpen ==
  ASSUME IInv, BatchInv, PopBatch
  PROVE  BatchInv'
<1>0. calls \in [BoundedCalls -> Nat]
  BY CallsType
<1>1. UNCHANGED <<open, window, batchDepth, calls>> /\ batchDepth = 0
  BY DEF PopBatch, callers, history
<1>2. ASSUME calls["cancel"] + calls["clear"] = 0, NEW c \in Callers
      PROVE  window[c] = {}
  <2>1. calls["cancel"] = 0
    BY <1>0, <1>2 DEF BoundedCalls
  <2>2. QED BY <1>1, <2>1, NoneOpen DEF BatchInv
<1>3. OpenBatchIsWhole'
  BY <1>1, <1>2 DEF OpenBatchIsWhole
<1>4. QED BY <1>1, <1>3 DEF BatchInv, DepthCounts, Opened

(* BatchInv is inductive.                                                  *)
LEMMA BatchStep == IInv /\ BatchInv /\ [Next]_vars => BatchInv'
<1> SUFFICES ASSUME IInv, BatchInv, [Next]_vars PROVE BatchInv'
  OBVIOUS
<1>0. calls \in [BoundedCalls -> Nat]
  BY CallsType
<1>1. ASSUME UNCHANGED <<open, window, batchDepth>>, Queued \subseteq Queued',
             calls'["cancel"] = calls["cancel"],
             calls'["clear"] = calls["clear"]
      PROVE  BatchInv'
  BY <1>1 DEF BatchInv, DepthCounts, Opened, OpenBatchIsWhole
<1>2. CASE Start
  <2>1. queue \in Seq(Entries) /\ Entry(START) \in Entries
    BY DEF IInv, TypeOK, QueueType, Entry, Entries, Items
  <2>2. Queued \subseteq Queued'
    BY <1>2, <2>1, QueuedAppend DEF Start, Queued
  <2>3. QED BY <1>0, <1>1, <1>2, <2>2 DEF Start, callers, BoundedCalls
<1>3. CASE StopPushWrite
  BY <1>1, <1>3, StopPushKeeps DEF StopPushWrite, callers
<1>4. CASE OtherStep
  BY <1>1, <1>4, OtherLeaves DEF Queued, BoundedCalls
<1>5. QED BY <1>2, <1>3, <1>4, Steps, PushStaysWhole, BatchBeginCounts,
             BatchEndCounts, TakeCounts, PopFindsNoneOpen

(* BatchInv holds in every reachable state.                                *)
LEMMA BatchInvariance == Spec => []BatchInv
<1>1. Init => BatchInv
  BY FS_EmptySet DEF Init, BatchInv, DepthCounts, Opened, OpenBatchIsWhole,
                     BoundedCalls
<1>2. QED BY <1>1, BatchStep, Invariance, PTL DEF Spec

-----------------------------------------------------------------------------
(***************************************************************************)
(* The life of a request thread, and what comes first in it.               *)
(***************************************************************************)

(* There is no batch but between a pop and its cleanup; a batch whose      *)
(* first request is not countable is that request alone.                   *)
BatchShape ==
  /\ rtPC \in {"idle", "pop", "complete"} => batch = <<>>
  /\ rtPC \in {"idle", "pop", "check", "complete"} => done = 0
  /\ rtPC = "check" => /\ batch # <<>>
                       /\ batch[1] \notin Countable => Len(batch) = 1
  /\ done <= Len(batch)

LifeInv ==
  /\ thread = "none" => rtPC = "idle" /\ events = 0
  /\ calls["start"] = 0 => thread = "none"
  /\ calls["cancel"] = 0 => ~abortRequests
  /\ BatchShape

(* The start request is in front of the queue, or about to begin.          *)
StartInFront ==
  \/ /\ queue # <<>> /\ queue[1].req = START
     /\ rtPC \in {"idle", "pop", "complete"}
  \/ rtPC = "check" /\ batch[1] = START

ReadyInv ==
  calls["cancel"] + calls["clear"] = 0
    => /\ rtPC = "process" => threadReady
       /\ (~threadReady /\ ~stopProcessing /\ calls["start"] > 0)
            => StartInFront

(* What a pop takes, and what it leaves.                                   *)
LEMMA Popped ==
  ASSUME IInv, PopBatch
  PROVE  \E n \in 1..Len(queue) :
           /\ IsNextBatch(n)
           /\ batch' = [i \in 1..n |-> queue[i].req]
           /\ batch' \in Seq(Items) /\ Len(batch') = n
           /\ queue' \in Seq(Entries) /\ Len(queue') = Len(queue) - n
           /\ \A i \in 1..Len(queue') : queue'[i] = queue[n + i]
<1>1. PICK n \in 1..Len(queue) :
        /\ IsNextBatch(n)
        /\ batch' = [i \in 1..n |-> queue[i].req]
        /\ queue' = SubSeq(queue, n + 1, Len(queue))
  BY DEF PopBatch
<1>2. queue \in Seq(Entries)
  BY DEF IInv, TypeOK, QueueType
<1>3. \A i \in 1..n : queue[i].req \in Items
  BY <1>2, EntryAt
<1>4. batch' \in Seq(Items) /\ Len(batch') = n
  BY <1>1, <1>3
<1>5. QED BY <1>1, <1>2, <1>4, Suffix

(* A pop gives the thread a batch of the right shape.                      *)
LEMMA PopLife == IInv /\ LifeInv /\ PopBatch => LifeInv'
<1> SUFFICES ASSUME IInv, LifeInv, PopBatch PROVE LifeInv'
  OBVIOUS
<1>1. PICK n \in 1..Len(queue) :
        /\ IsNextBatch(n)
        /\ batch' = [i \in 1..n |-> queue[i].req]
        /\ Len(batch') = n /\ batch' \in Seq(Items)
  BY Popped
<1>2. batch' # <<>> /\ (batch'[1] \notin Countable => n = 1)
  BY <1>1 DEF IsNextBatch
<1>3. /\ rtPC = "pop" /\ rtPC' = "check"
      /\ UNCHANGED <<done, thread, events, calls, abortRequests>>
  BY DEF PopBatch, xpcom
<1>4. BatchShape'
  <2>1. done = 0 /\ done' = 0
    BY <1>3 DEF LifeInv, BatchShape
  <2>2. Len(batch') = n /\ n \in Nat
    BY <1>1
  <2>3. QED BY <1>2, <1>3, <2>1, <2>2 DEF BatchShape
<1>5. QED BY <1>3, <1>4 DEF LifeInv

(* The thread's own steps keep it.                                         *)
LEMMA ThreadLife == IInv /\ LifeInv /\ OtherThreadStep => LifeInv'
<1> SUFFICES ASSUME IInv, LifeInv, OtherThreadStep PROVE LifeInv'
  OBVIOUS
<1> USE DEF LifeInv, BatchShape, members, lifecycle, xpcom, rt, callers, stop
<1>0. /\ batch \in Seq(Items) /\ done \in Nat /\ events \in Nat
      /\ thread \in {"none", "alive", "joining"}
  BY DEF IInv, TypeOK, ThreadType
<1>1. CASE StartRequests
  BY <1>0, <1>1 DEF StartRequests
<1>2. CASE NestedEvent
  BY <1>0, <1>2 DEF NestedEvent
<1>3. CASE PopNothing
  BY <1>3 DEF PopNothing
<1>4. CASE ThreadStop
  BY <1>4 DEF ThreadStop
<1>5. CASE AbortBatch
  BY <1>5 DEF AbortBatch
<1>6. CASE BeginBatch
  BY <1>6 DEF BeginBatch
<1>7. CASE ProcessItem
  BY <1>0, <1>7 DEF ProcessItem
<1>8. CASE ProcessDone
  BY <1>8 DEF ProcessDone
<1>9. CASE ProcessAborted
  BY <1>9 DEF ProcessAborted
<1>10. CASE ProcessFailed
  BY <1>10 DEF ProcessFailed
<1>11. CASE CleanupBatch
  BY <1>11 DEF CleanupBatch
<1>12. CASE CompleteRequests
  BY <1>12 DEF CompleteRequests
<1>13. QED BY <1>1, <1>2, <1>3, <1>4, <1>5, <1>6, <1>7, <1>8, <1>9, <1>10,
              <1>11, <1>12 DEF OtherThreadStep

(* LifeInv is inductive.                                                   *)
LEMMA LifeStep == IInv /\ LifeInv /\ [Next]_vars => LifeInv'
<1> SUFFICES ASSUME IInv, LifeInv, [Next]_vars PROVE LifeInv'
  OBVIOUS
<1>0. /\ calls \in [BoundedCalls -> Nat] /\ events \in Nat
      /\ calls' \in [BoundedCalls -> Nat] => calls'["start"] \in Nat
  BY DEF IInv, TypeOK, CallerType, ThreadType, BoundedCalls
<1> USE DEF LifeInv, BatchShape, members, lifecycle, xpcom, rt, callers, stop
<1>1. CASE Start
  BY <1>0, <1>1 DEF Start, BoundedCalls
<1>2. CASE StopPushWrite
  BY <1>2 DEF StopPushWrite
<1>3. CASE \E c \in Callers, r \in Requests : PushAccepted(c, r)
  BY <1>3 DEF PushAccepted
<1>4. CASE \E c \in Callers : BatchBegin(c)
  BY <1>0, <1>4 DEF BatchBegin, BoundedCalls
<1>5. CASE \E c \in Callers : BatchEnd(c)
  BY <1>0, <1>5 DEF BatchEnd, Dispatched
<1>6. CASE \E c \in Callers : Takes(c)
  BY <1>0, <1>6 DEF Takes, ClearRequests, CancelRequests, BoundedCalls
<1>7. CASE PopBatch
  BY <1>7, PopLife
<1>8. CASE OtherStep
  <2>1. CASE StopBegin \/ StopFlag \/ StopPushRead \/ StopDispatch
    BY <1>0, <2>1 DEF StopBegin, StopFlag, StopPushRead, StopDispatch,
                      Dispatched, BoundedCalls
  <2>2. CASE \E c \in Callers : \/ \E r \in Requests : PushRejected(c, r)
                                \/ CallerReturns(c)
    BY <1>0, <2>2 DEF PushRejected, CallerReturns, PushNotify,
                      CallerCleanupBatch, Dispatched
  <2>3. CASE OtherThreadStep
    BY <2>3, ThreadLife
  <2>4. CASE MainThreadStep
    BY <2>4 DEF MainThreadStep, ThreadShutdownAction, ThreadExit, StopPhases,
                IInv, Ended
  <2>5. CASE UNCHANGED vars
    BY <2>5 DEF vars
  <2>6. QED BY <1>8, <2>1, <2>2, <2>3, <2>4, <2>5 DEF OtherStep
<1>9. QED BY <1>1, <1>2, <1>3, <1>4, <1>5, <1>6, <1>7, <1>8, Steps

(* LifeInv holds in every reachable state.                                 *)
LEMMA LifeInvariance == Spec => []LifeInv
<1>1. Init => LifeInv
  BY DEF Init, LifeInv, BatchShape, BoundedCalls
<1>2. QED BY <1>1, LifeStep, Invariance, PTL DEF Spec

(* A thread that has not begun finds its start request in front.           *)
LEMMA StartReady == IInv /\ LifeInv /\ Start => ReadyInv'
<1> SUFFICES ASSUME IInv, LifeInv, Start PROVE ReadyInv'
  OBVIOUS
<1>1. rtPC' = "idle"
  BY DEF Start, LifeInv, rt
<1>2. queue = <<>> /\ calls \in [BoundedCalls -> Nat]
  BY DEF IInv, TypeOK, CallerType, StopPhases, Ended, Start
<1>3. ASSUME calls'["cancel"] + calls'["clear"] = 0
      PROVE  queue' # <<>> /\ queue'[1].req = START
  <2>1. calls["cancel"] = 0
    BY <1>2, <1>3 DEF Start, BoundedCalls
  <2>2. queue' = Append(<<>>, Entry(START))
    BY <1>2, <2>1 DEF Start, LifeInv
  <2>3. QED BY <2>2 DEF Entry
<1>4. QED BY <1>1, <1>3 DEF ReadyInv, StartInFront

(* A pop turns the start request in front into the batch at hand.          *)
LEMMA PopReady == IInv /\ LifeInv /\ ReadyInv /\ PopBatch => ReadyInv'
<1> SUFFICES ASSUME IInv, LifeInv, ReadyInv, PopBatch PROVE ReadyInv'
  OBVIOUS
<1>1. PICK n \in 1..Len(queue) :
        IsNextBatch(n) /\ batch' = [i \in 1..n |-> queue[i].req]
  BY Popped
<1>2. batch'[1] = queue[1].req
  BY <1>1
<1>3. /\ rtPC = "pop" /\ rtPC' = "check"
      /\ UNCHANGED <<calls, threadReady, stopProcessing>>
  BY DEF PopBatch, lifecycle, history
<1>4. QED BY <1>2, <1>3 DEF ReadyInv, StartInFront

(* The thread's own steps: only OnThreadStart lets it process.             *)
LEMMA ThreadReady ==
  IInv /\ LifeInv /\ ReadyInv /\ OtherThreadStep => ReadyInv'
<1> SUFFICES ASSUME IInv, LifeInv, ReadyInv, OtherThreadStep PROVE ReadyInv'
  OBVIOUS
<1>0. /\ calls \in [BoundedCalls -> Nat]
      /\ calls["cancel"] + calls["clear"] = 0 => ~abortRequests
      /\ rtPC # "idle" => calls["start"] > 0
  BY CallsType DEF LifeInv, BoundedCalls
<1> USE DEF ReadyInv, StartInFront, members, lifecycle, xpcom, rt, callers,
            stop, history
<1>1. CASE StartRequests
  BY <1>1 DEF StartRequests
<1>2. CASE NestedEvent
  BY <1>2 DEF NestedEvent
<1>3. CASE PopNothing
  BY <1>3 DEF PopNothing
<1>4. CASE ThreadStop
  BY <1>4, ItemAssumption DEF ThreadStop
<1>5. CASE AbortBatch
  BY <1>0, <1>5 DEF AbortBatch, Stopping
<1>6. CASE BeginBatch
  BY <1>0, <1>6 DEF BeginBatch, Stopping
<1>7. CASE ProcessItem
  BY <1>7 DEF ProcessItem
<1>8. CASE ProcessDone
  BY <1>8 DEF ProcessDone
<1>9. CASE ProcessAborted
  BY <1>9 DEF ProcessAborted
<1>10. CASE ProcessFailed
  BY <1>10 DEF ProcessFailed
<1>11. CASE CleanupBatch
  BY <1>11 DEF CleanupBatch
<1>12. CASE CompleteRequests
  BY <1>12 DEF CompleteRequests
<1>13. QED BY <1>1, <1>2, <1>3, <1>4, <1>5, <1>6, <1>7, <1>8, <1>9, <1>10,
              <1>11, <1>12 DEF OtherThreadStep

(* ReadyInv is inductive.                                                  *)
LEMMA ReadyStep == IInv /\ LifeInv /\ ReadyInv /\ [Next]_vars => ReadyInv'
<1> SUFFICES ASSUME IInv, LifeInv, ReadyInv, [Next]_vars PROVE ReadyInv'
  OBVIOUS
<1>0. calls \in [BoundedCalls -> Nat] /\ queue \in Seq(Entries)
  BY CallsType DEF IInv, TypeOK, QueueType
<1>1. ASSUME UNCHANGED <<rtPC, batch, threadReady, stopProcessing>>,
             calls'["cancel"] = calls["cancel"],
             calls'["clear"] = calls["clear"],
             calls'["start"] = calls["start"],
             queue' = queue \/ \E e : queue' = Append(queue, e)
      PROVE  ReadyInv'
  <2>1. queue # <<>> => queue' # <<>> /\ queue'[1] = queue[1]
    BY <1>0, <1>1
  <2>2. QED BY <1>1, <2>1 DEF ReadyInv, StartInFront
<1>2. CASE Start
  BY <1>2, StartReady
<1>3. CASE StopPushWrite
  BY <1>3 DEF StopPushWrite, IInv, StopPhases, ReadyInv, lifecycle, rt
<1>4. CASE \E c \in Callers, r \in Requests : PushAccepted(c, r)
  BY <1>1, <1>4 DEF PushAccepted, rt, lifecycle
<1>5. CASE \E c \in Callers : BatchBegin(c) \/ BatchEnd(c)
  BY <1>0, <1>1, <1>5 DEF BatchBegin, BatchEnd, rt, lifecycle, history,
                          BoundedCalls
<1>6. CASE \E c \in Callers : Takes(c)
  <2>1. calls'["cancel"] + calls'["clear"] # 0
    BY <1>0, <1>6 DEF Takes, ClearRequests, CancelRequests, BoundedCalls
  <2>2. QED BY <2>1 DEF ReadyInv
<1>7. CASE PopBatch
  BY <1>7, PopReady
<1>8. CASE OtherStep
  <2>0. /\ calls'["cancel"] = calls["cancel"]
        /\ calls'["clear"] = calls["clear"]
        /\ calls'["start"] = calls["start"] /\ queue' = queue
    BY <1>8, OtherLeaves DEF BoundedCalls
  <2>1. CASE StopFlag
    BY <2>0, <2>1 DEF StopFlag, ReadyInv, rt, history
  <2>2. CASE StopBegin \/ StopPushRead \/ StopDispatch
    BY <1>1, <2>0, <2>2 DEF StopBegin, StopPushRead, StopDispatch, rt,
                            lifecycle, history
  <2>3. CASE \E c \in Callers : \/ \E r \in Requests : PushRejected(c, r)
                                \/ CallerReturns(c)
    BY <1>1, <2>0, <2>3 DEF PushRejected, CallerReturns, PushNotify,
                            CallerCleanupBatch, rt, lifecycle, history
  <2>4. CASE OtherThreadStep
    BY <2>4, ThreadReady
  <2>5. CASE MainThreadStep
    BY <1>1, <2>0, <2>5 DEF MainThreadStep, ThreadShutdownAction, ThreadExit,
                            rt, lifecycle, history
  <2>6. CASE UNCHANGED vars
    BY <1>1, <2>0, <2>6 DEF vars, rt, lifecycle, history
  <2>7. QED BY <1>8, <2>1, <2>2, <2>3, <2>4, <2>5, <2>6 DEF OtherStep
<1>9. QED BY <1>2, <1>3, <1>4, <1>5, <1>6, <1>7, <1>8, Steps

(* ReadyInv holds in every reachable state.                                *)
LEMMA ReadyInvariance == Spec => []ReadyInv
<1>1. Init => ReadyInv
  BY DEF Init, ReadyInv, BoundedCalls
<1>2. QED BY <1>1, ReadyStep, Invariance, LifeInvariance, PTL DEF Spec

-----------------------------------------------------------------------------
(***************************************************************************)
(* Owners.                                                                 *)
(***************************************************************************)
Accepted(r) == \E i \in DOMAIN accepted : accepted[i] = r

HeldByCaller(r) == \E c \in Callers : r \in InCleanup(c)

(* An item is on its way: queued, in the batch at hand, or with a caller.  *)
Held(r) == r \in Queued \cup InBatch \/ HeldByCaller(r)

QueuedOnce == \A i, j \in DOMAIN queue : queue[i].req = queue[j].req => i = j

HeldOnce ==
  /\ QueuedOnce
  /\ Queued \cap InBatch = {}
  /\ \A c \in Callers : InCleanup(c) \cap (Queued \cup InBatch) = {}

AcceptedIsOwned ==
  \A r \in Requests : Accepted(r) <=> Held(r) \/ r \in processed \cup cleaned

(* The stop request is nowhere until Stop has pushed it, and a caller      *)
(* holds requests only while it cleans them up.                            *)
OwnerInv ==
  /\ \A c \in Callers : callerPC[c] # "cleanup" => callerBatch[c] = <<>>
  /\ \A i \in 1..done : batch[i] \in processed
  /\ \A r \in unused : ~Accepted(r)
  /\ torn \/ (HeldOnce /\ AcceptedIsOwned)
  /\ torn \/ (threadStarted \/ stopPC \in {"flag", "push", "write"}
                => ~Held(STOP))

(* The property follows.                                                   *)
LEMMA OwnerIs == OwnerInv => SingleOwnerUnlessTorn
BY DEF OwnerInv, SingleOwnerUnlessTorn, SingleOwner, HeldOnce, QueuedOnce,
       AcceptedIsOwned, Accepted, Held, HeldByCaller

(* The items of the sequences, in range.                                   *)
LEMMA SequenceTypes ==
  ASSUME IInv
  PROVE  /\ queue \in Seq(Entries) /\ batch \in Seq(Items) /\ done \in Nat
         /\ accepted \in Seq(Requests)
         /\ callerBatch \in [Callers -> Seq(Items)]
         /\ callerPC \in [Callers -> {"ready", "dispatch", "cleanup"}]
         /\ calls \in [BoundedCalls -> Nat]
BY DEF IInv, TypeOK, QueueType, ThreadType, CallerType

(* The entry of an item.                                                   *)
LEMMA EntryType ==
  ASSUME IInv, NEW r \in Items
  PROVE  Entry(r) \in Entries /\ Entry(r).req = r
BY DEF IInv, TypeOK, QueueType, Entry, Entries

(* An item that is new to the queue is queued once.                        *)
LEMMA AppendOwned ==
  ASSUME IInv, HeldOnce, NEW e \in Entries, NEW r, e.req = r, ~Held(r),
         queue' = Append(queue, e),
         UNCHANGED <<batch, callerBatch>>
  PROVE  HeldOnce' /\ \A x : Held(x)' <=> Held(x) \/ x = r
<1>1. queue \in Seq(Entries)
  BY DEF IInv, TypeOK, QueueType
<1>2. /\ Len(queue') = Len(queue) + 1
      /\ queue'[Len(queue) + 1].req = r
      /\ \A i \in DOMAIN queue : queue'[i] = queue[i]
      /\ \A i \in DOMAIN queue' : i \in DOMAIN queue \/ i = Len(queue) + 1
      /\ Len(queue) + 1 \in DOMAIN queue'
      /\ \A i \in DOMAIN queue : i \in DOMAIN queue'
  BY <1>1, QueuedAppend
<1>3. Queued' = Queued \cup {r}
  BY <1>2 DEF Queued
<1>4. UNCHANGED InBatch /\ \A c \in Callers : UNCHANGED InCleanup(c)
  BY DEF InBatch, InCleanup
<1>5. r \notin Queued \cup InBatch
      /\ \A c \in Callers : r \notin InCleanup(c)
  BY DEF Held, HeldByCaller
<1>6. QueuedOnce'
  <2>1. \A i \in DOMAIN queue : queue[i].req # r
    BY <1>5 DEF Queued
  <2>2. QED BY <1>2, <2>1 DEF HeldOnce, QueuedOnce
<1>7. HeldOnce'
  BY <1>3, <1>4, <1>5, <1>6 DEF HeldOnce
<1>8. \A x : Held(x)' <=> Held(x) \/ x = r
  BY <1>3, <1>4 DEF Held, HeldByCaller
<1>9. QED BY <1>7, <1>8

(* A thread starts with nothing on its way.                                *)
LEMMA StartOwned == IInv /\ LifeInv /\ OwnerInv /\ Start => OwnerInv'
<1> SUFFICES ASSUME IInv, LifeInv, OwnerInv, Start PROVE OwnerInv'
  OBVIOUS
<1>1. /\ queue = <<>> /\ batch = <<>>
      /\ \A c \in Callers : callerBatch[c] = <<>>
  BY DEF Start, IInv, StopPhases, Ended, LifeInv, BatchShape, OwnerInv
<1>2. \A x : ~Held(x)
  BY <1>1 DEF Held, HeldByCaller, Queued, InBatch, InCleanup
<1>3. UNCHANGED <<callerPC, callerBatch, batch, done, processed, cleaned,
                  unused, accepted, torn, stopPC>>
  BY DEF Start, rt, callers, stop
<1>4. START \in Items /\ START # STOP /\ START \notin Requests
  BY ItemAssumption DEF Items
<1>5. CASE abortRequests
  <2>1. UNCHANGED queue
    BY <1>5 DEF Start
  <2>2. (\A x : ~Held(x)') /\ (HeldOnce => HeldOnce')
    BY <1>2, <1>3, <2>1 DEF Held, HeldByCaller, Queued, InBatch, InCleanup,
                            HeldOnce, QueuedOnce
  <2>3. QED BY <1>2, <1>3, <2>2 DEF OwnerInv, AcceptedIsOwned, Accepted
<1>6. CASE ~abortRequests
  <2>1. queue' = Append(queue, Entry(START))
    BY <1>6 DEF Start
  <2>2. HeldOnce => HeldOnce' /\ (\A x : Held(x)' <=> Held(x) \/ x = START)
    BY <1>2, <1>3, <1>4, <2>1, AppendOwned, EntryType
  <2>3. HeldOnce
    BY <1>1 DEF HeldOnce, QueuedOnce, Queued, InBatch, InCleanup
  <2>4. QED BY <1>2, <1>3, <1>4, <2>2, <2>3
            DEF OwnerInv, AcceptedIsOwned, Accepted
<1>7. QED BY <1>5, <1>6

(* The stop request is new to the queue.                                   *)
LEMMA StopPushOwned == IInv /\ OwnerInv /\ StopPushWrite => OwnerInv'
<1> SUFFICES ASSUME IInv, OwnerInv, StopPushWrite PROVE OwnerInv'
  OBVIOUS
<1>1. UNCHANGED <<callerPC, callerBatch, batch, done, processed, cleaned,
                  unused, accepted, threadStarted, currentBatchId>>
      /\ stopPC = "write" /\ stopPC' = "dispatch" /\ ~threadStarted
  BY DEF StopPushWrite, rt, callers, lifecycle, IInv, StopPhases
<1>2. (torn => torn') /\ (\A r \in unused' : ~Accepted(r)')
  BY <1>1 DEF StopPushWrite, OwnerInv, Accepted
<1>3. CASE torn'
  BY <1>1, <1>2, <1>3 DEF OwnerInv
<1>4. CASE ~torn'
  <2>1. queue' = Append(queue, pushed[Len(pushed)]) /\ ~torn
    BY <1>2, <1>4 DEF StopPushWrite
  <2>2. /\ pushed[Len(pushed)] \in Entries
        /\ pushed[Len(pushed)].req = STOP
    <3>1. pushed \in Seq(Entries) /\ pushed # <<>>
      BY <1>1 DEF IInv, TypeOK, QueueType, StopPhases
    <3>2. Len(pushed) \in DOMAIN pushed
      BY <3>1
    <3>3. QED BY <1>1, <3>1, <3>2 DEF IInv, StopPhases
  <2>3. ~Held(STOP) /\ HeldOnce /\ AcceptedIsOwned
    BY <1>1, <2>1 DEF OwnerInv
  <2>4. STOP \in Items /\ STOP \notin Requests
    BY ItemAssumption DEF Items
  <2>5. HeldOnce' /\ \A x : Held(x)' <=> Held(x) \/ x = STOP
    BY <1>1, <2>1, <2>2, <2>3, AppendOwned
  <2>6. QED BY <1>1, <1>2, <2>3, <2>4, <2>5
            DEF OwnerInv, AcceptedIsOwned, Accepted
<1>5. QED BY <1>3, <1>4

(* A request that is pushed was nowhere before.                            *)
LEMMA PushOwned ==
  ASSUME IInv, OwnerInv, NEW c \in Callers, NEW r \in Requests,
         PushAccepted(c, r)
  PROVE  OwnerInv'
<1>1. /\ UNCHANGED <<callerBatch, batch, done, processed, cleaned, torn,
                     threadStarted, stopPC>>
      /\ callerPC' = [callerPC EXCEPT ![c] = "dispatch"]
      /\ callerPC[c] = "ready"
      /\ queue' = Append(queue, Entry(r))
      /\ accepted' = Append(accepted, r)
      /\ r \in unused /\ unused' = unused \ {r}
  BY DEF PushAccepted, rt, stop, lifecycle, Ready
<1>2. /\ accepted \in Seq(Requests) /\ r \in Items /\ r # STOP
      /\ callerPC \in [Callers -> {"ready", "dispatch", "cleanup"}]
  BY SequenceTypes, ItemAssumption DEF Items
<1>3. \A x : Accepted(x)' <=> Accepted(x) \/ x = r
  BY <1>1, <1>2 DEF Accepted
<1>4. \A d \in Callers : callerPC'[d] # "cleanup" => callerBatch'[d] = <<>>
  BY <1>1, <1>2 DEF OwnerInv
<1>5. \A i \in 1..done' : batch'[i] \in processed'
  BY <1>1 DEF OwnerInv
<1>6. \A x \in unused' : ~Accepted(x)'
  BY <1>1, <1>3 DEF OwnerInv
<1>7. ASSUME ~torn
      PROVE  /\ HeldOnce' /\ AcceptedIsOwned'
             /\ threadStarted' \/ stopPC' \in {"flag", "push", "write"}
                  => ~Held(STOP)'
  <2>1. HeldOnce /\ AcceptedIsOwned /\ ~Accepted(r)
    BY <1>1, <1>7 DEF OwnerInv
  <2>2. ~Held(r)
    BY <2>1 DEF AcceptedIsOwned
  <2>3. HeldOnce' /\ \A x : Held(x)' <=> Held(x) \/ x = r
    BY <1>1, <1>2, <2>1, <2>2, AppendOwned, EntryType
  <2>4. AcceptedIsOwned'
    BY <1>1, <1>3, <2>1, <2>3 DEF AcceptedIsOwned
  <2>5. QED BY <1>1, <1>2, <1>7, <2>3, <2>4 DEF OwnerInv
<1>8. QED BY <1>1, <1>4, <1>5, <1>6, <1>7 DEF OwnerInv

(* What a caller takes off the queue it holds instead.                     *)
LEMMA TakeOwned ==
  ASSUME IInv, OwnerInv, NEW c \in Callers, Takes(c)
  PROVE  OwnerInv'
<1>1. /\ UNCHANGED <<batch, done, processed, cleaned, unused, accepted, torn,
                     threadStarted, stopPC>>
      /\ callerPC[c] = "ready" /\ queue' = <<>>
      /\ callerPC' = [callerPC EXCEPT ![c] = "cleanup"]
      /\ callerBatch' = [callerBatch EXCEPT ![c] =
                           [i \in DOMAIN queue |-> queue[i].req]]
  BY DEF Takes, ClearRequests, CancelRequests, TakeQueue, rt, stop, lifecycle,
         history, Ready
<1>2. /\ callerPC \in [Callers -> {"ready", "dispatch", "cleanup"}]
      /\ callerBatch \in [Callers -> Seq(Items)]
      /\ callerBatch[c] = <<>>
  BY <1>1, SequenceTypes DEF OwnerInv
<1>3. /\ InCleanup(c)' = Queued /\ InCleanup(c) = {}
      /\ \A d \in Callers \ {c} : InCleanup(d)' = InCleanup(d)
      /\ Queued' = {} /\ InBatch' = InBatch
  <2>1. callerBatch'[c] = [i \in DOMAIN queue |-> queue[i].req]
        /\ \A d \in Callers \ {c} : callerBatch'[d] = callerBatch[d]
    BY <1>1, <1>2
  <2>2. InCleanup(c)' = Queued
    BY <2>1 DEF InCleanup, Queued
  <2>3. InCleanup(c) = {} /\ Queued' = {}
    BY <1>1, <1>2 DEF InCleanup, Queued
  <2>4. InBatch' = InBatch
    BY <1>1 DEF InBatch
  <2>5. \A d \in Callers \ {c} : InCleanup(d)' = InCleanup(d)
    BY <2>1 DEF InCleanup
  <2>6. QED BY <2>2, <2>3, <2>4, <2>5
<1>4. \A x : Held(x)' <=> Held(x)
  BY <1>3 DEF Held, HeldByCaller
<1>5. HeldOnce => HeldOnce'
  BY <1>1, <1>3 DEF HeldOnce, QueuedOnce
<1>6. \A d \in Callers : callerPC'[d] # "cleanup" => callerBatch'[d] = <<>>
  BY <1>1, <1>2 DEF OwnerInv
<1>7. QED BY <1>1, <1>4, <1>5, <1>6 DEF OwnerInv, AcceptedIsOwned, Accepted

(* What the thread pops it holds instead.                                  *)
LEMMA PopSplits ==
  ASSUME IInv, LifeInv, PopBatch
  PROVE  /\ Queued = Queued' \cup InBatch'
         /\ QueuedOnce => QueuedOnce' /\ Queued' \cap InBatch' = {}
         /\ InBatch = {}
<1>1. PICK n \in 1..Len(queue) :
        /\ batch' = [i \in 1..n |-> queue[i].req]
        /\ batch' \in Seq(Items) /\ Len(batch') = n
        /\ queue' \in Seq(Entries) /\ Len(queue') = Len(queue) - n
        /\ \A i \in 1..Len(queue') : queue'[i] = queue[n + i]
  BY Popped
<1>2. queue \in Seq(Entries) /\ Len(queue) \in Nat /\ n \in 1..Len(queue)
  BY <1>1, SequenceTypes
<1>3. Queued = {queue[i].req : i \in 1..Len(queue)}
  BY <1>2 DEF Queued
<1>4. Queued' = {queue[i].req : i \in (n + 1)..Len(queue)}
  <2>1. Queued' = {queue[n + i].req : i \in 1..(Len(queue) - n)}
    <3>1. Queued' = {queue'[i].req : i \in 1..Len(queue')}
      <4>1. DOMAIN queue' = 1..Len(queue')
        BY <1>1
      <4>2. QED BY <4>1 DEF Queued
    <3>2. QED BY <1>1, <3>1
  <2>2. \A i \in (n + 1)..Len(queue) :
          i - n \in 1..(Len(queue) - n) /\ n + (i - n) = i
    BY <1>2
  <2>3. \A i \in 1..(Len(queue) - n) : n + i \in (n + 1)..Len(queue)
    BY <1>2
  <2>4. QED BY <2>1, <2>2, <2>3
<1>5. InBatch' = {queue[i].req : i \in 1..n}
  BY <1>1 DEF InBatch
<1>6. Queued = Queued' \cup InBatch'
  BY <1>2, <1>3, <1>4, <1>5
<1>7. ASSUME QueuedOnce PROVE QueuedOnce' /\ Queued' \cap InBatch' = {}
  <2>1. QueuedOnce'
    <3> SUFFICES ASSUME NEW i \in 1..Len(queue'), NEW j \in 1..Len(queue'),
                        queue'[i].req = queue'[j].req
                 PROVE  i = j
      BY <1>1 DEF QueuedOnce
    <3>1. /\ n + i \in DOMAIN queue /\ n + j \in DOMAIN queue
          /\ queue'[i] = queue[n + i] /\ queue'[j] = queue[n + j]
      BY <1>1, <1>2
    <3>2. n + i = n + j
      BY <1>7, <3>1 DEF QueuedOnce
    <3>3. QED BY <1>1, <1>2, <3>2
  <2>2. Queued' \cap InBatch' = {}
    BY <1>2, <1>4, <1>5, <1>7 DEF QueuedOnce
  <2>3. QED BY <2>1, <2>2
<1>8. InBatch = {}
  BY DEF LifeInv, BatchShape, PopBatch, InBatch
<1>9. QED BY <1>6, <1>7, <1>8

(* A pop moves requests from the queue to the batch.                       *)
LEMMA PopOwned == IInv /\ LifeInv /\ OwnerInv /\ PopBatch => OwnerInv'
<1> SUFFICES ASSUME IInv, LifeInv, OwnerInv, PopBatch PROVE OwnerInv'
  OBVIOUS
<1>1. /\ UNCHANGED <<callerPC, callerBatch, done, processed, cleaned, unused,
                     accepted, torn, threadStarted, stopPC>>
      /\ done = 0
  BY DEF PopBatch, callers, stop, lifecycle, history, LifeInv, BatchShape
<1>2. \A c \in Callers : InCleanup(c)' = InCleanup(c)
  BY <1>1 DEF InCleanup
<1>3. \A x : Held(x)' <=> Held(x)
  BY <1>2, PopSplits DEF Held, HeldByCaller
<1>4. HeldOnce => HeldOnce'
  BY <1>2, PopSplits DEF HeldOnce
<1>5. QED BY <1>1, <1>3, <1>4 DEF OwnerInv, AcceptedIsOwned, Accepted

(* What the thread is through with leaves the batch...                     *)
LEMMA CleanupOwned == IInv /\ OwnerInv /\ CleanupBatch => OwnerInv'
<1> SUFFICES ASSUME IInv, OwnerInv, CleanupBatch PROVE OwnerInv'
  OBVIOUS
<1>1. /\ UNCHANGED <<queue, callerPC, callerBatch, processed, unused,
                     accepted, torn, threadStarted, stopPC>>
      /\ batch' = <<>> /\ done' = 0
      /\ cleaned' = cleaned \cup Unprocessed
  BY DEF CleanupBatch, members, callers, stop, lifecycle
<1>2. /\ Queued' = Queued /\ InBatch' = {}
      /\ \A c \in Callers : InCleanup(c)' = InCleanup(c)
  BY <1>1 DEF Queued, InBatch, InCleanup
<1>3. /\ InBatch \subseteq processed \cup Unprocessed
      /\ Unprocessed \subseteq InBatch
  <2>1. batch \in Seq(Items) /\ done \in Nat
    BY SequenceTypes
  <2>2. \A i \in 1..Len(batch) : i \in 1..done \/ i \in (done + 1)..Len(batch)
    BY <2>1
  <2>3. (done + 1)..Len(batch) \subseteq 1..Len(batch)
    BY <2>1
  <2>4. QED BY <2>1, <2>2, <2>3 DEF OwnerInv, InBatch, Unprocessed
<1>4. \A x : Held(x)' => Held(x)
  BY <1>2 DEF Held, HeldByCaller
<1>5. HeldOnce => HeldOnce'
  BY <1>1, <1>2 DEF HeldOnce, QueuedOnce
<1>6. AcceptedIsOwned => AcceptedIsOwned'
  <2> SUFFICES ASSUME AcceptedIsOwned, NEW r \in Requests
               PROVE  Accepted(r)'
                        <=> Held(r)' \/ r \in (processed \cup cleaned)'
    BY DEF AcceptedIsOwned
  <2>1. Accepted(r)' <=> Held(r) \/ r \in processed \cup cleaned
    BY <1>1 DEF AcceptedIsOwned, Accepted
  <2>2. r \in Unprocessed => Held(r)
    BY <1>3 DEF Held
  <2>3. Held(r) => Held(r)' \/ r \in processed \cup Unprocessed
    BY <1>2, <1>3 DEF Held, HeldByCaller
  <2>4. QED BY <1>1, <1>4, <2>1, <2>2, <2>3
<1>7. QED BY <1>1, <1>4, <1>5, <1>6 DEF OwnerInv, Accepted

(* ... and what a caller is through with leaves the caller.                *)
LEMMA CallerCleanupOwned ==
  ASSUME IInv, OwnerInv, NEW c \in Callers, CallerCleanupBatch(c)
  PROVE  OwnerInv'
<1>1. /\ UNCHANGED <<queue, batch, done, processed, unused, accepted, torn,
                     threadStarted, stopPC>>
      /\ callerPC' = [callerPC EXCEPT ![c] = "ready"]
      /\ callerBatch' = [callerBatch EXCEPT ![c] = <<>>]
      /\ cleaned' = cleaned \cup (InCleanup(c) \ processed)
  BY DEF CallerCleanupBatch, members, rt, stop, lifecycle
<1>2. /\ callerPC \in [Callers -> {"ready", "dispatch", "cleanup"}]
      /\ callerBatch \in [Callers -> Seq(Items)]
  BY SequenceTypes
<1>3. /\ Queued' = Queued /\ InBatch' = InBatch
      /\ InCleanup(c)' = {}
      /\ \A d \in Callers \ {c} : InCleanup(d)' = InCleanup(d)
  <2>1. callerBatch'[c] = <<>>
        /\ \A d \in Callers \ {c} : callerBatch'[d] = callerBatch[d]
    BY <1>1, <1>2
  <2>2. Queued' = Queued /\ InBatch' = InBatch
    BY <1>1 DEF Queued, InBatch
  <2>3. QED BY <2>1, <2>2 DEF InCleanup
<1>4. \A x : Held(x)' => Held(x)
  BY <1>3 DEF Held, HeldByCaller
<1>5. \A x : Held(x) => Held(x)' \/ x \in InCleanup(c)
  BY <1>3 DEF Held, HeldByCaller
<1>6. \A x \in InCleanup(c) : Held(x)
  BY DEF Held, HeldByCaller
<1>7. HeldOnce => HeldOnce'
  BY <1>1, <1>3 DEF HeldOnce, QueuedOnce
<1>8. AcceptedIsOwned => AcceptedIsOwned'
  <2> SUFFICES ASSUME AcceptedIsOwned, NEW r \in Requests
               PROVE  Accepted(r)'
                        <=> Held(r)' \/ r \in (processed \cup cleaned)'
    BY DEF AcceptedIsOwned
  <2>1. Accepted(r)' <=> Held(r) \/ r \in processed \cup cleaned
    BY <1>1 DEF AcceptedIsOwned, Accepted
  <2>2. QED BY <1>1, <1>4, <1>5, <1>6, <2>1
<1>9. \A d \in Callers : callerPC'[d] # "cleanup" => callerBatch'[d] = <<>>
  BY <1>1, <1>2 DEF OwnerInv
<1>10. QED BY <1>1, <1>4, <1>7, <1>8, <1>9 DEF OwnerInv, Accepted

(* A request is processed while the batch still holds it.                  *)
LEMMA ProcessOwned == IInv /\ OwnerInv /\ ProcessItem => OwnerInv'
<1> SUFFICES ASSUME IInv, OwnerInv, ProcessItem PROVE OwnerInv'
  OBVIOUS
<1>1. /\ UNCHANGED <<queue, callerPC, callerBatch, batch, cleaned, unused,
                     accepted, torn, threadStarted, stopPC>>
      /\ done < Len(batch) /\ done' = done + 1
      /\ processed' = processed \cup {batch[done + 1]}
  BY DEF ProcessItem, members, callers, stop, lifecycle
<1>2. batch \in Seq(Items) /\ done \in Nat
  BY SequenceTypes
<1>3. Held(batch[done + 1])
  <2>1. done + 1 \in DOMAIN batch
    BY <1>1, <1>2
  <2>2. QED BY <2>1 DEF Held, InBatch
<1>4. (\A x : Held(x)' <=> Held(x)) /\ (HeldOnce => HeldOnce')
  <2>1. /\ Queued' = Queued /\ InBatch' = InBatch
        /\ \A c \in Callers : InCleanup(c)' = InCleanup(c)
    BY <1>1 DEF Queued, InBatch, InCleanup
  <2>2. QueuedOnce => QueuedOnce'
    BY <1>1 DEF QueuedOnce
  <2>3. QED BY <2>1, <2>2 DEF Held, HeldByCaller, HeldOnce
<1>5. \A i \in 1..done' : batch'[i] \in processed'
  <2>1. \A i \in 1..done' : i \in 1..done \/ i = done + 1
    BY <1>1, <1>2
  <2>2. QED BY <1>1, <2>1 DEF OwnerInv
<1>6. AcceptedIsOwned => AcceptedIsOwned'
  BY <1>1, <1>3, <1>4 DEF AcceptedIsOwned, Accepted
<1>7. QED BY <1>1, <1>4, <1>5, <1>6 DEF OwnerInv, Accepted

(* Everything else leaves the owners as they are.                          *)
LEMMA OwnersKept ==
  ASSUME OwnerInv,
         UNCHANGED <<queue, batch, callerBatch, processed, cleaned, accepted,
                     torn>>,
         unused' \subseteq unused,
         \A c \in Callers :
           callerPC'[c] # "cleanup" => callerPC[c] # "cleanup",
         done' = done,
         threadStarted' \/ stopPC' \in {"flag", "push", "write"}
           => threadStarted \/ stopPC \in {"flag", "push", "write"}
  PROVE  OwnerInv'
<1>1. /\ \A x : Held(x)' <=> Held(x)
      /\ \A x : Accepted(x)' <=> Accepted(x)
      /\ HeldOnce' <=> HeldOnce
  BY DEF Held, HeldByCaller, Queued, InBatch, InCleanup, HeldOnce, QueuedOnce,
         Accepted
<1>2. AcceptedIsOwned' <=> AcceptedIsOwned
  BY <1>1 DEF AcceptedIsOwned
<1>3. QED BY <1>1, <1>2 DEF OwnerInv

(* The stop request was alone in its batch.                                *)
LEMMA ThreadStopOwned ==
  IInv /\ LifeInv /\ OwnerInv /\ ThreadStop => OwnerInv'
<1> SUFFICES ASSUME IInv, LifeInv, OwnerInv, ThreadStop PROVE OwnerInv'
  OBVIOUS
<1>1. /\ UNCHANGED <<queue, callerPC, callerBatch, done, processed, cleaned,
                     unused, accepted, torn, threadStarted, stopPC>>
      /\ batch' = <<>> /\ batch[1] = STOP /\ rtPC = "check"
  BY DEF ThreadStop, members, callers, stop, history
<1>2. STOP \notin Countable /\ STOP \notin Requests
  BY ItemAssumption
<1>3. Len(batch) = 1 /\ done = 0 /\ batch \in Seq(Items)
  BY <1>1, <1>2, SequenceTypes DEF LifeInv, BatchShape
<1>4. /\ InBatch = {STOP} /\ InBatch' = {} /\ Queued' = Queued
      /\ \A c \in Callers : InCleanup(c)' = InCleanup(c)
  BY <1>1, <1>3 DEF InBatch, Queued, InCleanup
<1>5. /\ \A x : Held(x)' => Held(x)
      /\ \A x : Held(x) => Held(x)' \/ x = STOP
  BY <1>4 DEF Held, HeldByCaller
<1>6. HeldOnce => HeldOnce'
  BY <1>1, <1>4 DEF HeldOnce, QueuedOnce
<1>7. AcceptedIsOwned => AcceptedIsOwned'
  BY <1>1, <1>2, <1>5 DEF AcceptedIsOwned, Accepted
<1>8. QED BY <1>1, <1>3, <1>5, <1>6, <1>7 DEF OwnerInv, Accepted

(* The thread's own steps keep the owners.                                 *)
LEMMA ThreadOwned ==
  IInv /\ LifeInv /\ OwnerInv /\ OtherThreadStep => OwnerInv'
<1> SUFFICES ASSUME IInv, LifeInv, OwnerInv, OtherThreadStep PROVE OwnerInv'
  OBVIOUS
<1> USE DEF members, lifecycle, rt, callers, stop, history
<1>1. CASE StartRequests \/ NestedEvent \/ PopNothing \/ CompleteRequests
  BY <1>1, OwnersKept DEF StartRequests, NestedEvent, PopNothing,
                          CompleteRequests
<1>2. CASE AbortBatch \/ BeginBatch
  BY <1>2, OwnersKept DEF AbortBatch, BeginBatch
<1>3. CASE ProcessDone \/ ProcessAborted \/ ProcessFailed
  BY <1>3, OwnersKept DEF ProcessDone, ProcessAborted, ProcessFailed
<1>4. QED BY <1>1, <1>2, <1>3, ThreadStopOwned, ProcessOwned, CleanupOwned
          DEF OtherThreadStep

(* OwnerInv is inductive.                                                  *)
LEMMA OwnerStep == IInv /\ LifeInv /\ OwnerInv /\ [Next]_vars => OwnerInv'
<1> SUFFICES ASSUME IInv, LifeInv, OwnerInv, [Next]_vars PROVE OwnerInv'
  OBVIOUS
<1> USE DEF members, lifecycle, rt, callers, stop, history
<1>1. CASE \E c \in Callers : BatchBegin(c) \/ BatchEnd(c)
  BY <1>1, OwnersKept DEF BatchBegin, BatchEnd
<1>2. CASE OtherStep
  <2>1. CASE StopBegin
    BY <2>1, OwnersKept DEF StopBegin
  <2>2. CASE StopFlag \/ StopPushRead \/ StopDispatch
    BY <2>2, OwnersKept DEF StopFlag, StopPushRead, StopDispatch
  <2>3. CASE \E c \in Callers, r \in Requests : PushRejected(c, r)
    BY <2>3, OwnersKept DEF PushRejected
  <2>4. ASSUME NEW c \in Callers, PushNotify(c) PROVE OwnerInv'
    <3>1. callerPC \in [Callers -> {"ready", "dispatch", "cleanup"}]
      BY SequenceTypes
    <3>2. QED BY <2>4, <3>1, OwnersKept DEF PushNotify
  <2>5. CASE MainThreadStep
    BY <2>5, OwnersKept DEF MainThreadStep, ThreadShutdownAction, ThreadExit
  <2>6. CASE UNCHANGED vars
    BY <2>6, OwnersKept DEF vars
  <2>7. QED BY <1>2, <2>1, <2>2, <2>3, <2>4, <2>5, <2>6, ThreadOwned,
               CallerCleanupOwned DEF OtherStep, CallerReturns
<1>3. QED BY <1>1, <1>2, Steps, StartOwned, StopPushOwned, PushOwned,
             TakeOwned, PopOwned

(* OwnerInv holds in every reachable state.                                *)
LEMMA OwnerInvariance == Spec => []OwnerInv
<1>1. Init => OwnerInv
  BY DEF Init, OwnerInv, HeldOnce, QueuedOnce, AcceptedIsOwned, Accepted,
         Held, HeldByCaller, Queued, InBatch, InCleanup
<1>2. QED BY <1>1, OwnerStep, Invariance, LifeInvariance, PTL DEF Spec

-----------------------------------------------------------------------------
(***************************************************************************)
(* Turns.                                                                  *)
(***************************************************************************)
(* In a sequence of requests, x goes before y.                             *)
Goes(s, x, y) == \E i, j \in DOMAIN s : i < j /\ s[i] = x /\ s[j] = y

Waiting == Queued \cup (Unprocessed \ processed)

(* The queue and the batch are in the order of acceptance, the batch goes  *)
(* before the queue, and what is processed went before both.               *)
InOrder ==
  /\ \A i, j \in DOMAIN queue :
       i < j => ~Goes(accepted, queue[j].req, queue[i].req)
  /\ \A i, j \in DOMAIN batch : i < j => ~Goes(accepted, batch[j], batch[i])
  /\ \A x \in InBatch, y \in Queued : ~Goes(accepted, y, x)
  /\ \A x \in processed, y \in Waiting : ~Goes(accepted, y, x)

OrderInv == torn \/ InOrder

(* The property follows.                                                   *)
LEMMA OrderIs == OrderInv => NoOvertaking
BY DEF OrderInv, InOrder, NoOvertaking, Goes, Waiting

(* A step that takes items away leaves the rest in order.                  *)
LEMMA OrderKept ==
  ASSUME OrderInv, torn => torn',
         UNCHANGED <<queue, accepted, processed>>,
         done' \in Nat,
         batch' = <<>> \/ (batch' = batch /\ done' = done)
  PROVE  OrderInv'
<1>1. /\ Queued' = Queued
      /\ \A x, y : Goes(accepted', x, y) <=> Goes(accepted, x, y)
  BY DEF Queued, Goes
<1>2. CASE batch' = <<>>
  <2>1. InBatch' = {} /\ DOMAIN batch' = {} /\ Unprocessed' = {}
    <3>1. InBatch' = {} /\ DOMAIN batch' = {}
      BY <1>2 DEF InBatch
    <3>2. Unprocessed' = {batch'[i] : i \in (done' + 1)..0}
      BY <1>2 DEF Unprocessed
    <3>3. \A k \in Nat : (k + 1)..0 = {}
      OBVIOUS
    <3>4. QED BY <3>1, <3>2, <3>3
  <2>2. QED BY <1>1, <2>1 DEF OrderInv, InOrder, Waiting
<1>3. CASE batch' = batch /\ done' = done
  <2>1. InBatch' = InBatch /\ Unprocessed' = Unprocessed
    BY <1>3 DEF InBatch, Unprocessed
  <2>2. QED BY <1>1, <1>3, <2>1 DEF OrderInv, InOrder, Waiting
<1>4. QED BY <1>2, <1>3

(* An item that was not accepted before any other goes behind all.         *)
LEMMA AppendInOrder ==
  ASSUME IInv, InOrder, NEW e \in Entries,
         queue' = Append(queue, e), UNCHANGED <<batch, done, processed>>,
         \A y : ~Goes(accepted', e.req, y),
         \A x : \A y \in Queued \cup InBatch \cup processed :
           Goes(accepted', x, y) => Goes(accepted, x, y)
  PROVE  InOrder'
<1>1. queue \in Seq(Entries)
  BY SequenceTypes
<1>2. /\ queue'[Len(queue) + 1] = e
      /\ \A i \in DOMAIN queue :
           queue'[i] = queue[i] /\ queue[i].req \in Queued
      /\ \A i \in DOMAIN queue' : i \in DOMAIN queue \/ i = Len(queue) + 1
      /\ \A i \in DOMAIN queue : i < Len(queue) + 1
      /\ DOMAIN queue \subseteq DOMAIN queue'
      /\ Len(queue) + 1 \in DOMAIN queue'
  BY <1>1, QueuedAppend DEF Queued
<1>3. Queued' = Queued \cup {e.req}
  BY <1>2 DEF Queued
<1>4. InBatch' = InBatch /\ Unprocessed' = Unprocessed
  BY DEF InBatch, Unprocessed
<1>5. \A i, j \in DOMAIN queue' :
        i < j => ~Goes(accepted', queue'[j].req, queue'[i].req)
  <2> SUFFICES ASSUME NEW i \in DOMAIN queue', NEW j \in DOMAIN queue', i < j
               PROVE  ~Goes(accepted', queue'[j].req, queue'[i].req)
    OBVIOUS
  <2>1. CASE j \in DOMAIN queue
    <3>1. i \in DOMAIN queue
      BY <1>1, <1>2, <2>1
    <3>2. /\ ~Goes(accepted, queue[j].req, queue[i].req)
          /\ queue[i].req \in Queued
      BY <1>2, <2>1, <3>1 DEF InOrder
    <3>3. QED BY <1>2, <2>1, <3>1, <3>2
  <2>2. CASE j = Len(queue) + 1
    BY <1>2, <2>2
  <2>3. QED BY <1>2, <2>1, <2>2
<1>6. (\A i, j \in DOMAIN batch :
         i < j => ~Goes(accepted, batch[j], batch[i]))'
  <2>1. \A i \in DOMAIN batch : batch[i] \in InBatch
    BY DEF InBatch
  <2>2. QED BY <2>1 DEF InOrder
<1>7. \A x \in InBatch', y \in Queued' : ~Goes(accepted', y, x)
  BY <1>3, <1>4 DEF InOrder
<1>8. \A x \in processed', y \in Waiting' : ~Goes(accepted', y, x)
  BY <1>3, <1>4 DEF InOrder, Waiting
<1>9. QED BY <1>5, <1>6, <1>7, <1>8 DEF InOrder

(* A request that joins the queue is the last that was accepted.           *)
LEMMA PushInOrder ==
  ASSUME IInv, OwnerInv, OrderInv, NEW c \in Callers, NEW r \in Requests,
         PushAccepted(c, r)
  PROVE  OrderInv'
<1>1. /\ UNCHANGED <<batch, done, processed, torn>>
      /\ queue' = Append(queue, Entry(r))
      /\ accepted' = Append(accepted, r) /\ r \in unused
  BY DEF PushAccepted, rt
<1>2. accepted \in Seq(Requests) /\ r \in Items
  BY SequenceTypes DEF Items
<1>3. SUFFICES ASSUME ~torn PROVE InOrder'
  BY <1>1 DEF OrderInv
<1>4. ~Accepted(r) /\ r \notin Queued \cup InBatch \cup processed
  BY <1>1, <1>3 DEF OwnerInv, AcceptedIsOwned, Held
<1>5. \A i \in DOMAIN accepted : accepted[i] # r
  BY <1>4 DEF Accepted
<1>6. /\ \A x, y : Goes(accepted', x, y) => y = r \/ Goes(accepted, x, y)
      /\ \A y : ~Goes(accepted', r, y)
  <2>1. /\ \A i \in DOMAIN accepted : accepted'[i] = accepted[i]
        /\ \A i \in DOMAIN accepted' : i \in DOMAIN accepted
                                        \/ i = Len(accepted) + 1
        /\ \A i \in DOMAIN accepted' : i <= Len(accepted) + 1
        /\ accepted'[Len(accepted) + 1] = r
        /\ \A i \in DOMAIN accepted : i <= Len(accepted)
        /\ Len(accepted) \in Nat
        /\ DOMAIN accepted \subseteq Nat /\ DOMAIN accepted' \subseteq Nat
    BY <1>1, <1>2
  <2>2. ASSUME NEW x, NEW y, Goes(accepted', x, y)
        PROVE  x # r /\ (y = r \/ Goes(accepted, x, y))
    <3>1. PICK i \in DOMAIN accepted', j \in DOMAIN accepted' :
            i < j /\ accepted'[i] = x /\ accepted'[j] = y
      BY <2>2 DEF Goes
    <3>2. i \in DOMAIN accepted /\ x = accepted[i]
      BY <2>1, <3>1
    <3>3. j = Len(accepted) + 1 => y = r
      BY <2>1, <3>1
    <3>4. j \in DOMAIN accepted => Goes(accepted, x, y)
      BY <2>1, <3>1, <3>2 DEF Goes
    <3>5. QED BY <1>5, <2>1, <3>2, <3>3, <3>4
  <2>3. QED BY <2>2
<1>7. Entry(r) \in Entries /\ Entry(r).req = r
  BY <1>2, EntryType
<1>8. \A x : \A y \in Queued \cup InBatch \cup processed :
        Goes(accepted', x, y) => Goes(accepted, x, y)
  BY <1>4, <1>6
<1>9. \A y : ~Goes(accepted', Entry(r).req, y)
  BY <1>6, <1>7
<1>10. InOrder
  BY <1>3 DEF OrderInv
<1> HIDE DEF Entry
<1>11. QED BY <1>1, <1>7, <1>8, <1>9, <1>10, AppendInOrder

(* Nothing goes before the start and stop requests, nor the other way.     *)
LEMMA SystemInOrder ==
  ASSUME IInv, InOrder, NEW e \in Entries, e.req \in {START, STOP},
         queue' = Append(queue, e),
         UNCHANGED <<batch, done, processed, accepted>>
  PROVE  InOrder'
<1>1. \A x, y : Goes(accepted', x, y) <=> Goes(accepted, x, y)
  BY DEF Goes
<1>2. \A y : ~Goes(accepted, e.req, y)
  <2>1. \A i \in DOMAIN accepted : accepted[i] \in Requests
    BY SequenceTypes
  <2>2. e.req \notin Requests
    BY ItemAssumption
  <2>3. QED BY <2>1, <2>2 DEF Goes
<1>3. QED BY <1>1, <1>2, AppendInOrder

(* The start request has no turn to take.                                  *)
LEMMA StartInOrder == IInv /\ OrderInv /\ Start => OrderInv'
<1> SUFFICES ASSUME IInv, OrderInv, Start PROVE OrderInv'
  OBVIOUS
<1>1. UNCHANGED <<batch, done, processed, accepted, torn>>
  BY DEF Start, rt
<1>2. CASE abortRequests
  BY <1>1, <1>2, OrderKept, SequenceTypes DEF Start
<1>3. CASE ~abortRequests
  <2>1. queue' = Append(queue, Entry(START))
    BY <1>3 DEF Start
  <2>2. Entry(START) \in Entries /\ Entry(START).req = START
    BY EntryType DEF Items
  <2>3. QED BY <1>1, <2>1, <2>2, SystemInOrder DEF OrderInv
<1>4. QED BY <1>2, <1>3

(* Nor has the stop request.                                               *)
LEMMA StopPushInOrder == IInv /\ OrderInv /\ StopPushWrite => OrderInv'
<1> SUFFICES ASSUME IInv, OrderInv, StopPushWrite, ~torn' PROVE OrderInv'
  BY DEF OrderInv
<1>1. /\ UNCHANGED <<batch, done, processed, accepted>> /\ ~torn
      /\ queue' = Append(queue, pushed[Len(pushed)]) /\ stopPC = "write"
  BY DEF StopPushWrite, rt
<1>2. pushed \in Seq(Entries) /\ pushed # <<>>
  BY <1>1 DEF IInv, TypeOK, QueueType, StopPhases
<1>3. Len(pushed) \in DOMAIN pushed /\ pushed[Len(pushed)] \in Entries
  BY <1>2
<1>4. pushed[Len(pushed)].req = STOP
  BY <1>1, <1>3 DEF IInv, StopPhases
<1>5. QED BY <1>1, <1>3, <1>4, SystemInOrder DEF OrderInv

(* A batch comes off the front.                                            *)
LEMMA PopInOrder == IInv /\ LifeInv /\ OrderInv /\ PopBatch => OrderInv'
<1> SUFFICES ASSUME IInv, LifeInv, InOrder, PopBatch PROVE InOrder'
  BY DEF OrderInv, PopBatch, history
<1>1. PICK n \in 1..Len(queue) :
        /\ batch' = [i \in 1..n |-> queue[i].req]
        /\ batch' \in Seq(Items) /\ Len(batch') = n
        /\ queue' \in Seq(Entries) /\ Len(queue') = Len(queue) - n
        /\ \A i \in 1..Len(queue') : queue'[i] = queue[n + i]
  BY Popped
<1>2. queue \in Seq(Entries) /\ Len(queue) \in Nat /\ n \in 1..Len(queue)
  BY <1>1, SequenceTypes
<1>3. /\ UNCHANGED <<processed, accepted>> /\ done' = 0
  BY DEF PopBatch, history, LifeInv, BatchShape
<1>4. \A x, y : Goes(accepted', x, y) <=> Goes(accepted, x, y)
  BY <1>3 DEF Goes
<1>5. \A i, j \in 1..Len(queue) :
        i < j => ~Goes(accepted, queue[j].req, queue[i].req)
  BY <1>2 DEF InOrder
<1>6. \A i, j \in DOMAIN queue' :
        i < j => ~Goes(accepted, queue'[j].req, queue'[i].req)
  <2> SUFFICES ASSUME NEW i \in 1..Len(queue'), NEW j \in 1..Len(queue'),
                      i < j
               PROVE  ~Goes(accepted, queue'[j].req, queue'[i].req)
    BY <1>1
  <2>1. /\ n + i \in 1..Len(queue) /\ n + j \in 1..Len(queue)
        /\ n + i < n + j
        /\ queue'[i] = queue[n + i] /\ queue'[j] = queue[n + j]
    BY <1>1, <1>2
  <2>2. QED BY <1>5, <2>1
<1>7. \A i, j \in DOMAIN batch' :
        i < j => ~Goes(accepted, batch'[j], batch'[i])
  BY <1>1, <1>2, <1>5
<1>8. \A x \in InBatch', y \in Queued' : ~Goes(accepted, y, x)
  <2> SUFFICES ASSUME NEW x \in InBatch', NEW y \in Queued'
               PROVE  ~Goes(accepted, y, x)
    OBVIOUS
  <2>1. PICK i \in 1..n : x = queue[i].req
    BY <1>1 DEF InBatch
  <2>2. PICK j \in 1..Len(queue') : y = queue[n + j].req
    BY <1>1 DEF Queued
  <2>3. i \in 1..Len(queue) /\ n + j \in 1..Len(queue) /\ i < n + j
    BY <1>1, <1>2
  <2>4. QED BY <1>5, <2>1, <2>2, <2>3
<1>9. Waiting' \subseteq Queued
  <2>1. Unprocessed' \subseteq InBatch'
    <3>1. Unprocessed' = {batch'[i] : i \in 1..n}
      <4>1. (done' + 1)..Len(batch') = 1..n
        BY <1>1, <1>3
      <4>2. QED BY <4>1 DEF Unprocessed
    <3>2. DOMAIN batch' = 1..n
      BY <1>1
    <3>3. QED BY <3>1, <3>2 DEF InBatch
  <2>2. QED BY <2>1, PopSplits DEF Waiting
<1>10. \A x \in processed', y \in Waiting' : ~Goes(accepted, y, x)
  BY <1>3, <1>9 DEF InOrder, Waiting
<1>11. QED BY <1>4, <1>6, <1>7, <1>8, <1>10 DEF InOrder

(* The next item of the batch is the one whose turn it is.                 *)
LEMMA ProcessInOrder == IInv /\ OrderInv /\ ProcessItem => OrderInv'
<1> SUFFICES ASSUME IInv, InOrder, ProcessItem PROVE InOrder'
  BY DEF OrderInv, ProcessItem
<1>1. /\ UNCHANGED <<queue, batch, accepted>>
      /\ done < Len(batch) /\ done' = done + 1
      /\ processed' = processed \cup {batch[done + 1]}
  BY DEF ProcessItem, members
<1>2. batch \in Seq(Items) /\ done \in Nat
  BY SequenceTypes
<1>3. done + 1 \in DOMAIN batch /\ batch[done + 1] \in InBatch
  BY <1>1, <1>2 DEF InBatch
<1>4. /\ Queued' = Queued /\ InBatch' = InBatch
      /\ \A x, y : Goes(accepted', x, y) <=> Goes(accepted, x, y)
  BY <1>1 DEF Queued, InBatch, Goes
<1>5. Unprocessed' \subseteq Unprocessed
  BY <1>1, <1>2 DEF Unprocessed
<1>6. \A y \in Unprocessed' : ~Goes(accepted, y, batch[done + 1])
  <2> SUFFICES ASSUME NEW y \in Unprocessed'
               PROVE  ~Goes(accepted, y, batch[done + 1])
    OBVIOUS
  <2>1. PICK k \in (done + 2)..Len(batch) : y = batch[k]
    BY <1>1, <1>2 DEF Unprocessed
  <2>2. k \in DOMAIN batch /\ done + 1 < k
    BY <1>2
  <2>3. QED BY <1>3, <2>1, <2>2 DEF InOrder
<1>7. \A x \in processed', y \in Waiting' : ~Goes(accepted, y, x)
  BY <1>1, <1>3, <1>4, <1>5, <1>6 DEF InOrder, Waiting
<1>8. QED BY <1>1, <1>4, <1>7 DEF InOrder

(* What a caller takes off the queue is ahead of nothing any more.         *)
LEMMA TakeInOrder ==
  ASSUME OrderInv, NEW c \in Callers, Takes(c)
  PROVE  OrderInv'
<1>1. UNCHANGED <<batch, done, processed, accepted, torn>> /\ queue' = <<>>
  BY DEF Takes, ClearRequests, CancelRequests, TakeQueue, rt, history
<1>2. /\ Queued' = {} /\ InBatch' = InBatch /\ Unprocessed' = Unprocessed
      /\ \A x, y : Goes(accepted', x, y) <=> Goes(accepted, x, y)
  BY <1>1 DEF Queued, InBatch, Unprocessed, Goes
<1>3. QED BY <1>1, <1>2 DEF OrderInv, InOrder, Waiting

(* OrderInv is inductive.                                                  *)
LEMMA OrderStep ==
  IInv /\ LifeInv /\ OwnerInv /\ OrderInv /\ [Next]_vars => OrderInv'
<1> SUFFICES ASSUME IInv, LifeInv, OwnerInv, OrderInv, [Next]_vars
             PROVE  OrderInv'
  OBVIOUS
<1>0. done \in Nat
  BY SequenceTypes
<1> USE DEF members, rt, history
<1>1. CASE \E c \in Callers : BatchBegin(c) \/ BatchEnd(c)
  BY <1>0, <1>1, OrderKept DEF BatchBegin, BatchEnd
<1>2. CASE OtherStep
  <2>1. CASE StopBegin \/ StopFlag \/ StopPushRead \/ StopDispatch
    BY <1>0, <2>1, OrderKept DEF StopBegin, StopFlag, StopPushRead,
                                 StopDispatch
  <2>2. CASE \E c \in Callers : \/ \E r \in Requests : PushRejected(c, r)
                                \/ CallerReturns(c)
    BY <1>0, <2>2, OrderKept DEF PushRejected, CallerReturns, PushNotify,
                                 CallerCleanupBatch
  <2>3. CASE StartRequests \/ NestedEvent \/ PopNothing \/ CompleteRequests
    BY <1>0, <2>3, OrderKept DEF StartRequests, NestedEvent, PopNothing,
                                 CompleteRequests
  <2>4. CASE ThreadStop \/ AbortBatch \/ BeginBatch
    BY <1>0, <2>4, OrderKept DEF ThreadStop, AbortBatch, BeginBatch
  <2>5. CASE ProcessDone \/ ProcessAborted \/ ProcessFailed \/ CleanupBatch
    BY <1>0, <2>5, OrderKept DEF ProcessDone, ProcessAborted, ProcessFailed,
                                 CleanupBatch
  <2>6. CASE MainThreadStep
    BY <1>0, <2>6, OrderKept DEF MainThreadStep, ThreadShutdownAction,
                                 ThreadExit
  <2>7. CASE UNCHANGED vars
    BY <1>0, <2>7, OrderKept DEF vars
  <2>8. QED BY <1>2, <2>1, <2>2, <2>3, <2>4, <2>5, <2>6, <2>7,
               ProcessInOrder DEF OtherStep, OtherThreadStep
<1>3. QED BY <1>1, <1>2, Steps, StartInOrder, StopPushInOrder, PushInOrder,
             TakeInOrder, PopInOrder

(* OrderInv holds in every reachable state.                                *)
LEMMA OrderInvariance == Spec => []OrderInv
<1>1. Init => OrderInv
  BY DEF Init, OrderInv, InOrder, Waiting, Goes, Queued, InBatch,
         Unprocessed
<1>2. QED BY <1>1, OrderStep, Invariance, LifeInvariance, OwnerInvariance,
             PTL DEF Spec

-----------------------------------------------------------------------------
(***************************************************************************)
(* Notice, when no batch fails and nothing is cancelled or stopped: a Run  *)
(* then goes on until the queue is empty or a batch is open.               *)
(***************************************************************************)
Undisturbed == ~MayFail /\ MaxStops = 0 /\ MaxCancels = 0

NoticeInv ==
  /\ calls["cancel"] = 0
  /\ stopPC = "none" /\ ~stopProcessing
  /\ handling <=> rtPC # "idle"
  /\ rtPC = "cleanup" => goOn
  /\ (rtPC \in {"idle", "complete"} /\ queue # <<>> /\ batchDepth = 0)
       => events > 0 \/ \E c \in Callers : callerPC[c] = "dispatch"

(* Then whoever announces a request has a thread to announce it to.        *)
LEMMA NoticeArrives ==
  ASSUME IInv, NoticeInv, queue # <<>> \/ calls["start"] > 0
  PROVE  Dispatched = events + 1
BY DEF IInv, TypeOK, CallerType, StopPhases, Ended, NoticeInv, Dispatched

(* NoticeInv is inductive when nothing disturbs the Run.                   *)
LEMMA NoticeStep ==
  ASSUME Undisturbed
  PROVE  IInv /\ LifeInv /\ NoticeInv /\ [Next]_vars => NoticeInv'
<1> SUFFICES ASSUME IInv, LifeInv, NoticeInv, [Next]_vars PROVE NoticeInv'
  OBVIOUS
<1>0. /\ calls \in [BoundedCalls -> Nat] /\ events \in Nat
      /\ callerPC \in [Callers -> {"ready", "dispatch", "cleanup"}]
      /\ queue \in Seq(Entries) /\ batchDepth \in Nat
      /\ ~abortRequests /\ ~Stopping
  BY SequenceTypes DEF IInv, TypeOK, ThreadType, QueueType, LifeInv,
                       NoticeInv, Stopping
<1> USE DEF members, lifecycle, xpcom, rt, callers, stop
<1>1. CASE Start
  BY <1>0, <1>1 DEF Start, NoticeInv, BoundedCalls, LifeInv
<1>2. CASE StopPushWrite
  BY <1>2 DEF StopPushWrite, NoticeInv
<1>3. ASSUME NEW c \in Callers, NEW r \in Requests, PushAccepted(c, r)
      PROVE  NoticeInv'
  <2>1. callerPC'[c] = "dispatch"
    BY <1>0, <1>3 DEF PushAccepted
  <2>2. QED BY <1>3, <2>1 DEF PushAccepted, NoticeInv
<1>4. ASSUME NEW c \in Callers, BatchBegin(c) PROVE NoticeInv'
  <2>1. batchDepth' # 0 /\ calls'["cancel"] = calls["cancel"]
    BY <1>0, <1>4 DEF BatchBegin, BoundedCalls
  <2>2. QED BY <1>4, <2>1 DEF BatchBegin, NoticeInv
<1>5. ASSUME NEW c \in Callers, BatchEnd(c) PROVE NoticeInv'
  <2>1. Dispatched = events + 1
    BY <1>5, NoticeArrives DEF BatchEnd, Ready
  <2>2. CASE batchDepth = 1
    BY <1>0, <1>5, <2>1, <2>2 DEF BatchEnd, NoticeInv
  <2>3. CASE batchDepth # 1
    BY <1>0, <1>5, <2>3 DEF BatchEnd, NoticeInv
  <2>4. QED BY <2>2, <2>3
<1>6. ASSUME NEW c \in Callers, Takes(c) PROVE NoticeInv'
  <2>1. ClearRequests(c)
    BY <1>0, <1>6 DEF Takes, CancelRequests, Undisturbed, NoticeInv
  <2>2. queue' = <<>> /\ calls'["cancel"] = calls["cancel"]
    BY <1>0, <2>1 DEF ClearRequests, TakeQueue, BoundedCalls
  <2>3. QED BY <2>1, <2>2 DEF ClearRequests, NoticeInv
<1>7. CASE PopBatch
  BY <1>7 DEF PopBatch, NoticeInv
<1>8. CASE OtherStep
  <2>1. CASE StopBegin \/ StopFlag \/ StopPushRead \/ StopDispatch
    BY <1>0, <2>1 DEF StopBegin, StopFlag, StopPushRead, StopDispatch,
                      Undisturbed, NoticeInv, BoundedCalls
  <2>2. CASE \E c \in Callers, r \in Requests : PushRejected(c, r)
    BY <1>0, <2>2 DEF PushRejected
  <2>3. ASSUME NEW c \in Callers, PushNotify(c) PROVE NoticeInv'
    <3>1. CASE queue # <<>> /\ batchDepth = 0
      <4>1. events' = events + 1
        BY <2>3, <3>1, NoticeArrives DEF PushNotify
      <4>2. QED BY <1>0, <2>3, <4>1 DEF PushNotify, NoticeInv
    <3>2. CASE queue = <<>> \/ batchDepth # 0
      BY <2>3, <3>2 DEF PushNotify, NoticeInv
    <3>3. QED BY <3>1, <3>2
  <2>4. ASSUME NEW c \in Callers, CallerCleanupBatch(c) PROVE NoticeInv'
    <3>1. \A d \in Callers : callerPC[d] = "dispatch"
                               => callerPC'[d] = "dispatch"
      BY <1>0, <2>4 DEF CallerCleanupBatch
    <3>2. QED BY <2>4, <3>1 DEF CallerCleanupBatch, NoticeInv
  <2>5. CASE StartRequests
    BY <2>5 DEF StartRequests, NoticeInv
  <2>6. CASE NestedEvent
    BY <2>6 DEF NestedEvent, NoticeInv
  <2>7. CASE PopNothing
    BY <1>0, <2>7 DEF PopNothing, NoticeInv
  <2>8. CASE ThreadStop
    <3>1. StopPopped
      BY <2>8 DEF ThreadStop, StopPopped
    <3>2. QED BY <3>1 DEF IInv, StopPhases, NoticeInv
  <2>9. CASE AbortBatch \/ ProcessAborted \/ ProcessFailed
    BY <1>0, <2>9 DEF AbortBatch, ProcessAborted, ProcessFailed, Undisturbed
  <2>10. CASE BeginBatch \/ ProcessItem \/ ProcessDone
    BY <2>10 DEF BeginBatch, ProcessItem, ProcessDone, NoticeInv
  <2>11. CASE CleanupBatch
    BY <2>11 DEF CleanupBatch, NoticeInv
  <2>12. CASE CompleteRequests
    BY <2>12 DEF CompleteRequests, NoticeInv
  <2>13. CASE MainThreadStep
    BY <2>13 DEF MainThreadStep, ThreadShutdownAction, ThreadExit, NoticeInv
  <2>14. CASE UNCHANGED vars
    BY <2>14 DEF vars, NoticeInv
  <2>15. QED BY <1>8, <2>1, <2>2, <2>3, <2>4, <2>5, <2>6, <2>7, <2>8, <2>9,
                <2>10, <2>11, <2>12, <2>13, <2>14
             DEF OtherStep, OtherThreadStep, CallerReturns
<1>9. QED BY <1>1, <1>2, <1>3, <1>4, <1>5, <1>6, <1>7, <1>8, Steps

-----------------------------------------------------------------------------
(* Nothing of an open batch leaves the queue before BatchEnd, until it is  *)
(* cleared or cancelled.                                                   *)
THEOREM OpenBatchWhole == Spec => []OpenBatchIsWhole
<1>1. BatchInv => OpenBatchIsWhole
  BY DEF BatchInv
<1>2. QED BY <1>1, BatchInvariance, PTL

(* The assertion in BatchEnd, "batch depth out of balance", holds until a  *)
(* cancel resets the depth.                                                *)
THEOREM DepthBalanced == Spec => []DepthInBalance
<1>1. IInv /\ BatchInv => DepthInBalance
  <2> SUFFICES ASSUME IInv, BatchInv, calls["cancel"] = 0,
                      NEW c \in Callers, open[c]
               PROVE  batchDepth > 0
    BY DEF DepthInBalance
  <2>1. batchDepth \in Nat /\ batchDepth # 0
    BY NoneOpen DEF IInv, TypeOK, QueueType
  <2>2. QED BY <2>1
<1>2. QED BY <1>1, Invariance, BatchInvariance, PTL

(* OnThreadStart runs before anything is processed, on every thread the    *)
(* queue is started with, until something is cleared or cancelled.         *)
THEOREM StartedFirst == Spec => []StartedBeforeProcessing
<1>1. ReadyInv => StartedBeforeProcessing
  BY DEF ReadyInv, StartedBeforeProcessing
<1>2. QED BY <1>1, ReadyInvariance, PTL

(* An accepted request is in one place and never lost, whoever pops,       *)
(* clears, cancels or stops at the same time, unless Stop's push is torn.  *)
THEOREM OneOwner == Spec => []SingleOwnerUnlessTorn
BY OwnerIs, OwnerInvariance, PTL

(* Requests are processed in the order in which PushRequest accepted them. *)
THEOREM InTurn == Spec => []NoOvertaking
BY OrderIs, OrderInvariance, PTL

(* When no batch fails and nothing is cancelled or stopped, what is queued *)
(* is known to the request thread, however pushes and nested events fall.  *)
THEOREM NoneStranded ==
  ASSUME Undisturbed
  PROVE  Spec => []NoStrandedRequest
<1>1. Init => NoticeInv
  BY DEF Init, NoticeInv, BoundedCalls
<1>2. NoticeInv => NoStrandedRequest
  BY DEF NoticeInv, NoStrandedRequest
<1>3. QED BY <1>1, <1>2, NoticeStep, Invariance, LifeInvariance, PTL DEF Spec

=============================================================================
