------------------------ MODULE QueryProcessorProofs ------------------------
(***************************************************************************)
(* Proofs about QueryProcessor, for any number of queries, pool threads    *)
(* and queues.  IInv is inductive: each action has a lemma, NextIInv puts  *)
(* them together, and the theorems at the end read the safety properties   *)
(* off IInv.                                                               *)
(***************************************************************************)
EXTENDS QueryProcessor, TLAPS

(* What Append adds to a sequence.                                         *)
LEMMA InAppend ==
  ASSUME NEW S, NEW s \in Seq(S), NEW x \in S
  PROVE  /\ Append(s, x) \in Seq(S)
         /\ In(x, Append(s, x))
         /\ \A y : y # x => (In(y, Append(s, x)) <=> In(y, s))
         /\ Distinct(s) /\ ~In(x, s) => Distinct(Append(s, x))
<1>1. /\ Append(s, x) \in Seq(S)
      /\ DOMAIN Append(s, x) = DOMAIN s \cup {Len(s) + 1}
      /\ \A i \in DOMAIN s : Append(s, x)[i] = s[i]
      /\ Append(s, x)[Len(s) + 1] = x
  OBVIOUS
<1>2. QED BY <1>1 DEF In, Distinct

(* What Tail takes from a sequence.                                        *)
LEMMA InTail ==
  ASSUME NEW S, NEW s \in Seq(S), s # <<>>
  PROVE  /\ Tail(s) \in Seq(S) /\ Head(s) \in S
         /\ In(Head(s), s)
         /\ \A y : In(y, Tail(s)) => In(y, s)
         /\ \A y : y # Head(s) => (In(y, Tail(s)) <=> In(y, s))
         /\ Distinct(s) => Distinct(Tail(s)) /\ ~In(Head(s), Tail(s))
<1>1. /\ Tail(s) \in Seq(S) /\ Head(s) = s[1] /\ 1 \in DOMAIN s
      /\ DOMAIN s = 1..Len(s) /\ DOMAIN Tail(s) = 1..(Len(s) - 1)
      /\ \A i \in DOMAIN Tail(s) : i + 1 \in DOMAIN s /\ Tail(s)[i] = s[i + 1]
      /\ \A i \in DOMAIN s : i = 1 \/ (i - 1 \in DOMAIN Tail(s) /\ s[i] =
            Tail(s)[i - 1])
      /\ Len(s) \in Nat
  OBVIOUS
<1>2. Head(s) \in S /\ In(Head(s), s)
  BY <1>1 DEF In
<1>3. \A y : In(y, Tail(s)) => In(y, s)
  BY <1>1 DEF In
<1>4. \A y : y # Head(s) => (In(y, Tail(s)) <=> In(y, s))
  BY <1>1 DEF In
<1>5. Distinct(s) => Distinct(Tail(s)) /\ ~In(Head(s), Tail(s))
  BY <1>1 DEF In, Distinct
<1>6. QED BY <1>1, <1>2, <1>3, <1>4, <1>5

(* Nothing is in the empty sequence.                                       *)
LEMMA Empty == ASSUME NEW x PROVE ~In(x, <<>>) /\ Distinct(<<>>)
BY DEF In, Distinct

(* Execute preserves IInv.                                               *)
LEMMA ExecuteStep == ASSUME IInv, NEW q \in Queries, Execute(q) PROVE IInv'
<1>. USE DEF IInv, TypeOK, Execute, Reset, Restarted, queues, engine,
             worker, main
<1>1. QueryType'
  BY QueryAssumption DEF QueryType
<1>2. ThreadType'
  BY DEF ThreadType
<1>3. Places'
  BY DEF Places
<1>4. NoStrandedQuery'
  BY DEF NoStrandedQuery, Attended, Worked, ThreadType
<1>5. PlacedIsMarked'
  BY DEF PlacedIsMarked, Queued, OnSomeQueue, InHand
<1>6. MarkedIsPlaced'
  BY DEF MarkedIsPlaced, Queued, OnSomeQueue, InHand
<1>7. WaiterRemembered'
  BY DEF WaiterRemembered, MarkedIsPlaced, Queued, OnSomeQueue, InHand
<1>8. (CompletedIsServed /\ AnswerIsFresh)'
  BY
    DEF AnswerIsFresh, CompletedIsServed, Queued, OnSomeQueue, InHand,
        QueryType, ThreadType
<1>9. (QueueType /\ EngineType)'
  BY DEF QueueType, EngineType
<1>10. (SingleProcessor /\ RunningIsWorked)'
  BY DEF SingleProcessor, RunningIsWorked, Worked
<1>11. HeldOnce'
  BY DEF HeldOnce, Queued, InHand
<1>12. QED BY <1>1, <1>2, <1>3, <1>4, <1>5, <1>6, <1>7, <1>8, <1>9, <1>10,
              <1>11

(* ExecuteAgain preserves IInv.                                          *)
LEMMA ExecuteAgainStep ==
  ASSUME IInv, NEW q \in Queries, ExecuteAgain(q)
  PROVE  IInv'
<1>. USE DEF IInv, TypeOK, ExecuteAgain, Reset, Restarted, queues, engine,
             worker, main
<1>1. QueryType'
  BY QueryAssumption DEF QueryType
<1>2. ThreadType'
  BY DEF ThreadType
<1>3. Places'
  BY DEF Places
<1>4. NoStrandedQuery'
  BY DEF NoStrandedQuery, Attended, Worked, ThreadType
<1>5. PlacedIsMarked'
  BY DEF PlacedIsMarked, Queued, OnSomeQueue, InHand
<1>6. MarkedIsPlaced'
  BY DEF MarkedIsPlaced, Queued, OnSomeQueue, InHand
<1>7. WaiterRemembered'
  BY DEF WaiterRemembered, Queued, OnSomeQueue, InHand, QueryType, ThreadType
<1>8. (CompletedIsServed /\ AnswerIsFresh)'
  BY
    DEF AnswerIsFresh, CompletedIsServed, Queued, OnSomeQueue, InHand,
        QueryType, ThreadType
<1>9. (QueueType /\ EngineType)'
  BY DEF QueueType, EngineType
<1>10. (SingleProcessor /\ RunningIsWorked)'
  BY DEF SingleProcessor, RunningIsWorked, Worked
<1>11. HeldOnce'
  BY DEF HeldOnce, Queued, InHand
<1>12. QED BY <1>1, <1>2, <1>3, <1>4, <1>5, <1>6, <1>7, <1>8, <1>9, <1>10,
              <1>11

(* Submit preserves IInv.                                                *)
LEMMA SubmitStep == ASSUME IInv, NEW q \in Queries, Submit(q) PROVE IInv'
<1>. USE DEF IInv, TypeOK, Submit, Submittable, queues, engine, flags,
             worker, main
<1>1. QueryType'
  BY QueryAssumption DEF QueryType
<1>2. ThreadType'
  BY DEF ThreadType
<1>3. Places'
  BY DEF Places
<1>4. NoStrandedQuery'
  BY DEF NoStrandedQuery, Attended, Worked, ThreadType
<1>5. PlacedIsMarked'
  BY DEF PlacedIsMarked, Queued, OnSomeQueue, InHand
<1>6. MarkedIsPlaced'
  BY DEF MarkedIsPlaced, Queued, OnSomeQueue, InHand
<1>7. WaiterRemembered'
  BY DEF WaiterRemembered, MarkedIsPlaced, Queued, OnSomeQueue, InHand
<1>8. (CompletedIsServed /\ AnswerIsFresh)'
  BY
    DEF AnswerIsFresh, CompletedIsServed, Queued, OnSomeQueue, InHand,
        QueryType, ThreadType
<1>9. (QueueType /\ EngineType)'
  BY DEF QueueType, EngineType
<1>10. (SingleProcessor /\ RunningIsWorked)'
  BY DEF SingleProcessor, RunningIsWorked, Worked
<1>11. HeldOnce'
  BY DEF HeldOnce, Queued, InHand
<1>12. QED BY <1>1, <1>2, <1>3, <1>4, <1>5, <1>6, <1>7, <1>8, <1>9, <1>10,
              <1>11

(* Lookup preserves IInv.                                                  *)
LEMMA LookupStep == ASSUME IInv, NEW q \in Queries, Lookup(q) PROVE IInv'
<1>. USE DEF IInv, TypeOK, Lookup, queues, engine, flags, worker, main,
             history
<1>1. ThreadType'
  <2>1. current \in Queues
    BY QueryAssumption DEF EngineType, Queues, NoQueue
  <2>2. QED BY <2>1 DEF ThreadType
<1>2. Places'
  BY DEF Places, ThreadType
<1>3. NoStrandedQuery'
  BY DEF NoStrandedQuery, Attended, Worked
<1>4. PlacedIsMarked'
  BY DEF PlacedIsMarked, Queued, OnSomeQueue, InHand
<1>5. MarkedIsPlaced'
  BY DEF MarkedIsPlaced, Queued, OnSomeQueue, InHand
<1>6. WaiterRemembered'
  BY DEF WaiterRemembered, Queued, OnSomeQueue, InHand
<1>7. (CompletedIsServed /\ AnswerIsFresh)'
  BY
    DEF AnswerIsFresh, CompletedIsServed, Queued, OnSomeQueue, InHand
<1>8. (QueueType /\ EngineType /\ QueryType)'
  BY DEF QueueType, EngineType, QueryType
<1>9. (SingleProcessor /\ RunningIsWorked)'
  BY DEF SingleProcessor, RunningIsWorked, Worked
<1>10. HeldOnce'
  BY DEF HeldOnce, Queued, InHand
<1>11. QED BY <1>1, <1>2, <1>3, <1>4, <1>5, <1>6, <1>7, <1>8, <1>9, <1>10

(* Open preserves IInv.                                                    *)
LEMMA OpenStep == ASSUME IInv, NEW q \in Queries, Open(q) PROVE IInv'
<1>. USE DEF IInv, TypeOK, Open, queues, flags, worker, main, history
<1>1. EngineType'
  BY QueryAssumption DEF EngineType
<1>2. ThreadType'
  <2>1. opened' \in Queues
    BY QueryAssumption DEF EngineType, Queues
  <2>2. QED BY <2>1 DEF ThreadType
<1>3. Places'
  BY DEF Places, ThreadType, EngineType
<1>4. NoStrandedQuery'
  BY DEF NoStrandedQuery, Attended, Worked
<1>5. PlacedIsMarked'
  BY DEF PlacedIsMarked, Queued, OnSomeQueue, InHand
<1>6. MarkedIsPlaced'
  BY DEF MarkedIsPlaced, Queued, OnSomeQueue, InHand
<1>7. WaiterRemembered'
  BY DEF WaiterRemembered, Queued, OnSomeQueue, InHand
<1>8. (CompletedIsServed /\ AnswerIsFresh)'
  BY
    DEF AnswerIsFresh, CompletedIsServed, Queued, OnSomeQueue, InHand
<1>9. (QueueType /\ QueryType)'
  BY DEF QueueType, QueryType
<1>10. (SingleProcessor /\ RunningIsWorked)'
  BY DEF SingleProcessor, RunningIsWorked, Worked
<1>11. HeldOnce'
  BY DEF HeldOnce, Queued, InHand
<1>12. QED BY <1>1, <1>2, <1>3, <1>4, <1>5, <1>6, <1>7, <1>8, <1>9, <1>10,
              <1>11

(* OpenFails preserves IInv.                                               *)
LEMMA OpenFailsStep ==
  ASSUME IInv, NEW q \in Queries, OpenFails(q)
  PROVE  IInv'
<1>. USE DEF IInv, TypeOK, OpenFails, Failed, queues, engine, worker, main,
             history
<1>1. QueryType'
  BY DEF QueryType
<1>2. ThreadType'
  BY DEF ThreadType
<1>3. Places'
  BY DEF Places
<1>4. NoStrandedQuery'
  BY DEF NoStrandedQuery, Attended, Worked, ThreadType
<1>5. PlacedIsMarked'
  BY DEF PlacedIsMarked, Queued, OnSomeQueue, InHand
<1>6. MarkedIsPlaced'
  BY DEF MarkedIsPlaced, Queued, OnSomeQueue, InHand
<1>7. WaiterRemembered'
  BY DEF WaiterRemembered, Queued, OnSomeQueue, InHand
<1>8. (CompletedIsServed /\ AnswerIsFresh)'
  BY
    DEF AnswerIsFresh, CompletedIsServed, Queued, OnSomeQueue, InHand, ThreadType
<1>9. (QueueType /\ EngineType)'
  BY DEF QueueType, EngineType
<1>10. (SingleProcessor /\ RunningIsWorked)'
  BY DEF SingleProcessor, RunningIsWorked, Worked
<1>11. HeldOnce'
  BY DEF HeldOnce, Queued, InHand
<1>12. QED BY <1>1, <1>2, <1>3, <1>4, <1>5, <1>6, <1>7, <1>8, <1>9, <1>10,
              <1>11

(* Push preserves IInv.                                                    *)
LEMMA PushStep == ASSUME IInv, NEW q \in Queries, Push(q) PROVE IInv'
<1>. USE DEF IInv, TypeOK, Push, engine, flags, worker, main
<1>1. target[q] \in Queues
  BY DEF Places, ThreadType
<1>2. /\ queue'[target[q]] = Append(queue[target[q]], q)
      /\ \A k \in Queues : k # target[q] => queue'[k] = queue[k]
  BY <1>1 DEF QueueType
<1>3. \A p \in Queries, k \in Queues :
        Queued(p, k)' <=> Queued(p, k) \/ (p = q /\ k = target[q])
  BY <1>1, <1>2, InAppend DEF QueueType, Queued
<1>4. ~OnSomeQueue(q) /\ ~InHand(q)
  BY DEF PlacedIsMarked
<1>5. \A p \in Queries : /\ OnSomeQueue(p)' <=> OnSomeQueue(p) \/ p = q
                         /\ InHand(p)' <=> InHand(p)
  BY <1>1, <1>3 DEF OnSomeQueue, InHand
<1>6. QueueType'
  BY <1>1, InAppend DEF QueueType
<1>7. QueryType'
  BY DEF QueryType
<1>8. ThreadType'
  BY DEF ThreadType
<1>9. Places'
  BY DEF Places
<1>10. NoStrandedQuery'
  BY <1>2 DEF NoStrandedQuery, Attended, Worked, ThreadType
<1>11. HeldOnce'
  <2>1. \A k \in Queues : Distinct(queue[k])'
    BY <1>1, <1>2, <1>4, InAppend DEF HeldOnce, QueueType, Queued, OnSomeQueue
  <2>2. \A p \in Queries, k, l \in Queues : Queued(p, k)' /\ Queued(p, l)'
        => k = l
    BY <1>3, <1>4 DEF HeldOnce, OnSomeQueue
  <2>3. \A p \in Queries : InHand(p)' => \A k \in Queues : ~Queued(p, k)'
    BY <1>3, <1>4, <1>5 DEF HeldOnce
  <2>4. \A p \in Queries, u, v \in Workers : job'[u] = p /\ job'[v] = p
        => u = v
    BY DEF HeldOnce
  <2>5. QED BY <2>1, <2>2, <2>3, <2>4 DEF HeldOnce
<1>12. PlacedIsMarked'
  BY <1>4, <1>5 DEF PlacedIsMarked, ThreadType
<1>13. MarkedIsPlaced'
  BY <1>5 DEF MarkedIsPlaced
<1>14. WaiterRemembered'
  BY <1>5 DEF WaiterRemembered
<1>15. (CompletedIsServed /\ AnswerIsFresh)'
  BY <1>5 
    DEF AnswerIsFresh, CompletedIsServed
<1>16. EngineType'
  BY DEF EngineType
<1>17. (SingleProcessor /\ RunningIsWorked)'
  BY DEF SingleProcessor, RunningIsWorked, Worked
<1>18. QED BY <1>1, <1>2, <1>3, <1>4, <1>5, <1>6, <1>7, <1>8, <1>9, <1>10,
              <1>11, <1>12, <1>13, <1>14, <1>15, <1>16, <1>17

(* Mark preserves IInv.                                                    *)
LEMMA MarkStep == ASSUME IInv, NEW q \in Queries, Mark(q) PROVE IInv'
<1>. USE DEF IInv, TypeOK, Mark, Marked, queues, engine, worker, main
<1>1. QueryType'
  BY DEF QueryType
<1>2. ThreadType'
  BY DEF ThreadType
<1>3. Places'
  BY DEF Places
<1>4. NoStrandedQuery'
  BY DEF NoStrandedQuery, Attended, Worked
<1>5. PlacedIsMarked'
  BY DEF PlacedIsMarked, Queued, OnSomeQueue, InHand, QueryType
<1>6. MarkedIsPlaced'
  BY DEF MarkedIsPlaced, Queued, OnSomeQueue, InHand
<1>7. WaiterRemembered'
  BY DEF WaiterRemembered, Queued, OnSomeQueue, InHand
<1>8. (CompletedIsServed /\ AnswerIsFresh)'
  BY
    DEF AnswerIsFresh, CompletedIsServed, Queued, OnSomeQueue, InHand
<1>9. (QueueType /\ EngineType)'
  BY DEF QueueType, EngineType
<1>10. (SingleProcessor /\ RunningIsWorked)'
  BY DEF SingleProcessor, RunningIsWorked, Worked
<1>11. HeldOnce'
  BY DEF HeldOnce, Queued, InHand
<1>12. QED BY <1>1, <1>2, <1>3, <1>4, <1>5, <1>6, <1>7, <1>8, <1>9, <1>10,
              <1>11

(* RunQueue preserves IInv.                                                *)
LEMMA RunQueueStep == ASSUME IInv, NEW q \in Queries, RunQueue(q) PROVE IInv'
<1>. USE DEF IInv, TypeOK, RunQueue, Dispatched, engine, flags, worker, main
<1>1. target[q] \in Queues
  BY DEF Places, ThreadType
<1>2. /\ events' \in Seq(Queues)
      /\ \A k \in Queues : In(k, events') <=> In(k, events) \/ (k = target[q]
            /\ ~running[target[q]])
      /\ Distinct(events')
  <2>1. CASE running[target[q]]
    BY <2>1 DEF EngineType, SingleProcessor
  <2>2. CASE ~running[target[q]]
    <3>1. ~In(target[q], events)
      BY <1>1, <2>2 DEF RunningIsWorked, Worked
    <3>2. events' = Append(events, target[q])
      BY <2>2
    <3>3. QED BY <1>1, <2>2, <3>1, <3>2, InAppend
      DEF EngineType, SingleProcessor
  <2>3. QED BY <2>1, <2>2
<1>3. \A k \in Queues : Worked(k)' <=> Worked(k) \/ (k = target[q] /\
      ~running[target[q]])
  BY <1>2 DEF Worked
<1>4. QueueType'
  BY DEF QueueType
<1>5. EngineType'
  BY <1>2 DEF EngineType
<1>6. QueryType'
  BY DEF QueryType
<1>7. ThreadType'
  BY DEF ThreadType
<1>8. Places'
  BY DEF Places, ThreadType
<1>9. SingleProcessor'
  <2>1. \A w \in Workers : works[w] # NoQueue
        => works[w] \in Queues /\ running[works[w]]
    BY DEF RunningIsWorked, Worked, ThreadType
  <2>2. \A w \in Workers : works[w] # NoQueue => ~In(works[w], events')
    BY <1>2, <2>1 DEF SingleProcessor
  <2>3. QED BY <1>2, <2>2 DEF SingleProcessor
<1>10. RunningIsWorked'
  BY <1>1, <1>3 DEF RunningIsWorked, QueueType
<1>11. NoStrandedQuery'
  <2>1. \A k \in Queues : Attended(k) /\ poolUp => Attended(k)'
    BY <1>1, <1>3 DEF Attended, RunningIsWorked
  <2>2. QED BY <2>1 DEF NoStrandedQuery
<1>12. PlacedIsMarked'
  BY DEF PlacedIsMarked, Queued, OnSomeQueue, InHand
<1>13. MarkedIsPlaced'
  BY DEF MarkedIsPlaced, Queued, OnSomeQueue, InHand, ThreadType
<1>14. WaiterRemembered'
  BY DEF WaiterRemembered, Queued, OnSomeQueue, InHand
<1>15. (CompletedIsServed /\ AnswerIsFresh)'
  BY
    DEF AnswerIsFresh, CompletedIsServed, Queued, OnSomeQueue, InHand
<1>16. HeldOnce'
  BY DEF HeldOnce, Queued, InHand
<1>17. QED BY <1>1, <1>2, <1>3, <1>4, <1>5, <1>6, <1>7, <1>8, <1>9, <1>10,
              <1>11, <1>12, <1>13, <1>14, <1>15, <1>16

(* RunQueueFails preserves IInv.                                           *)
LEMMA RunQueueFailsStep ==
  ASSUME IInv, NEW q \in Queries, RunQueueFails(q)
  PROVE  IInv'
<1>. USE DEF IInv, TypeOK, RunQueueFails, Failed, engine, worker, main,
             history
<1>1. QueueType'
  BY DEF QueueType
<1>2. QueryType'
  BY DEF QueryType
<1>3. ThreadType'
  BY DEF ThreadType
<1>4. Places'
  BY DEF Places, ThreadType
<1>5. RunningIsWorked'
  BY DEF RunningIsWorked, Worked
<1>6. NoStrandedQuery'
  BY DEF NoStrandedQuery
<1>7. PlacedIsMarked'
  BY DEF PlacedIsMarked, Queued, OnSomeQueue, InHand
<1>8. MarkedIsPlaced'
  BY DEF MarkedIsPlaced, Queued, OnSomeQueue, InHand
<1>9. WaiterRemembered'
  BY DEF WaiterRemembered, Queued, OnSomeQueue, InHand
<1>10. (CompletedIsServed /\ AnswerIsFresh)'
  BY
    DEF AnswerIsFresh, CompletedIsServed, Queued, OnSomeQueue, InHand, ThreadType
<1>11. EngineType'
  BY DEF EngineType
<1>12. SingleProcessor'
  BY DEF SingleProcessor
<1>13. HeldOnce'
  BY DEF HeldOnce, Queued, InHand
<1>14. QED BY <1>1, <1>2, <1>3, <1>4, <1>5, <1>6, <1>7, <1>8, <1>9, <1>10,
              <1>11, <1>12, <1>13

(* WaitForCompletion preserves IInv.                                       *)
LEMMA WaitForCompletionStep ==
  ASSUME IInv, NEW q \in Queries, WaitForCompletion(q)
  PROVE  IInv'
<1>. USE DEF IInv, TypeOK, WaitForCompletion, Waiting, queues, engine, flags,
             worker, main, history
<1>1. ThreadType'
  BY DEF ThreadType
<1>2. Places'
  BY DEF Places
<1>3. NoStrandedQuery'
  BY DEF NoStrandedQuery, Attended, Worked
<1>4. PlacedIsMarked'
  BY DEF PlacedIsMarked, Queued, OnSomeQueue, InHand
<1>5. MarkedIsPlaced'
  BY DEF MarkedIsPlaced, Queued, OnSomeQueue, InHand
<1>6. WaiterRemembered'
  BY DEF WaiterRemembered, Queued, OnSomeQueue, InHand
<1>7. (CompletedIsServed /\ AnswerIsFresh)'
  BY
    DEF AnswerIsFresh, CompletedIsServed, Queued, OnSomeQueue, InHand
<1>8. (QueueType /\ EngineType /\ QueryType)'
  BY DEF QueueType, EngineType, QueryType
<1>9. (SingleProcessor /\ RunningIsWorked)'
  BY DEF SingleProcessor, RunningIsWorked, Worked
<1>10. HeldOnce'
  BY DEF HeldOnce, Queued, InHand
<1>11. QED BY <1>1, <1>2, <1>3, <1>4, <1>5, <1>6, <1>7, <1>8, <1>9, <1>10

(* CallWait preserves IInv.                                                *)
LEMMA CallWaitStep == ASSUME IInv, NEW q \in Queries, CallWait(q) PROVE IInv'
<1>. USE DEF IInv, TypeOK, CallWait, Waiting, queues, engine, flags, worker,
             main, history
<1>1. ThreadType'
  BY DEF ThreadType
<1>2. Places'
  BY DEF Places
<1>3. NoStrandedQuery'
  BY DEF NoStrandedQuery, Attended, Worked
<1>4. PlacedIsMarked'
  BY DEF PlacedIsMarked, Queued, OnSomeQueue, InHand
<1>5. MarkedIsPlaced'
  BY DEF MarkedIsPlaced, Queued, OnSomeQueue, InHand
<1>6. WaiterRemembered'
  BY DEF WaiterRemembered, Queued, OnSomeQueue, InHand
<1>7. (CompletedIsServed /\ AnswerIsFresh)'
  BY
    DEF AnswerIsFresh, CompletedIsServed, Queued, OnSomeQueue, InHand
<1>8. (QueueType /\ EngineType /\ QueryType)'
  BY DEF QueueType, EngineType, QueryType
<1>9. (SingleProcessor /\ RunningIsWorked)'
  BY DEF SingleProcessor, RunningIsWorked, Worked
<1>10. HeldOnce'
  BY DEF HeldOnce, Queued, InHand
<1>11. QED BY <1>1, <1>2, <1>3, <1>4, <1>5, <1>6, <1>7, <1>8, <1>9, <1>10

(* PollDone preserves IInv.                                                *)
LEMMA PollDoneStep == ASSUME IInv, NEW q \in Queries, PollDone(q) PROVE IInv'
<1>. USE DEF IInv, TypeOK, PollDone, queues, engine, flags, worker, main,
             history
<1>1. ThreadType'
  BY DEF ThreadType
<1>2. Places'
  BY DEF Places
<1>3. NoStrandedQuery'
  BY DEF NoStrandedQuery, Attended, Worked
<1>4. PlacedIsMarked'
  BY DEF PlacedIsMarked, Queued, OnSomeQueue, InHand
<1>5. MarkedIsPlaced'
  BY DEF MarkedIsPlaced, Queued, OnSomeQueue, InHand
<1>6. WaiterRemembered'
  BY DEF WaiterRemembered, Queued, OnSomeQueue, InHand
<1>7. (CompletedIsServed /\ AnswerIsFresh)'
  BY
    DEF AnswerIsFresh, CompletedIsServed, Queued, OnSomeQueue, InHand
<1>8. (QueueType /\ EngineType /\ QueryType)'
  BY DEF QueueType, EngineType, QueryType
<1>9. (SingleProcessor /\ RunningIsWorked)'
  BY DEF SingleProcessor, RunningIsWorked, Worked
<1>10. HeldOnce'
  BY DEF HeldOnce, Queued, InHand
<1>11. QED BY <1>1, <1>2, <1>3, <1>4, <1>5, <1>6, <1>7, <1>8, <1>9, <1>10

(* Abort preserves IInv.                                                   *)
LEMMA AbortStep == ASSUME IInv, NEW q \in Queries, Abort(q) PROVE IInv'
<1>. USE DEF IInv, TypeOK, Abort, queues, engine, flags, worker, main, history
<1>1. ThreadType'
  BY DEF ThreadType
<1>2. Places'
  BY DEF Places
<1>3. NoStrandedQuery'
  BY DEF NoStrandedQuery, Attended, Worked
<1>4. PlacedIsMarked'
  BY DEF PlacedIsMarked, Queued, OnSomeQueue, InHand
<1>5. MarkedIsPlaced'
  BY DEF MarkedIsPlaced, Queued, OnSomeQueue, InHand
<1>6. WaiterRemembered'
  BY DEF WaiterRemembered, Queued, OnSomeQueue, InHand
<1>7. (CompletedIsServed /\ AnswerIsFresh)'
  BY
    DEF AnswerIsFresh, CompletedIsServed, Queued, OnSomeQueue, InHand
<1>8. (QueueType /\ EngineType /\ QueryType)'
  BY DEF QueueType, EngineType, QueryType
<1>9. (SingleProcessor /\ RunningIsWorked)'
  BY DEF SingleProcessor, RunningIsWorked, Worked
<1>10. HeldOnce'
  BY DEF HeldOnce, Queued, InHand
<1>11. QED BY <1>1, <1>2, <1>3, <1>4, <1>5, <1>6, <1>7, <1>8, <1>9, <1>10

(* AbortMark preserves IInv.                                               *)
LEMMA AbortMarkStep ==
  ASSUME IInv, NEW q \in Queries, AbortMark(q)
  PROVE  IInv'
<1>. USE DEF IInv, TypeOK, AbortMark, queues, engine, worker, main, history
<1>1. QueryType'
  BY DEF QueryType
<1>2. ThreadType'
  BY DEF ThreadType
<1>3. Places'
  BY DEF Places
<1>4. NoStrandedQuery'
  BY DEF NoStrandedQuery, Attended, Worked, ThreadType
<1>5. PlacedIsMarked'
  BY DEF PlacedIsMarked, Queued, OnSomeQueue, InHand
<1>6. MarkedIsPlaced'
  BY DEF MarkedIsPlaced, Queued, OnSomeQueue, InHand
<1>7. WaiterRemembered'
  BY DEF WaiterRemembered, Queued, OnSomeQueue, InHand
<1>8. (CompletedIsServed /\ AnswerIsFresh)'
  BY
    DEF AnswerIsFresh, CompletedIsServed, Queued, OnSomeQueue, InHand
<1>9. (QueueType /\ EngineType)'
  BY DEF QueueType, EngineType
<1>10. (SingleProcessor /\ RunningIsWorked)'
  BY DEF SingleProcessor, RunningIsWorked, Worked
<1>11. HeldOnce'
  BY DEF HeldOnce, Queued, InHand
<1>12. QED BY <1>1, <1>2, <1>3, <1>4, <1>5, <1>6, <1>7, <1>8, <1>9, <1>10,
              <1>11

(* Take preserves IInv.                                                    *)
LEMMA TakeStep == ASSUME IInv, NEW w \in Workers, Take(w) PROVE IInv'
<1>. USE DEF IInv, TypeOK, Take, queues, engine, flags, client, main, history
<1>1. /\ Head(events) \in Queues /\ Tail(events) \in Seq(Queues)
      /\ In(Head(events), events)
      /\ ~In(Head(events), Tail(events)) /\ Distinct(Tail(events))
      /\ \A k : In(k, Tail(events)) => In(k, events)
      /\ \A k : k # Head(events) => (In(k, Tail(events)) <=> In(k, events))
  BY InTail DEF EngineType, SingleProcessor
<1>2. works[w] = NoQueue /\ job[w] = None /\ NoQueue \notin Queues
  BY DEF Places, Queues, NoQueue
<1>3. \A v \in Workers : works[v] # Head(events)
  BY <1>1, <1>2 DEF SingleProcessor
<1>4. /\ works' = [works EXCEPT ![w] = Head(events)] /\ events' = Tail(events)
      /\ works'[w] = Head(events)
      /\ \A v \in Workers : v # w => works'[v] = works[v]
  BY DEF ThreadType
<1>5. \A k \in Queues : Worked(k)' <=> Worked(k)
  BY <1>1, <1>2, <1>3, <1>4 DEF Worked
<1>6. EngineType'
  BY <1>1 DEF EngineType
<1>7. ThreadType'
  BY <1>1 DEF ThreadType
<1>8. Places'
  BY <1>1, <1>2 DEF Places, ThreadType
<1>9. SingleProcessor'
  BY <1>1, <1>3, <1>4 DEF SingleProcessor
<1>10. RunningIsWorked'
  BY <1>5 DEF RunningIsWorked
<1>11. NoStrandedQuery'
  BY <1>5 DEF NoStrandedQuery, Attended
<1>12. (QueueType /\ QueryType)'
  BY DEF QueueType, QueryType
<1>13. (HeldOnce /\ PlacedIsMarked /\ MarkedIsPlaced)'
  BY DEF HeldOnce, Queued, InHand, PlacedIsMarked, OnSomeQueue, MarkedIsPlaced
<1>14. (WaiterRemembered /\ CompletedIsServed /\ AnswerIsFresh)'
  BY DEF WaiterRemembered, Queued, OnSomeQueue, InHand, CompletedIsServed,
         AnswerIsFresh
<1>15. QED BY <1>1, <1>2, <1>3, <1>4, <1>5, <1>6, <1>7, <1>8, <1>9, <1>10,
              <1>11, <1>12, <1>13, <1>14

(* Pick preserves IInv when the worker leaves the loop.                    *)
LEMMA PickStopStep ==
  ASSUME IInv, NEW w \in Workers, Pick(w), queue[works[w]] = <<>> \/
         shutdown[works[w]]
  PROVE  IInv'
<1>. USE DEF IInv, TypeOK, Pick, Stopped, engine, flags, client, main, history
<1>1. /\ works[w] \in Queues /\ job[w] = None
      /\ queue' = queue /\ job' = job /\ running' = [running EXCEPT
            ![works[w]] = FALSE]
      /\ works' = [works EXCEPT ![w] = NoQueue] /\ at' = [at EXCEPT ![w] =
            "free"]
  BY DEF Places, ThreadType
<1>2. /\ NoQueue \notin Queues /\ works'[w] = NoQueue
      /\ \A v \in Workers : v # w
            => works'[v] = works[v] /\ works[v] # works[w]
  BY <1>1 DEF SingleProcessor, ThreadType, Queues, NoQueue
<1>3. \A k \in Queues : Worked(k)' <=> Worked(k) /\ k # works[w]
  BY <1>1, <1>2 DEF Worked, SingleProcessor
<1>4. QueueType'
  BY <1>1 DEF QueueType
<1>5. ThreadType'
  BY <1>1 DEF ThreadType
<1>6. Places'
  BY <1>1, <1>2 DEF Places, ThreadType
<1>7. SingleProcessor'
  BY <1>2 DEF SingleProcessor
<1>8. RunningIsWorked'
  BY <1>1, <1>3 DEF RunningIsWorked, QueueType
<1>9. NoStrandedQuery'
  <2>1. \A k \in Queues : k # works[w] /\ Attended(k) => Attended(k)'
    BY <1>3 DEF Attended
  <2>2. QED BY <1>1, <2>1 DEF NoStrandedQuery
<1>10. (EngineType /\ QueryType)'
  BY DEF EngineType, QueryType
<1>11. (HeldOnce /\ PlacedIsMarked /\ MarkedIsPlaced)'
  BY DEF HeldOnce, Queued, InHand, PlacedIsMarked, OnSomeQueue, MarkedIsPlaced
<1>12. (WaiterRemembered /\ CompletedIsServed /\ AnswerIsFresh)'
  BY DEF WaiterRemembered, Queued, OnSomeQueue, InHand, CompletedIsServed,
         AnswerIsFresh
<1>13. QED BY <1>1, <1>2, <1>3, <1>4, <1>5, <1>6, <1>7, <1>8, <1>9, <1>10,
              <1>11, <1>12

(* Pick preserves IInv when the worker takes a query.                      *)
LEMMA PickPopStep ==
  ASSUME IInv, NEW w \in Workers, Pick(w), queue[works[w]] # <<>>,
         ~shutdown[works[w]]
  PROVE  IInv'
<1>. USE DEF IInv, TypeOK, Pick, Stopped, engine, flags, client, main, history
<1>1. /\ works[w] \in Queues /\ job[w] = None
      /\ works' = works /\ running' = [running EXCEPT ![works[w]] = TRUE]
      /\ job' = [job EXCEPT ![w] = Head(queue[works[w]])]
      /\ queue' = [queue EXCEPT ![works[w]] = Tail(@)]
      /\ at' = [at EXCEPT ![w] = "enter"]
  BY DEF Places, ThreadType
<1>2. LET s == queue[works[w]]
      IN  /\ Tail(s) \in Seq(Queries) /\ Head(s) \in Queries
          /\ In(Head(s), s) /\ ~In(Head(s), Tail(s)) /\ Distinct(Tail(s))
          /\ \A q : q # Head(s) => (In(q, Tail(s)) <=> In(q, s))
  BY <1>1, InTail DEF QueueType, HeldOnce
<1>3. PICK p \in Queries : p = Head(queue[works[w]])
  BY <1>2
<1>4. /\ job'[w] = p /\ \A v \in Workers : v # w => job'[v] = job[v]
      /\ p # None
  BY <1>1, <1>3, QueryAssumption DEF ThreadType
<1>5. Queued(p, works[w])
  BY <1>2, <1>3 DEF Queued
<1>6. ~InHand(p) /\ \A k \in Queues : Queued(p, k) <=> k = works[w]
  BY <1>1, <1>5 DEF HeldOnce
<1>7. \A q \in Queries, k \in Queues : Queued(q, k)' <=> Queued(q, k) /\ q # p
  <2>1. SUFFICES ASSUME NEW q \in Queries, NEW k \in Queues
        PROVE  In(q, queue'[k]) <=> In(q, queue[k]) /\ q # p
    BY DEF Queued
  <2>2. CASE k = works[w]
    BY <1>1, <1>2, <1>3, <2>2 DEF QueueType
  <2>3. CASE k # works[w]
    BY <1>1, <1>6, <2>3 DEF Queued
  <2>4. QED BY <2>2, <2>3
<1>8. \A q \in Queries : InHand(q)' <=> InHand(q) \/ q = p
  BY <1>1, <1>4, QueryAssumption DEF InHand
<1>9. \A q \in Queries : OnSomeQueue(q)' \/ InHand(q)' <=> OnSomeQueue(q) \/
      InHand(q)
  BY <1>1, <1>5, <1>7, <1>8 DEF OnSomeQueue
<1>10. QueueType'
  BY <1>1, <1>2 DEF QueueType
<1>11. ThreadType'
  BY <1>1, <1>2 DEF ThreadType
<1>12. Places'
  BY <1>1, <1>4 DEF Places, ThreadType
<1>13. RunningIsWorked'
  BY <1>1 DEF RunningIsWorked, Worked
<1>14. NoStrandedQuery'
  <2>1. Worked(works[w])'
    BY <1>1 DEF Worked
  <2>2. \A k \in Queues : k # works[w] => queue'[k] = queue[k]
    BY <1>1 DEF QueueType
  <2>3. \A k \in Queues : Attended(k) => Attended(k)'
    BY <1>1 DEF Attended, Worked
  <2>4. QED BY <2>1, <2>2, <2>3 DEF NoStrandedQuery
<1>15. HeldOnce'
  <2>1. \A k \in Queues : Distinct(queue[k])'
    BY <1>1, <1>2 DEF HeldOnce
  <2>2. \A q \in Queries, k, l \in Queues : Queued(q, k)' /\ Queued(q, l)'
        => k = l
    BY <1>7 DEF HeldOnce
  <2>3. \A q \in Queries : InHand(q)' => \A k \in Queues : ~Queued(q, k)'
    BY <1>7, <1>8 DEF HeldOnce
  <2>4. \A q \in Queries, u, v \in Workers : job'[u] = q /\ job'[v] = q
        => u = v
    BY <1>4, <1>6 DEF HeldOnce, InHand
  <2>5. QED BY <2>1, <2>2, <2>3, <2>4 DEF HeldOnce
<1>16. PlacedIsMarked'
  BY <1>9 DEF PlacedIsMarked
<1>17. MarkedIsPlaced'
  BY <1>9 DEF MarkedIsPlaced
<1>18. WaiterRemembered'
  BY <1>9 DEF WaiterRemembered
<1>19. (EngineType /\ QueryType)'
  BY DEF EngineType, QueryType
<1>20. SingleProcessor'
  BY DEF SingleProcessor
<1>21. (CompletedIsServed /\ AnswerIsFresh)'
  BY <1>9 
    DEF AnswerIsFresh, CompletedIsServed
<1>22. QED BY <1>1, <1>2, <1>3, <1>4, <1>5, <1>6, <1>7, <1>8, <1>9, <1>10,
              <1>11, <1>12, <1>13, <1>14, <1>15, <1>16, <1>17, <1>18, <1>19,
              <1>20, <1>21

(* Pick preserves IInv.                                                    *)
LEMMA PickStep == ASSUME IInv, NEW w \in Workers, Pick(w) PROVE IInv'
<1>1. CASE queue[works[w]] = <<>> \/ shutdown[works[w]]
  BY <1>1, PickStopStep
<1>2. CASE queue[works[w]] # <<>> /\ ~shutdown[works[w]]
  BY <1>2, PickPopStep
<1>3. QED BY <1>1, <1>2

(* Enter preserves IInv.                                                   *)
LEMMA EnterStep == ASSUME IInv, NEW w \in Workers, Enter(w) PROVE IInv'
<1>. USE DEF IInv, TypeOK, Enter, queues, engine, flags, client, main
<1>1. QueryType'
  BY DEF QueryType
<1>2. ThreadType'
  BY DEF ThreadType
<1>3. Places'
  BY DEF Places
<1>4. (QueueType /\ EngineType)'
  BY DEF QueueType, EngineType
<1>5. (SingleProcessor /\ RunningIsWorked /\ NoStrandedQuery)'
  BY DEF SingleProcessor, RunningIsWorked, Worked, NoStrandedQuery, Attended
<1>6. (HeldOnce /\ PlacedIsMarked /\ MarkedIsPlaced)'
  BY DEF HeldOnce, Queued, InHand, PlacedIsMarked, OnSomeQueue, MarkedIsPlaced
<1>7. (WaiterRemembered /\ CompletedIsServed /\ AnswerIsFresh)'
  BY DEF WaiterRemembered, Queued, OnSomeQueue, InHand, CompletedIsServed,
         AnswerIsFresh
<1>8. QED BY <1>1, <1>2, <1>3, <1>4, <1>5, <1>6, <1>7

(* Statement preserves IInv.                                               *)
LEMMA StatementStep ==
  ASSUME IInv, NEW w \in Workers, Statement(w)
  PROVE  IInv'
<1>. USE DEF IInv, TypeOK, Statement, Remaining, queues, engine, flags,
             client, worker, main, history
<1>1. QueryType'
  BY QueryAssumption DEF QueryType, ThreadType, Places
<1>2. (QueueType /\ EngineType /\ ThreadType /\ Places)'
  BY DEF QueueType, EngineType, ThreadType, Places
<1>3. (SingleProcessor /\ RunningIsWorked /\ NoStrandedQuery)'
  BY DEF SingleProcessor, RunningIsWorked, Worked, NoStrandedQuery, Attended
<1>4. (HeldOnce /\ PlacedIsMarked /\ MarkedIsPlaced)'
  BY DEF HeldOnce, Queued, InHand, PlacedIsMarked, OnSomeQueue, MarkedIsPlaced
<1>5. (WaiterRemembered /\ CompletedIsServed /\ AnswerIsFresh)'
  BY DEF WaiterRemembered, Queued, OnSomeQueue, InHand, CompletedIsServed,
         AnswerIsFresh
<1>6. QED BY <1>1, <1>2, <1>3, <1>4, <1>5

(* Complete preserves IInv.                                                *)
LEMMA CompleteStep == ASSUME IInv, NEW w \in Workers, Complete(w) PROVE IInv'
<1>. USE DEF IInv, TypeOK, Complete, Remaining, Answered, Notified, queues,
             engine, main
<1>1. /\ job[w] \in Queries /\ InHand(job[w])
      /\ job' = [job EXCEPT ![w] = None]
  BY DEF Places, ThreadType, InHand
<1>2. \A q \in Queries : InHand(q)' <=> InHand(q) /\ q # job[w]
  BY <1>1, QueryAssumption DEF InHand, HeldOnce, ThreadType
<1>3. \A q \in Queries, k \in Queues : Queued(q, k)' <=> Queued(q, k)
  BY DEF Queued
<1>4. ~OnSomeQueue(job[w]) /\ \A q \in Queries : OnSomeQueue(q)' <=>
      OnSomeQueue(q)
  BY <1>1, <1>3 DEF OnSomeQueue, HeldOnce
<1>5. QueryType'
  BY <1>1 DEF QueryType
<1>6. ThreadType'
  BY DEF ThreadType
<1>7. Places'
  BY DEF Places, ThreadType
<1>8. NoStrandedQuery'
  BY DEF NoStrandedQuery, Attended, Worked, ThreadType
<1>9. HeldOnce'
  <2>1. \A q \in Queries, u, v \in Workers : job'[u] = q /\ job'[v] = q
        => u = v
    BY <1>1, QueryAssumption DEF HeldOnce
  <2>2. QED BY <1>2, <1>3, <2>1 DEF HeldOnce
<1>10. PlacedIsMarked'
  BY <1>1, <1>2, <1>4 DEF PlacedIsMarked
<1>11. MarkedIsPlaced'
  <2>1. ~executing'[job[w]]
    BY <1>1 DEF QueryType
  <2>2. pc'[job[w]] = "mark" => served'[job[w]]
    BY <1>1 DEF QueryType, ThreadType
  <2>3. \A q \in Queries \ {job[w]} :
          /\ executing'[q] = executing[q] /\ served'[q] = served[q]
          /\ pc'[q] = pc[q]
    BY <1>1 DEF QueryType, ThreadType
  <2>4. QED BY <1>2, <1>4, <2>1, <2>2, <2>3 DEF MarkedIsPlaced
<1>12. WaiterRemembered'
  BY <1>1, <1>2, <1>4 DEF WaiterRemembered, ThreadType, QueryType
<1>13. (CompletedIsServed /\ AnswerIsFresh)'
  BY <1>1, <1>2, <1>4 
    DEF AnswerIsFresh, CompletedIsServed, QueryType, PlacedIsMarked, ThreadType
<1>14. (QueueType /\ EngineType)'
  BY DEF QueueType, EngineType
<1>15. (SingleProcessor /\ RunningIsWorked)'
  BY DEF SingleProcessor, RunningIsWorked, Worked
<1>16. QED BY <1>1, <1>2, <1>3, <1>4, <1>5, <1>6, <1>7, <1>8, <1>9, <1>10,
              <1>11, <1>12, <1>13, <1>14, <1>15

(* CloseDatabase preserves IInv.                                           *)
LEMMA CloseDatabaseStep == ASSUME IInv, CloseDatabase PROVE IInv'
<1>. USE DEF IInv, TypeOK, CloseDatabase, Prepared, engine, flags, client,
             worker, history
<1>1. QueueType'
  BY DEF QueueType
<1>2. EngineType'
  BY DEF EngineType
<1>3. NoStrandedQuery'
  BY DEF NoStrandedQuery, Attended, Worked
<1>4. (QueryType /\ ThreadType /\ Places)'
  BY DEF QueryType, ThreadType, Places
<1>5. (SingleProcessor /\ RunningIsWorked)'
  BY DEF SingleProcessor, RunningIsWorked, Worked
<1>6. (HeldOnce /\ PlacedIsMarked /\ MarkedIsPlaced)'
  BY DEF HeldOnce, Queued, InHand, PlacedIsMarked, OnSomeQueue, MarkedIsPlaced
<1>7. (WaiterRemembered /\ CompletedIsServed /\ AnswerIsFresh)'
  BY DEF WaiterRemembered, Queued, OnSomeQueue, InHand, CompletedIsServed,
         AnswerIsFresh
<1>8. QED BY <1>1, <1>2, <1>3, <1>4, <1>5, <1>6, <1>7

(* Shutdown preserves IInv.                                                *)
LEMMA ShutdownStep == ASSUME IInv, Shutdown PROVE IInv'
<1>. USE DEF IInv, TypeOK, Shutdown, Prepared, flags, client, worker, history
<1>1. QueueType'
  BY DEF QueueType
<1>2. EngineType'
  BY DEF EngineType
<1>3. NoStrandedQuery'
  BY DEF NoStrandedQuery, Attended, Worked
<1>4. (QueryType /\ ThreadType /\ Places)'
  BY DEF QueryType, ThreadType, Places
<1>5. (SingleProcessor /\ RunningIsWorked)'
  BY DEF SingleProcessor, RunningIsWorked, Worked
<1>6. (HeldOnce /\ PlacedIsMarked /\ MarkedIsPlaced)'
  BY DEF HeldOnce, Queued, InHand, PlacedIsMarked, OnSomeQueue, MarkedIsPlaced
<1>7. (WaiterRemembered /\ CompletedIsServed /\ AnswerIsFresh)'
  BY DEF WaiterRemembered, Queued, OnSomeQueue, InHand, CompletedIsServed,
         AnswerIsFresh
<1>8. QED BY <1>1, <1>2, <1>3, <1>4, <1>5, <1>6, <1>7

(* ClearQueue preserves IInv.                                              *)
LEMMA ClearQueueStep == ASSUME IInv, ClearQueue PROVE IInv'
<1>. USE DEF IInv, TypeOK, ClearQueue, engine, flags, client, worker
<1>1. \A k \in Queues : queue'[k] = IF k = current THEN <<>> ELSE queue[k]
  BY DEF QueueType
<1>2. \A q \in Queries, k \in Queues : Queued(q, k)' <=> Queued(q, k) /\ k #
      current
  BY <1>1, Empty DEF Queued
<1>3. \A q \in Queries : InHand(q)' <=> InHand(q)
  BY DEF InHand
<1>4. \A q \in Queries : /\ OnSomeQueue(q)' => OnSomeQueue(q)
                         /\ OnSomeQueue(q) => OnSomeQueue(q)' \/ q \in lost'
  BY <1>2 DEF OnSomeQueue, NoQueue
<1>5. QueueType'
  BY DEF QueueType
<1>6. EngineType'
  BY DEF EngineType
<1>7. QueryType'
  BY DEF QueryType
<1>8. NoStrandedQuery'
  BY <1>1 DEF NoStrandedQuery, Attended, Worked
<1>9. HeldOnce'
  BY <1>1, <1>2, <1>3, Empty DEF HeldOnce
<1>10. PlacedIsMarked'
  BY <1>3, <1>4 DEF PlacedIsMarked
<1>11. MarkedIsPlaced'
  BY <1>3, <1>4 DEF MarkedIsPlaced
<1>12. WaiterRemembered'
  BY <1>3, <1>4 DEF WaiterRemembered
<1>13. (ThreadType /\ Places)'
  BY DEF ThreadType, Places
<1>14. (SingleProcessor /\ RunningIsWorked)'
  BY DEF SingleProcessor, RunningIsWorked, Worked
<1>15. (CompletedIsServed /\ AnswerIsFresh)'
  BY <1>3, <1>4 
    DEF AnswerIsFresh, CompletedIsServed
<1>16. QED BY <1>1, <1>2, <1>3, <1>4, <1>5, <1>6, <1>7, <1>8, <1>9, <1>10,
              <1>11, <1>12, <1>13, <1>14, <1>15

(* CloseDB preserves IInv.                                                 *)
LEMMA CloseDBStep == ASSUME IInv, CloseDB PROVE IInv'
<1>. USE DEF IInv, TypeOK, CloseDB, queues, flags, client, worker, history
<1>1. EngineType'
  BY DEF EngineType, NoQueue
<1>2. (QueueType /\ QueryType /\ ThreadType /\ Places)'
  BY DEF QueueType, QueryType, ThreadType, Places
<1>3. (SingleProcessor /\ RunningIsWorked /\ NoStrandedQuery)'
  BY DEF SingleProcessor, RunningIsWorked, Worked, NoStrandedQuery, Attended
<1>4. (HeldOnce /\ PlacedIsMarked /\ MarkedIsPlaced)'
  BY DEF HeldOnce, Queued, InHand, PlacedIsMarked, OnSomeQueue, MarkedIsPlaced
<1>5. (WaiterRemembered /\ CompletedIsServed /\ AnswerIsFresh)'
  BY DEF WaiterRemembered, Queued, OnSomeQueue, InHand, CompletedIsServed,
         AnswerIsFresh
<1>6. QED BY <1>1, <1>2, <1>3, <1>4, <1>5

(* CloseDBFails preserves IInv.                                            *)
LEMMA CloseDBFailsStep == ASSUME IInv, CloseDBFails PROVE IInv'
<1>. USE DEF IInv, TypeOK, CloseDBFails, queues, engine, flags, client,
             worker, history
<1>1. EngineType'
  BY DEF EngineType
<1>2. (QueueType /\ QueryType /\ ThreadType /\ Places)'
  BY DEF QueueType, QueryType, ThreadType, Places
<1>3. (SingleProcessor /\ RunningIsWorked /\ NoStrandedQuery)'
  BY DEF SingleProcessor, RunningIsWorked, Worked, NoStrandedQuery, Attended
<1>4. (HeldOnce /\ PlacedIsMarked /\ MarkedIsPlaced)'
  BY DEF HeldOnce, Queued, InHand, PlacedIsMarked, OnSomeQueue, MarkedIsPlaced
<1>5. (WaiterRemembered /\ CompletedIsServed /\ AnswerIsFresh)'
  BY DEF WaiterRemembered, Queued, OnSomeQueue, InHand, CompletedIsServed,
         AnswerIsFresh
<1>6. QED BY <1>1, <1>2, <1>3, <1>4, <1>5

(* ShutdownPool preserves IInv.                                            *)
LEMMA ShutdownPoolStep == ASSUME IInv, ShutdownPool PROVE IInv'
<1>. USE DEF IInv, TypeOK, ShutdownPool, queues, flags, client, worker,
             history
<1>1. EngineType'
  BY DEF EngineType
<1>2. RunningIsWorked'
  BY DEF RunningIsWorked, Worked
<1>3. NoStrandedQuery'
  BY DEF NoStrandedQuery
<1>4. (QueueType /\ QueryType /\ ThreadType /\ Places)'
  BY DEF QueueType, QueryType, ThreadType, Places
<1>5. SingleProcessor'
  BY DEF SingleProcessor
<1>6. (HeldOnce /\ PlacedIsMarked /\ MarkedIsPlaced)'
  BY DEF HeldOnce, Queued, InHand, PlacedIsMarked, OnSomeQueue, MarkedIsPlaced
<1>7. (WaiterRemembered /\ CompletedIsServed /\ AnswerIsFresh)'
  BY DEF WaiterRemembered, Queued, OnSomeQueue, InHand, CompletedIsServed,
         AnswerIsFresh
<1>8. QED BY <1>1, <1>2, <1>3, <1>4, <1>5, <1>6, <1>7

(* A step that changes nothing preserves IInv.                             *)
LEMMA StutterStep == ASSUME IInv, UNCHANGED vars PROVE IInv'
<1>. USE DEF IInv, vars, queues, engine, flags, client, worker, main, history
<1>1. TypeOK' /\ Places'
  BY DEF TypeOK, QueueType, EngineType, QueryType, ThreadType, Places
<1>2. (SingleProcessor /\ RunningIsWorked /\ NoStrandedQuery)'
  BY DEF SingleProcessor, RunningIsWorked, NoStrandedQuery, Attended, Worked
<1>3. (HeldOnce /\ PlacedIsMarked /\ MarkedIsPlaced /\ WaiterRemembered)'
  BY DEF HeldOnce, PlacedIsMarked, MarkedIsPlaced, WaiterRemembered, Queued,
         OnSomeQueue, InHand
<1>4. (CompletedIsServed /\ AnswerIsFresh)'
  BY
    DEF AnswerIsFresh, CompletedIsServed, Queued, OnSomeQueue, InHand
<1>5. QED BY <1>1, <1>2, <1>3, <1>4

(* IInv holds when nothing has been executed yet.                          *)
LEMMA InitIInv == Init => IInv
<1>. SUFFICES ASSUME Init PROVE IInv
  OBVIOUS
<1>. USE QueryAssumption DEF Init, Queues, NoQueue
<1>1. TypeOK /\ Places
  <2>1. QueueType /\ EngineType
    <3>1. <<>> \in Seq(Queues) /\ <<>> \in Seq(Queries)
      OBVIOUS
    <3>2. QueueType
      BY <3>1 DEF QueueType
    <3>3. opened \in 0..MaxOpens /\ current \in 0..opened
      OBVIOUS
    <3>4. EngineType
      BY <3>1, <3>3 DEF EngineType
    <3>5. QED BY <3>2, <3>4
  <2>2. QueryType
    BY DEF QueryType
  <2>3. ThreadType /\ Places
    BY DEF ThreadType, Places
  <2>4. QED BY <2>1, <2>2, <2>3 DEF TypeOK
<1>2. SingleProcessor /\ RunningIsWorked /\ NoStrandedQuery
  <2>1. \A k \in Queues : ~Worked(k)
    BY Empty DEF Worked
  <2>2. SingleProcessor
    BY Empty DEF SingleProcessor
  <2>3. QED BY <2>1, <2>2 DEF RunningIsWorked, NoStrandedQuery
<1>3. HeldOnce /\ PlacedIsMarked /\ MarkedIsPlaced /\ WaiterRemembered
  BY Empty
    DEF HeldOnce, PlacedIsMarked, MarkedIsPlaced, WaiterRemembered,
        Queued, OnSomeQueue, InHand
<1>4. CompletedIsServed /\ AnswerIsFresh
  BY DEF CompletedIsServed, AnswerIsFresh
<1>5. QED BY <1>1, <1>2, <1>3, <1>4 DEF IInv

(* Every step of the clients, the workers and the closing engine preserves *)
(* IInv.                                                                   *)
LEMMA NextIInv == IInv /\ [Next]_vars => IInv'
<1>. SUFFICES ASSUME IInv, [Next]_vars PROVE IInv'
  OBVIOUS
<1>1. ASSUME NEW q \in Queries, ClientStep(q) PROVE IInv'
  BY <1>1, ExecuteStep, ExecuteAgainStep, SubmitStep, LookupStep, OpenStep, OpenFailsStep, PushStep,
     MarkStep, RunQueueStep, RunQueueFailsStep, WaitForCompletionStep,
     CallWaitStep, PollDoneStep, AbortStep, AbortMarkStep
    DEF ClientStep, Proceed
<1>2. ASSUME NEW w \in Workers, WorkerStep(w) PROVE IInv'
  BY <1>2, TakeStep, PickStep, EnterStep, StatementStep, CompleteStep
    DEF WorkerStep
<1>3. CASE CloseDatabase \/ Shutdown \/ Closing
  BY <1>3, CloseDatabaseStep, ShutdownStep, ClearQueueStep, CloseDBStep,
     CloseDBFailsStep, ShutdownPoolStep
    DEF Closing
<1>4. CASE UNCHANGED vars
  BY <1>4, StutterStep
<1>5. QED BY <1>1, <1>2, <1>3, <1>4 DEF Next

(* IInv holds in every reachable state of the database engine.             *)
THEOREM Invariance == Spec => []IInv
BY InitIInv, NextIInv, PTL DEF Spec

(* Every variable of the engine stays in range.                            *)
THEOREM TypeCorrect == Spec => []TypeOK
BY Invariance, PTL DEF IInv

(* However Execute, RunQueue and the end of Process interleave, at most    *)
(* one pool thread works for a queue, or has been asked to.                *)
THEOREM OneProcessor == Spec => []SingleProcessor
BY Invariance, PTL DEF IInv

(* A queue with queries on it has a processor, or a client that is about   *)
(* to ask for one, unless it is shut down or the pool is.                  *)
THEOREM NothingStranded == Spec => []NoStrandedQuery
BY Invariance, PTL DEF IInv

(* A query is on one queue, once, or in the hands of one worker: executing *)
(* a query again while it is queued or served, which the code allows of an *)
(* asynchronous one, does not submit it twice, whatever the worker does    *)
(* between the steps of that Execute.                                      *)
THEOREM NeverTwice == Spec => []HeldOnce
BY Invariance, PTL DEF IInv

(* Whoever waits for a query waits for one that is still on a queue or in  *)
(* the hands of a worker, unless it is one that nobody completes any more. *)
THEOREM WaitersKnown == Spec => []NoWaiterForgotten
<1>1. IInv => NoWaiterForgotten
  BY DEF IInv, WaiterRemembered, NoWaiterForgotten
<1>2. QED BY Invariance, <1>1, PTL

(* A client that finds its query completed finds nothing of it queued or   *)
(* served any more, unless an earlier execution ended in the middle of its *)
(* last Execute and answered for the new one.                              *)
THEOREM FreshAnswers == Spec => []AnswerIsFresh
BY Invariance, PTL DEF IInv

=============================================================================
