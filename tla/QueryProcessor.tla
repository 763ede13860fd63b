--------------------------- MODULE QueryProcessor ---------------------------
(***************************************************************************)
(* The database engine of one database                                     *)
(* (components/dbengine/src/DatabaseEngine.cpp, .h and DatabaseQuery.cpp). *)
(*                                                                         *)
(* A client builds a query object and executes it: the query is put on the *)
(* queue of its database, a thread of the engine's pool is asked to run    *)
(* the queue, and a synchronous client, or one that calls Abort or         *)
(* WaitForCompletion later, sleeps on the monitor of its query.  The main  *)
(* thread may close the database, which throws its queue away (a later     *)
(* query opens another one), and shuts the engine down at the end.         *)
(*                                                                         *)
(* A stretch of code under one monitor or lock is one action.  Only the    *)
(* running monitor of a query, which a pool thread holds while it executes *)
(* the query, and the lock on the table of queues, which closing holds,    *)
(* outlast an action.  A query object is used by one thread, its client,   *)
(* as its users in this code do.  A statement is one step: its rows, its   *)
(* error and the connection it runs on are not modelled.                   *)
(***************************************************************************)
EXTENDS Naturals, Sequences

CONSTANTS
  Queries,       \* the query objects, and their clients
  Async,         \* those whose m_AsyncQuery is set
  Workers,       \* the threads of the pool
  None,          \* no query and no worker
  Statements,    \* how many statements a client adds to a query
  MaxOpens       \* bound: times the database is opened

ASSUME QueryAssumption ==
  /\ Async \subseteq Queries
  /\ None \notin Queries \cup Workers
  /\ Statements \in Nat
  /\ MaxOpens \in Nat

Queues == 1..MaxOpens
NoQueue == 0

VARIABLES
  (* each QueryProcessorQueue *)
  queue,      \* m_Queue
  running,    \* m_Running
  shutdown,   \* m_Shutdown
  (* CDatabaseEngine *)
  opened,     \* how many queues there have been
  current,    \* the queue m_QueuePool has for the database
  engineDown, \* m_IsShutDown
  poolUp,     \* m_pThreadPool still accepts work
  events,     \* the queues dispatched to the pool and not taken up yet
  (* each CDatabaseQuery *)
  pending,    \* the length of m_DatabaseQueryList
  executing,  \* m_IsExecuting
  completed,  \* m_QueryHasCompleted
  aborting,   \* m_IsAborting
  monitor,    \* the worker inside m_pQueryRunningMonitor
  (* threads *)
  pc,         \* where each client is in its call
  target,     \* the queue a client got from GetQueueByQuery
  at,         \* where each worker is in QueryProcessor
  works,      \* the queue it works for
  job,        \* the query it popped
  closer,     \* where the main thread is in CloseDatabase or Shutdown
  ending,     \* it is Shutdown
  (* history: read by properties only *)
  served,     \* QueryProcessor has completed the query while its Execute
              \* was between two steps: the reset and the submission, or
              \* the push and the mark
  overtaken,  \* queries submitted although they were completed since the
              \* reset, until what was submitted is done, too
  lost        \* queries whose state nobody will set right any more

queues  == <<queue, running, shutdown>>
engine  == <<opened, current, engineDown, poolUp>>
flags   == <<executing, completed, aborting>>
client  == <<pc, target>>
worker  == <<at, works, job>>
main    == <<closer, ending>>
history == <<served, overtaken, lost>>
vars == <<queues, engine, events, pending, flags, monitor, client, worker,
          main, history>>

(* x is an element of the sequence s; no element of s is there twice.      *)
In(x, s) == \E i \in DOMAIN s : s[i] = x
Distinct(s) == \A i, j \in DOMAIN s : s[i] = s[j] => i = j

Queued(q, k) == In(q, queue[k])

(* Somebody works for queue k, or was asked to.                            *)
Worked(k) == In(k, events) \/ \E w \in Workers : works[w] = k

(* CloseDatabase is inside m_pThreadMonitor throughout; Shutdown is inside *)
(* the table's own lock while it goes through the queues.                  *)
TableHeld == closer = "close" \/ (closer = "clear" /\ ~ending)

Init ==
  /\ queue = [k \in Queues |-> <<>>]
  /\ running = [k \in Queues |-> FALSE]
  /\ shutdown = [k \in Queues |-> FALSE]
  /\ opened = 0 /\ current = NoQueue
  /\ engineDown = FALSE /\ poolUp = TRUE /\ events = <<>>
  /\ pending = [q \in Queries |-> 0]
  /\ executing = [q \in Queries |-> FALSE]
  /\ completed = [q \in Queries |-> FALSE]
  /\ aborting = [q \in Queries |-> FALSE]
  /\ monitor = [q \in Queries |-> None]
  /\ pc = [q \in Queries |-> "idle"]
  /\ target = [q \in Queries |-> NoQueue]
  /\ at = [w \in Workers |-> "free"]
  /\ works = [w \in Workers |-> NoQueue]
  /\ job = [w \in Workers |-> None]
  /\ closer = "idle" /\ ending = FALSE
  /\ served = [q \in Queries |-> FALSE]
  /\ overtaken = {} /\ lost = {}

-----------------------------------------------------------------------------
(***************************************************************************)
(* The client of a query.  It is idle, inside a call, or ("flying") back   *)
(* from the Execute of an asynchronous query it has not seen complete.     *)
(***************************************************************************)

(* Mutant of Restarted: the query is still completed from the last time.   *)
NotRestarted(q) == completed

Restarted(q) == [completed EXCEPT ![q] = FALSE]

(* Execute up to its look at the engine: under the running monitor of the  *)
(* query, which counts as not completed from here on.                      *)
Reset(q) ==
  /\ monitor[q] = None
  /\ completed' = Restarted(q)
  /\ overtaken' = overtaken \ {q}
  /\ pc' = [pc EXCEPT ![q] = "submit"]
  /\ UNCHANGED <<queues, engine, events, executing, aborting, monitor,
                 target, worker, main, served, lost>>

(* Execute, after ResetQuery and AddQuery for each statement.              *)
Execute(q) ==
  /\ pc[q] = "idle"
  /\ pending' = [pending EXCEPT ![q] = Statements]
  /\ Reset(q)

(* Execute of an asynchronous query its client has not seen complete: for  *)
(* what is left of it, which may be nothing.                               *)
ExecuteAgain(q) ==
  /\ pc[q] = "flying"
  /\ UNCHANGED pending
  /\ Reset(q)

(* Mutant of Submittable: nobody asks whether the query is executing.      *)
AlwaysSubmittable(q) == TRUE

Submittable(q) == ~executing[q]

(* The checks of SubmitQuery: it fails once the engine is shut down, and a *)
(* query that is marked as executing is not submitted, with success.       *)
Submit(q) ==
  /\ pc[q] = "submit"
  /\ pc' = [pc EXCEPT ![q] =
              IF engineDown THEN "idle"
              ELSE IF Submittable(q) THEN "lookup"
              ELSE IF q \in Async THEN "flying" ELSE "idle"]
  /\ overtaken' = IF served[q] THEN overtaken \cup {q} ELSE overtaken
  /\ served' = [served EXCEPT ![q] = FALSE]
  /\ UNCHANGED <<queues, engine, events, pending, flags, monitor, target,
                 worker, main, lost>>

(* The end of an Execute whose submission failed.                          *)
Failed(q) ==
  /\ completed' = [completed EXCEPT ![q] = TRUE]
  /\ pc' = [pc EXCEPT ![q] = "idle"]

(* GetQueueByQuery: the queue of the database, opened if there is none.    *)
Lookup(q) ==
  /\ pc[q] = "lookup" /\ ~TableHeld /\ current # NoQueue
  /\ target' = [target EXCEPT ![q] = current]
  /\ pc' = [pc EXCEPT ![q] = "push"]
  /\ UNCHANGED <<queues, engine, events, pending, flags, monitor, worker,
                 main, history>>

Open(q) ==
  /\ pc[q] = "lookup" /\ ~TableHeld /\ current = NoQueue
  /\ opened < MaxOpens
  /\ opened' = opened + 1
  /\ current' = opened'
  /\ target' = [target EXCEPT ![q] = opened']
  /\ pc' = [pc EXCEPT ![q] = "push"]
  /\ UNCHANGED <<queues, engineDown, poolUp, events, pending, flags,
                 monitor, worker, main, history>>

OpenFails(q) ==
  /\ pc[q] = "lookup" /\ ~TableHeld /\ current = NoQueue
  /\ Failed(q)
  /\ UNCHANGED <<queues, engine, events, pending, executing, aborting,
                 monitor, target, worker, main, history>>

(* PushQueryToQueue.  What goes on the queue of a closed database stays.   *)
Push(q) ==
  /\ pc[q] = "push"
  /\ queue' = [queue EXCEPT ![target[q]] = Append(@, q)]
  /\ pc' = [pc EXCEPT ![q] = "mark"]
  /\ lost' = IF shutdown[target[q]] THEN lost \cup {q} ELSE lost
  /\ UNCHANGED <<running, shutdown, engine, events, pending, flags, monitor,
                 target, worker, main, served, overtaken>>

Marked(q) == [executing EXCEPT ![q] = TRUE]

(* The query is marked as executing, which nobody takes back when a worker *)
(* has completed it in between.                                            *)
Mark(q) ==
  /\ pc[q] = "mark"
  /\ executing' = Marked(q)
  /\ pc' = [pc EXCEPT ![q] = "start"]
  /\ lost' = IF served[q] THEN lost \cup {q} ELSE lost
  /\ served' = [served EXCEPT ![q] = FALSE]
  /\ UNCHANGED <<queues, engine, events, pending, completed, aborting,
                 monitor, target, worker, main, overtaken>>

(* Mutant of Dispatched: it does not ask whether the queue is running.     *)
DispatchedAgain(k) == Append(events, k)

Dispatched(k) == IF running[k] THEN events ELSE Append(events, k)

(* RunQueue: a queue nobody works for is dispatched to the pool.  A queue  *)
(* that could not be dispatched once stays as if somebody did.             *)
RunQueue(q) ==
  LET k == target[q]
  IN  /\ pc[q] = "start" /\ (running[k] \/ poolUp)
      /\ running' = [running EXCEPT ![k] = TRUE]
      /\ events' = Dispatched(k)
      /\ pc' = [pc EXCEPT ![q] = IF q \in Async THEN "flying" ELSE "wait"]
      /\ target' = [target EXCEPT ![q] = NoQueue]
      /\ lost' = IF poolUp \/ Worked(k) THEN lost ELSE lost \cup {q}
      /\ UNCHANGED <<queue, shutdown, engine, pending, flags, monitor,
                     worker, main, served, overtaken>>

(* Dispatching to a pool that is shut down is an error.                    *)
RunQueueFails(q) ==
  /\ pc[q] = "start" /\ ~running[target[q]] /\ ~poolUp
  /\ running' = [running EXCEPT ![target[q]] = TRUE]
  /\ target' = [target EXCEPT ![q] = NoQueue]
  /\ Failed(q)
  /\ UNCHANGED <<queue, shutdown, engine, events, pending, executing,
                 aborting, monitor, worker, main, history>>

(* The loop of WaitForCompletion: sleep on the query's monitor until it is *)
(* completed.                                                              *)
Waiting(q) ==
  /\ monitor[q] = None
  /\ pc' = [pc EXCEPT ![q] = IF completed[q] THEN "idle" ELSE "asleep"]
  /\ UNCHANGED <<queues, engine, events, pending, flags, monitor, target,
                 worker, main, history>>

WaitForCompletion(q) == pc[q] = "wait" /\ Waiting(q)

(* What the client of an asynchronous query does about it.                 *)
CallWait(q) == pc[q] = "flying" /\ Waiting(q)

PollDone(q) ==
  /\ pc[q] = "flying" /\ ~executing[q]
  /\ pc' = [pc EXCEPT ![q] = "idle"]
  /\ UNCHANGED <<queues, engine, events, pending, flags, monitor, target,
                 worker, main, history>>

(* Abort looks at the mark, and asks for the abort after it let go of it.  *)
Abort(q) ==
  /\ pc[q] = "flying" /\ executing[q]
  /\ pc' = [pc EXCEPT ![q] = "abort"]
  /\ UNCHANGED <<queues, engine, events, pending, flags, monitor, target,
                 worker, main, history>>

AbortMark(q) ==
  /\ pc[q] = "abort"
  /\ aborting' = [aborting EXCEPT ![q] = TRUE]
  /\ pc' = [pc EXCEPT ![q] = "wait"]
  /\ UNCHANGED <<queues, engine, events, pending, executing, completed,
                 monitor, target, worker, main, history>>

-----------------------------------------------------------------------------
(***************************************************************************)
(* A thread of the pool, in QueryProcessor.                                *)
(***************************************************************************)

(* Which of the free threads takes up a queue makes no difference.         *)
Take(w) ==
  /\ at[w] = "free" /\ events # <<>>
  /\ w = CHOOSE v \in Workers : at[v] = "free"
  /\ works' = [works EXCEPT ![w] = Head(events)]
  /\ events' = Tail(events)
  /\ at' = [at EXCEPT ![w] = "pick"]
  /\ UNCHANGED <<queues, engine, pending, flags, monitor, client, job, main,
                 history>>

(* Mutant of Stopped: the worker goes, and the queue counts as running.    *)
StillRunning(k) == running

Stopped(k) == [running EXCEPT ![k] = FALSE]

(* Under the queue's monitor: stop running, unless there is a query to pop.*)
Pick(w) ==
  LET k == works[w]
  IN  /\ at[w] = "pick"
      /\ IF queue[k] = <<>> \/ shutdown[k]
         THEN /\ running' = Stopped(k)
              /\ at' = [at EXCEPT ![w] = "free"]
              /\ works' = [works EXCEPT ![w] = NoQueue]
              /\ UNCHANGED <<queue, job>>
         ELSE /\ running' = [running EXCEPT ![k] = TRUE]
              /\ job' = [job EXCEPT ![w] = Head(queue[k])]
              /\ queue' = [queue EXCEPT ![k] = Tail(@)]
              /\ at' = [at EXCEPT ![w] = "enter"]
              /\ UNCHANGED works
      /\ UNCHANGED <<shutdown, engine, events, pending, flags, monitor,
                     client, main, history>>

(* The query's running monitor is taken until the query is done with.      *)
Enter(w) ==
  LET q == job[w]
  IN  /\ at[w] = "enter" /\ monitor[q] = None
      /\ monitor' = [monitor EXCEPT ![q] = w]
      /\ at' = [at EXCEPT ![w] = "run"]
      /\ UNCHANGED <<queues, engine, events, pending, flags, client, works,
                     job, main, served, overtaken, lost>>

(* Mutant of Remaining: the end of the list is overrun.                    *)
RemainingAlways(q) == ~aborting[q]

Remaining(q) == pending[q] > 0 /\ ~aborting[q]

(* The next statement is taken off the query and run, to whatever end.     *)
Statement(w) ==
  LET q == job[w]
  IN  /\ at[w] = "run" /\ Remaining(q)
      /\ pending' = [pending EXCEPT ![q] = @ - 1]
      /\ UNCHANGED <<queues, engine, events, flags, monitor, client, worker,
                     main, history>>

(* Mutants: an aborted query is not completed; nobody is notified.         *)
AnsweredUnlessAborted(q) == [completed EXCEPT ![q] = ~aborting[q]]
NobodyNotified(q) == pc

Answered(q) == [completed EXCEPT ![q] = TRUE]

Notified(q) == [pc EXCEPT ![q] = IF @ = "asleep" THEN "wait" ELSE @]

(* The query is completed, its waiters are notified, the monitor is left.  *)
Complete(w) ==
  LET q == job[w]
  IN  /\ at[w] = "run" /\ ~Remaining(q)
      /\ completed' = Answered(q)
      /\ executing' = [executing EXCEPT ![q] = FALSE]
      /\ aborting' = [aborting EXCEPT ![q] = FALSE]
      /\ served' = IF pc[q] \in {"submit", "mark"}
                   THEN [served EXCEPT ![q] = TRUE] ELSE served
      /\ overtaken' = overtaken \ {q}
      /\ pc' = Notified(q)
      /\ monitor' = [monitor EXCEPT ![q] = None]
      /\ job' = [job EXCEPT ![w] = None]
      /\ at' = [at EXCEPT ![w] = "pick"]
      /\ UNCHANGED <<queues, engine, events, pending, target, works, main,
                     lost>>

-----------------------------------------------------------------------------
(***************************************************************************)
(* The main thread: CloseDatabase of the database, while it has a queue,   *)
(* and Shutdown, which does the same to each queue there is.               *)
(***************************************************************************)

(* PrepareForShutdown.                                                     *)
Prepared == [k \in Queues |-> shutdown[k] \/ k = current]

CloseDatabase ==
  /\ closer = "idle" /\ current # NoQueue /\ opened < MaxOpens
  /\ shutdown' = Prepared
  /\ closer' = "clear"
  /\ UNCHANGED <<queue, running, engine, events, pending, flags, monitor,
                 client, worker, ending, history>>

Shutdown ==
  /\ closer = "idle"
  /\ engineDown' = TRUE
  /\ shutdown' = Prepared
  /\ ending' = TRUE
  /\ closer' = "clear"
  /\ UNCHANGED <<queue, running, opened, current, poolUp, events, pending,
                 flags, monitor, client, worker, history>>

(* The queries on the queue are released, and that is all.                 *)
ClearQueue ==
  /\ closer = "clear"
  /\ queue' = [k \in Queues |-> IF k = current THEN <<>> ELSE queue[k]]
  /\ lost' = lost \cup {q \in Queries :
                           current # NoQueue /\ Queued(q, current)}
  /\ closer' = "close"
  /\ UNCHANGED <<running, shutdown, engine, events, pending, flags, monitor,
                 client, worker, ending, served, overtaken>>

(* CloseDB, and the queue is taken out of the table.  The connection is    *)
(* busy as long as somebody keeps a statement of it, and after some        *)
(* retries CloseDatabase gives up.                                         *)
CloseDB ==
  /\ closer = "close"
  /\ current' = NoQueue
  /\ closer' = IF ending THEN "pool" ELSE "idle"
  /\ UNCHANGED <<queues, opened, engineDown, poolUp, events, pending, flags,
                 monitor, client, worker, ending, history>>

CloseDBFails ==
  /\ closer = "close" /\ ~ending
  /\ closer' = "idle"
  /\ UNCHANGED <<queues, engine, events, pending, flags, monitor, client,
                 worker, ending, history>>

(* The thread pool takes no more work.                                     *)
ShutdownPool ==
  /\ closer = "pool"
  /\ poolUp' = FALSE
  /\ closer' = "over"
  /\ UNCHANGED <<queues, opened, current, engineDown, events, pending,
                 flags, monitor, client, worker, ending, history>>

-----------------------------------------------------------------------------
(* What a client has begun and the code goes on with by itself.            *)
Proceed(q) ==
  \/ Submit(q) \/ Lookup(q) \/ Open(q) \/ OpenFails(q) \/ Push(q) \/ Mark(q)
  \/ RunQueue(q) \/ RunQueueFails(q) \/ WaitForCompletion(q) \/ AbortMark(q)

ClientStep(q) ==
  \/ Execute(q) \/ ExecuteAgain(q) \/ CallWait(q) \/ PollDone(q) \/ Abort(q)
  \/ Proceed(q)

WorkerStep(w) ==
  \/ Take(w) \/ Pick(w) \/ Enter(w) \/ Statement(w) \/ Complete(w)

Closing == ClearQueue \/ CloseDB \/ CloseDBFails \/ ShutdownPool

Next ==
  \/ \E q \in Queries : ClientStep(q)
  \/ \E w \in Workers : WorkerStep(w)
  \/ CloseDatabase \/ Shutdown \/ Closing

Spec == Init /\ [][Next]_vars

(* Threads go on with what they have begun; nobody has to begin a call.    *)
Fairness ==
  /\ \A q \in Queries : WF_vars(Proceed(q))
  /\ \A w \in Workers : WF_vars(WorkerStep(w))
  /\ WF_vars(Closing)

FairSpec == Spec /\ Fairness

-----------------------------------------------------------------------------
QueueType ==
  /\ queue \in [Queues -> Seq(Queries)]
  /\ running \in [Queues -> BOOLEAN]
  /\ shutdown \in [Queues -> BOOLEAN]

EngineType ==
  /\ opened \in 0..MaxOpens
  /\ current \in 0..opened
  /\ engineDown \in BOOLEAN
  /\ poolUp \in BOOLEAN
  /\ events \in Seq(Queues)
  /\ closer \in {"idle", "clear", "close", "pool", "over"}
  /\ ending \in BOOLEAN

QueryType ==
  /\ pending \in [Queries -> 0..Statements]
  /\ executing \in [Queries -> BOOLEAN]
  /\ completed \in [Queries -> BOOLEAN]
  /\ aborting \in [Queries -> BOOLEAN]
  /\ monitor \in [Queries -> Workers \cup {None}]
  /\ served \in [Queries -> BOOLEAN]
  /\ overtaken \subseteq Queries
  /\ lost \subseteq Queries

ThreadType ==
  /\ pc \in [Queries -> {"idle", "submit", "lookup", "push", "mark", "start",
                         "flying", "abort", "wait", "asleep"}]
  /\ target \in [Queries -> Queues \cup {NoQueue}]
  /\ at \in [Workers -> {"free", "pick", "enter", "run"}]
  /\ works \in [Workers -> Queues \cup {NoQueue}]
  /\ job \in [Workers -> Queries \cup {None}]

(* The variables have their types; a query never has fewer statements than *)
(* none, although each turn of the worker's loop takes one off.            *)
TypeOK == QueueType /\ EngineType /\ QueryType /\ ThreadType

(* At most one thread of the pool works for a queue or is about to, so two *)
(* queries of one database never run at the same time, however often       *)
(* RunQueue is called while a worker is looking for the next query.        *)
SingleProcessor ==
  /\ Distinct(events)
  /\ \A w \in Workers : works[w] # NoQueue =>
       /\ ~In(works[w], events)
       /\ \A v \in Workers : works[v] = works[w] => v = w

Attended(k) ==
  \/ Worked(k)
  \/ \E q \in Queries : target[q] = k /\ pc[q] \in {"mark", "start"}

(* "calls that access the m_Queue ... can mess up the link between the     *)
(* RunQueue() call and the GetQueueSize()": a queue with queries on it has *)
(* a thread to run it, or a client that is about to ask for one.           *)
NoStrandedQuery ==
  \A k \in Queues :
    queue[k] # <<>> /\ ~shutdown[k] /\ poolUp => Attended(k)

OnSomeQueue(q) == \E k \in Queues : Queued(q, k)
InHand(q) == \E w \in Workers : job[w] = q

(* The mark "to prevent the same query from getting executed               *)
(* simultaneously" does so: a query is on one queue, once, or in the hands *)
(* of one worker, also when its client executes it again while it is still *)
(* there, and whatever a worker does to it in the middle of that call.     *)
HeldOnce ==
  /\ \A k \in Queues : Distinct(queue[k])
  /\ \A q \in Queries :
       /\ \A k, l \in Queues : Queued(q, k) /\ Queued(q, l) => k = l
       /\ \A w, v \in Workers : job[w] = q /\ job[v] = q => w = v
       /\ InHand(q) => \A k \in Queues : ~Queued(q, k)

(* A client that has to be woken is: its query is on a queue, or in the    *)
(* hands of a worker, which has not notified it yet; unless the query is   *)
(* one that was marked too late, or was left on the queue of a database    *)
(* that was closed.                                                        *)
NoWaiterForgotten ==
  \A q \in Queries :
    /\ pc[q] \in {"flying", "abort", "wait", "asleep"} =>
         completed[q] \/ OnSomeQueue(q) \/ InHand(q) \/ q \in lost
    /\ pc[q] = "asleep" => ~completed[q]

(* A client that finds its query completed finds the end of what it asked  *)
(* for: nothing of the query is on a queue or in the hands of a worker any *)
(* more, so nobody changes its result while the client reads it.  The code *)
(* does not promise it to one whose last submission was overtaken: an      *)
(* earlier execution ended between the reset of that Execute and its look  *)
(* at m_IsExecuting, and counts as the end of the new one.                 *)
AnswerIsFresh ==
  \A q \in Queries :
    pc[q] # "idle" /\ completed[q] =>
      (~OnSomeQueue(q) /\ ~InHand(q)) \/ q \in overtaken

(* A thread in WaitForCompletion, which it leaves only when the query is   *)
(* completed, does not stay there for good, with the same reservation.     *)
WaiterReturns ==
  \A q \in Queries :
    []<>(pc[q] \notin {"wait", "asleep"} \/ q \in lost)

(* WaitForCompletion asserts on its way out that the query does not        *)
(* execute: "Query marked completed but still executing."                  *)
CompletedNotExecuting ==
  \A q \in Queries :
    pc[q] = "wait" /\ monitor[q] = None /\ completed[q] => ~executing[q]

-----------------------------------------------------------------------------
(***************************************************************************)
(* The inductive invariant.  It adds what the safety properties rest on:   *)
(* where a thread is agrees with what it holds; a queue counts as running  *)
(* just when somebody works for it or is about to; and a query that is on  *)
(* a queue or in a worker's hands is marked, and a marked one is there.    *)
(***************************************************************************)
Places ==
  /\ \A q \in Queries :
       pc[q] \in {"push", "mark", "start"} => target[q] # NoQueue
  /\ \A w \in Workers : at[w] = "free" <=> works[w] = NoQueue
  /\ \A w \in Workers : at[w] \in {"enter", "run"} <=> job[w] # None

RunningIsWorked ==
  \A k \in Queues :
    /\ Worked(k) => running[k]
    /\ poolUp /\ running[k] => Worked(k)

PlacedIsMarked ==
  \A q \in Queries :
    /\ OnSomeQueue(q) \/ InHand(q) => executing[q] \/ pc[q] = "mark"
    /\ pc[q] \in {"lookup", "push"} => ~executing[q]

MarkedIsPlaced ==
  \A q \in Queries :
    executing[q] \/ (pc[q] = "mark" /\ ~served[q]) =>
      OnSomeQueue(q) \/ InHand(q) \/ q \in lost

(* A query that counts as completed before it is submitted was completed   *)
(* since its reset.                                                        *)
CompletedIsServed ==
  \A q \in Queries :
    /\ pc[q] = "submit" /\ completed[q] => served[q]
    /\ pc[q] \in {"lookup", "push"} /\ completed[q] => q \in overtaken

WaiterRemembered ==
  \A q \in Queries :
    /\ pc[q] \in {"mark", "start", "flying", "abort", "wait", "asleep"} =>
         completed[q] \/ OnSomeQueue(q) \/ InHand(q) \/ q \in lost
    /\ pc[q] = "asleep" => ~completed[q]

IInv ==
  /\ TypeOK /\ Places
  /\ SingleProcessor /\ RunningIsWorked /\ NoStrandedQuery
  /\ HeldOnce /\ PlacedIsMarked /\ MarkedIsPlaced
  /\ WaiterRemembered /\ CompletedIsServed /\ AnswerIsFresh

=============================================================================
