------------------------- MODULE RequestThreadQueue -------------------------
(***************************************************************************)
(* The request queue of a device and its request thread                    *)
(* (components/devices/device/src/sbRequestThreadQueue.cpp and .h).        *)
(*                                                                         *)
(* Callers push requests, bracket them in batches, cancel and clear them;  *)
(* one controlling thread starts and stops the queue; the request thread   *)
(* is woken by events, pops batches and processes them; the main thread    *)
(* joins the request thread when the request thread asks for it.  A        *)
(* stretch of code under mLock (and mStopWaitMonitor) is one action, and   *)
(* what runs outside the locks is a step of its own.                       *)
(***************************************************************************)
EXTENDS Integers, Sequences

CONSTANTS
  Callers,      \* threads that call PushRequest, BatchBegin, CancelRequests...
  Requests,     \* sbRequestItem objects pushed by callers, each at most once
  Countable,    \* those whose GetIsCountable() is true
  START,        \* the REQUEST_THREAD_START item that Start pushes
  STOP,         \* the REQUEST_THREAD_STOP item that Stop pushes
  MayFail,      \* may ProcessBatch return an error other than an abort?
  NestedLoops,  \* does processing or cleanup spin the thread's event loop?
  MaxStarts,    \* bound: calls of Start
  MaxStops,     \* bound: calls of Stop
  MaxBatches,   \* bound: calls of BatchBegin
  MaxCancels,   \* bound: calls of CancelRequests
  MaxClears     \* bound: calls of ClearRequests

ASSUME ItemAssumption ==
  /\ START \notin Requests
  /\ STOP \notin Requests
  /\ START # STOP
  /\ Countable \subseteq Requests

ASSUME SwitchAssumption == MayFail \in BOOLEAN /\ NestedLoops \in BOOLEAN

ASSUME BoundAssumption ==
  /\ MaxStarts \in Nat
  /\ MaxStops \in Nat
  /\ MaxBatches \in Nat
  /\ MaxCancels \in Nat
  /\ MaxClears \in Nat

VARIABLES
  queue,          \* mRequestQueue: entries [req, batchId]
  batchDepth,     \* mBatchDepth
  currentBatchId, \* mCurrentBatchId
  abortRequests,  \* mAbortRequests
  handling,       \* mIsHandlingRequests
  threadStarted,  \* mThreadStarted
  stopProcessing, \* mStopProcessing
  shutdownAction, \* mShutdownAction # null
  thread,         \* mThread: not running, running, or asked to end
  events,         \* mReqAddedEvent objects in the event queue of mThread
  shutdownPosted, \* a ThreadShutdownAction waits on the main thread
  rtPC,           \* where the request thread is in sbRTQAddedEvent::Run
  batch,          \* the requests of Run's local Batch
  done,           \* how many of them ProcessBatch has been through
  goOn,           \* Run pops again after CleanupBatch
  callerPC,       \* where each caller is in its call
  callerBatch,    \* the local Batch of CancelRequests or ClearRequests
  open,           \* the caller is between its BatchBegin and its BatchEnd
  stopPC,         \* where the controlling thread is in Stop
  pushed,         \* the deque as Stop's push_back is about to leave it
  calls           \* how often each bounded operation was called

(***************************************************************************)
(* History: what became of each request, read by properties only, but for  *)
(* unused, which keeps a request object from being pushed twice.           *)
(***************************************************************************)
VARIABLES
  unused,         \* requests no caller has pushed yet
  accepted,       \* requests in the order PushRequest put them on the queue
  processed,      \* items ProcessBatch has been through
  cleaned,        \* unprocessed items handed to CleanupBatch
  window,         \* requests accepted inside the batch the caller has open
  threadReady,    \* OnThreadStart has run on the current request thread
  torn            \* Stop's unlocked push_back raced with an emptied deque

members   == <<queue, batchDepth, currentBatchId, abortRequests, handling>>
lifecycle == <<threadStarted, stopProcessing, shutdownAction>>
xpcom     == <<thread, events, shutdownPosted>>
rt        == <<rtPC, batch, done, goOn>>
callers   == <<callerPC, callerBatch, open>>
stop      == <<stopPC, pushed>>
history   == <<unused, accepted, processed, cleaned, window, threadReady,
               torn>>
vars == <<members, lifecycle, xpcom, rt, callers, stop, calls, history>>

-----------------------------------------------------------------------------
Items == Requests \cup {START, STOP}

BoundedCalls == {"start", "stop", "batch", "cancel", "clear"}

Entry(r) == [req |-> r, batchId |-> currentBatchId]

Entries == [req : Items, batchId : Nat]

Queued == {queue[i].req : i \in DOMAIN queue}
InBatch == {batch[i] : i \in DOMAIN batch}
Unprocessed == {batch[i] : i \in (done + 1)..Len(batch)}
InCleanup(c) == {callerBatch[c][i] : i \in DOMAIN callerBatch[c]}

(* ProcessRequest: dispatching to a thread that has ended is an error.     *)
Dispatched == IF thread = "none" THEN events ELSE events + 1

Stopping == abortRequests \/ stopProcessing

Init ==
  /\ queue = <<>>
  /\ batchDepth = 0
  /\ currentBatchId = 1
  /\ abortRequests = FALSE
  /\ handling = FALSE
  /\ threadStarted = FALSE
  /\ stopProcessing = FALSE
  /\ shutdownAction = FALSE
  /\ thread = "none"
  /\ events = 0
  /\ shutdownPosted = FALSE
  /\ rtPC = "idle" /\ batch = <<>> /\ done = 0 /\ goOn = FALSE
  /\ callerPC = [c \in Callers |-> "ready"]
  /\ callerBatch = [c \in Callers |-> <<>>]
  /\ open = [c \in Callers |-> FALSE]
  /\ stopPC = "none" /\ pushed = <<>>
  /\ calls = [op \in BoundedCalls |-> 0]
  /\ unused = Requests
  /\ accepted = <<>>
  /\ processed = {}
  /\ cleaned = {}
  /\ window = [c \in Callers |-> {}]
  /\ threadReady = FALSE
  /\ torn = FALSE

-----------------------------------------------------------------------------
(***************************************************************************)
(* The controlling thread: Start and Stop.                                 *)
(***************************************************************************)

(* Start runs alone ("should not be called while the request thread is     *)
(* running or from multiple threads"), so it is one step, its              *)
(* PushRequest(START) included.                                            *)
Start ==
  /\ calls["start"] < MaxStarts
  /\ stopPC = "none" /\ thread = "none"
  /\ \A c \in Callers : callerPC[c] = "ready"
  /\ ~threadStarted
  /\ calls' = [calls EXCEPT !["start"] = @ + 1]
  /\ stopProcessing' = FALSE
  /\ shutdownAction' = TRUE
  /\ threadStarted' = TRUE
  /\ thread' = "alive"
  /\ threadReady' = FALSE
  /\ IF abortRequests
     THEN UNCHANGED <<queue, events>>
     ELSE /\ queue' = Append(queue, Entry(START))
          /\ events' = IF batchDepth = 0 THEN 1 ELSE 0
  /\ UNCHANGED <<batchDepth, currentBatchId, abortRequests, handling,
                 shutdownPosted, rt, callers, stop,
                 unused, accepted, processed, cleaned, window, torn>>

(* Stop, first critical section; without a Start it fails and changes      *)
(* nothing.                                                                *)
StopBegin ==
  /\ calls["stop"] < MaxStops
  /\ stopPC = "none" /\ threadStarted
  /\ calls' = [calls EXCEPT !["stop"] = @ + 1]
  /\ threadStarted' = FALSE
  /\ stopPC' = "flag"
  /\ UNCHANGED <<members, stopProcessing, shutdownAction, xpcom, rt, callers,
                 pushed, history>>

StopFlag ==
  /\ stopPC = "flag"
  /\ stopProcessing' = TRUE
  /\ stopPC' = "push"
  /\ UNCHANGED <<members, threadStarted, shutdownAction, xpcom, rt, callers,
                 pushed, calls, history>>

(* Stop calls PushRequestInternal without mLock: push_back reads the end   *)
(* of the deque in one step and stores the new end in another.             *)
StopPushRead ==
  /\ stopPC = "push"
  /\ pushed' = Append(queue, Entry(STOP))
  /\ stopPC' = "write"
  /\ UNCHANGED <<members, lifecycle, xpcom, rt, callers, calls, history>>

(* Taking entries off the front moves only the deque's begin, so the push  *)
(* still lands behind what is left; emptying the deque moves its end too,  *)
(* and then either store of the end may come last: both operations take    *)
(* effect, STOP is lost, or the entries taken off are back.                *)
StopPushWrite ==
  /\ stopPC = "write"
  /\ LET stopEntry == pushed[Len(pushed)]
         emptied == queue = <<>> /\ Len(pushed) > 1
     IN  \/ /\ queue' = Append(queue, stopEntry)
            /\ torn' = torn
         \/ /\ emptied
            /\ queue' \in {<<>>, pushed}
            /\ torn' = TRUE
  /\ pushed' = <<>>
  /\ stopPC' = "dispatch"
  /\ UNCHANGED <<batchDepth, currentBatchId, abortRequests, handling,
                 lifecycle, xpcom, rt, callers, calls,
                 unused, accepted, processed, cleaned, window, threadReady>>

(* Mutant of StopDispatch: no event follows the stop request.              *)
StopDispatchForgotten ==
  /\ stopPC = "dispatch"
  /\ stopPC' = "none"
  /\ UNCHANGED <<members, lifecycle, xpcom, rt, callers, pushed, calls,
                 history>>

StopDispatch ==
  /\ stopPC = "dispatch"
  /\ events' = Dispatched
  /\ stopPC' = "none"
  /\ UNCHANGED <<members, lifecycle, thread, shutdownPosted, rt, callers,
                 pushed, calls, history>>

-----------------------------------------------------------------------------
(***************************************************************************)
(* The callers.  They use the queue from the moment Start has returned,    *)
(* and may go on after Stop.                                               *)
(***************************************************************************)
Ready(c) == callerPC[c] = "ready" /\ calls["start"] > 0

PushRejected(c, r) ==
  /\ Ready(c) /\ r \in unused
  /\ Stopping
  /\ unused' = unused \ {r}
  /\ UNCHANGED <<members, lifecycle, xpcom, rt, callers, stop, calls, accepted,
                 processed, cleaned, window, threadReady, torn>>

(* Mutants of PushAccepted: the request goes to the front of the queue, or *)
(* only one of the two flags is looked at.                                 *)
PushWhere(c, r, q) ==
  /\ Ready(c) /\ r \in unused
  /\ queue' = q
  /\ callerPC' = [callerPC EXCEPT ![c] = "dispatch"]
  /\ unused' = unused \ {r}
  /\ accepted' = Append(accepted, r)
  /\ window' = [window EXCEPT ![c] = IF open[c] THEN @ \cup {r} ELSE @]
  /\ UNCHANGED <<batchDepth, currentBatchId, abortRequests, handling,
                 lifecycle, xpcom, rt, callerBatch, open, stop, calls,
                 processed, cleaned, threadReady, torn>>

PushInFront(c, r) == ~Stopping /\ PushWhere(c, r, <<Entry(r)>> \o queue)
PushWhileAborting(c, r) ==
  ~stopProcessing /\ PushWhere(c, r, Append(queue, Entry(r)))
PushWhileStopping(c, r) ==
  ~abortRequests /\ PushWhere(c, r, Append(queue, Entry(r)))

PushAccepted(c, r) ==
  /\ Ready(c) /\ r \in unused
  /\ ~Stopping
  /\ queue' = Append(queue, Entry(r))
  /\ callerPC' = [callerPC EXCEPT ![c] = "dispatch"]
  /\ unused' = unused \ {r}
  /\ accepted' = Append(accepted, r)
  /\ window' = [window EXCEPT ![c] = IF open[c] THEN @ \cup {r} ELSE @]
  /\ UNCHANGED <<batchDepth, currentBatchId, abortRequests, handling,
                 lifecycle, xpcom, rt, callerBatch, open, stop, calls,
                 processed, cleaned, threadReady, torn>>

(* PushRequest after it has released the locks: mBatchDepth is read again. *)
PushNotify(c) ==
  /\ callerPC[c] = "dispatch"
  /\ events' = IF batchDepth = 0 THEN Dispatched ELSE events
  /\ callerPC' = [callerPC EXCEPT ![c] = "ready"]
  /\ UNCHANGED <<members, lifecycle, thread, shutdownPosted, rt, callerBatch,
                 open, stop, calls, history>>

BatchBegin(c) ==
  /\ Ready(c) /\ ~open[c] /\ calls["batch"] < MaxBatches
  /\ calls' = [calls EXCEPT !["batch"] = @ + 1]
  /\ batchDepth' = batchDepth + 1
  /\ open' = [open EXCEPT ![c] = TRUE]
  /\ UNCHANGED <<queue, currentBatchId, abortRequests, handling, lifecycle,
                 xpcom, rt, callerPC, callerBatch, stop, history>>

(* Mutants of BatchEnd: the depth is not checked before it is decremented, *)
(* or no event is dispatched for what the batch left in the queue.         *)
BatchEndUnchecked(c) ==
  /\ Ready(c) /\ open[c]
  /\ open' = [open EXCEPT ![c] = FALSE]
  /\ window' = [window EXCEPT ![c] = {}]
  /\ batchDepth' = batchDepth - 1
  /\ currentBatchId' = currentBatchId + 1
  /\ events' = Dispatched
  /\ UNCHANGED <<queue, abortRequests, handling, lifecycle, thread,
                 shutdownPosted, rt, callerPC, callerBatch, stop, calls,
                 unused, accepted, processed, cleaned, threadReady, torn>>

BatchEndSilently(c) ==
  /\ Ready(c) /\ open[c]
  /\ open' = [open EXCEPT ![c] = FALSE]
  /\ window' = [window EXCEPT ![c] = {}]
  /\ batchDepth' = IF batchDepth > 0 THEN batchDepth - 1 ELSE batchDepth
  /\ currentBatchId' = currentBatchId + 1
  /\ UNCHANGED <<queue, abortRequests, handling, lifecycle, xpcom, rt,
                 callerPC, callerBatch, stop, calls, unused, accepted,
                 processed, cleaned, threadReady, torn>>

BatchEnd(c) ==
  /\ Ready(c) /\ open[c]
  /\ open' = [open EXCEPT ![c] = FALSE]
  /\ window' = [window EXCEPT ![c] = {}]
  /\ batchDepth' = IF batchDepth > 0 THEN batchDepth - 1 ELSE batchDepth
  /\ IF batchDepth = 1
     THEN /\ currentBatchId' = currentBatchId + 1
          /\ events' = Dispatched
     ELSE UNCHANGED <<currentBatchId, events>>
  /\ UNCHANGED <<queue, abortRequests, handling, lifecycle, thread,
                 shutdownPosted, rt, callerPC, callerBatch, stop, calls,
                 unused, accepted, processed, cleaned, threadReady, torn>>

(* Mutant of TakeQueue: the queue is copied but not cleared.               *)
TakeCopy(c) ==
  /\ callerBatch' = [callerBatch EXCEPT ![c] =
                       [i \in DOMAIN queue |-> queue[i].req]]
  /\ queue' = queue
  /\ callerPC' = [callerPC EXCEPT ![c] = "cleanup"]

(* ClearRequestsNoLock, and on the way to CleanupBatch outside the locks.  *)
TakeQueue(c) ==
  /\ callerBatch' = [callerBatch EXCEPT ![c] =
                       [i \in DOMAIN queue |-> queue[i].req]]
  /\ queue' = <<>>
  /\ callerPC' = [callerPC EXCEPT ![c] = "cleanup"]

(* Mutant of ClearRequests: the depth is reset as by a cancel.             *)
ClearAndReset(c) ==
  /\ Ready(c) /\ calls["clear"] < MaxClears
  /\ calls' = [calls EXCEPT !["clear"] = @ + 1]
  /\ TakeQueue(c)
  /\ batchDepth' = 0
  /\ UNCHANGED <<currentBatchId, abortRequests, handling, lifecycle, xpcom, rt,
                 open, stop, history>>

ClearRequests(c) ==
  /\ Ready(c) /\ calls["clear"] < MaxClears
  /\ calls' = [calls EXCEPT !["clear"] = @ + 1]
  /\ TakeQueue(c)
  /\ UNCHANGED <<batchDepth, currentBatchId, abortRequests, handling,
                 lifecycle, xpcom, rt, open, stop, history>>

(* Mutant of CancelRequests: it aborts although nothing is being handled.  *)
CancelAnyway(c) ==
  /\ Ready(c) /\ calls["cancel"] < MaxCancels
  /\ calls' = [calls EXCEPT !["cancel"] = @ + 1]
  /\ ~abortRequests
  /\ abortRequests' = TRUE
  /\ batchDepth' = 0
  /\ TakeQueue(c)
  /\ UNCHANGED <<currentBatchId, handling, lifecycle, xpcom, rt, open, stop,
                 history>>

(* A second cancel while an abort is pending changes nothing.              *)
CancelRequests(c) ==
  /\ Ready(c) /\ calls["cancel"] < MaxCancels
  /\ calls' = [calls EXCEPT !["cancel"] = @ + 1]
  /\ ~abortRequests
  /\ abortRequests' = handling
  /\ batchDepth' = 0
  /\ TakeQueue(c)
  /\ UNCHANGED <<currentBatchId, handling, lifecycle, xpcom, rt, open, stop,
                 history>>

(* Mutant of CallerCleanupBatch: what was cancelled is not cleaned up.     *)
CallerForgetsBatch(c) ==
  /\ callerPC[c] = "cleanup"
  /\ callerBatch' = [callerBatch EXCEPT ![c] = <<>>]
  /\ callerPC' = [callerPC EXCEPT ![c] = "ready"]
  /\ UNCHANGED <<members, lifecycle, xpcom, rt, open, stop, calls, history>>

CallerCleanupBatch(c) ==
  /\ callerPC[c] = "cleanup"
  /\ cleaned' = cleaned \cup (InCleanup(c) \ processed)
  /\ callerBatch' = [callerBatch EXCEPT ![c] = <<>>]
  /\ callerPC' = [callerPC EXCEPT ![c] = "ready"]
  /\ UNCHANGED <<members, lifecycle, xpcom, rt, open, stop, calls, unused,
                 accepted, processed, window, threadReady, torn>>

-----------------------------------------------------------------------------
(***************************************************************************)
(* The request thread: sbRTQAddedEvent::Run.                               *)
(***************************************************************************)

(* StartRequests, on the way into Run.                                     *)
StartRequests ==
  /\ rtPC = "idle" /\ events > 0
  /\ events' = events - 1
  /\ IF handling
     THEN rtPC' = rtPC
     ELSE rtPC' = "pop"
  /\ handling' = TRUE
  /\ UNCHANGED <<queue, batchDepth, currentBatchId, abortRequests, lifecycle,
                 thread, shutdownPosted, batch, done, goOn, callers, stop,
                 calls, history>>

(* An event run by an API that spins the event loop while a batch is       *)
(* processed or cleaned up: Run sees handling and returns.                 *)
NestedEvent ==
  /\ NestedLoops
  /\ rtPC \in {"process", "cleanup"} /\ events > 0
  /\ handling
  /\ events' = events - 1
  /\ UNCHANGED <<members, lifecycle, thread, shutdownPosted, rt, callers, stop,
                 calls, history>>

(* The first n entries make up the next batch: a request that is not       *)
(* countable alone, or else all that follow with the same batch id.        *)
IsNextBatch(n) ==
  IF queue[1].req \notin Countable
  THEN n = 1
  ELSE /\ \A i \in 1..n : queue[i].batchId = queue[1].batchId
       /\ n < Len(queue) => queue[n + 1].batchId # queue[1].batchId

(* Mutant of PopBatch: it does not wait for the batch to be closed.        *)
PopOpenBatch ==
  /\ rtPC = "pop"
  /\ \E n \in 1..Len(queue) :
       /\ IsNextBatch(n)
       /\ batch' = [i \in 1..n |-> queue[i].req]
       /\ queue' = SubSeq(queue, n + 1, Len(queue))
  /\ rtPC' = "check"
  /\ UNCHANGED <<batchDepth, currentBatchId, abortRequests, handling,
                 lifecycle, xpcom, done, goOn, callers, stop, calls, history>>

PopBatch ==
  /\ rtPC = "pop"
  /\ batchDepth = 0
  /\ \E n \in 1..Len(queue) :
       /\ IsNextBatch(n)
       /\ batch' = [i \in 1..n |-> queue[i].req]
       /\ queue' = SubSeq(queue, n + 1, Len(queue))
  /\ rtPC' = "check"
  /\ UNCHANGED <<batchDepth, currentBatchId, abortRequests, handling,
                 lifecycle, xpcom, done, goOn, callers, stop, calls, history>>

PopNothing ==
  /\ rtPC = "pop"
  /\ queue = <<>> \/ batchDepth > 0
  /\ rtPC' = "complete"
  /\ UNCHANGED <<members, lifecycle, xpcom, batch, done, goOn, callers, stop,
                 calls, history>>

(* A countable request is never a system one, and a batch that starts with *)
(* a countable request keeps its type: Batch::RequestType is that of the   *)
(* first item.                                                             *)
ThreadStop ==
  /\ rtPC = "check" /\ batch[1] = STOP
  /\ shutdownPosted' = (shutdownPosted \/ shutdownAction)
  /\ shutdownAction' = FALSE
  /\ batch' = <<>>
  /\ rtPC' = "complete"
  /\ UNCHANGED <<members, threadStarted, stopProcessing, thread, events, done,
                 goOn, callers, stop, calls, history>>

AbortBatch ==
  /\ rtPC = "check" /\ batch[1] # STOP
  /\ Stopping
  /\ abortRequests' = FALSE
  /\ goOn' = FALSE
  /\ rtPC' = "cleanup"
  /\ UNCHANGED <<queue, batchDepth, currentBatchId, handling, lifecycle, xpcom,
                 batch, done, callers, stop, calls, history>>

BeginBatch ==
  /\ rtPC = "check" /\ batch[1] # STOP
  /\ ~Stopping
  /\ threadReady' = (threadReady \/ batch[1] = START)
  /\ rtPC' = "process"
  /\ UNCHANGED <<members, lifecycle, xpcom, batch, done, goOn, callers, stop,
                 calls, unused, accepted, processed, cleaned, window, torn>>

ProcessItem ==
  /\ rtPC = "process" /\ done < Len(batch)
  /\ processed' = processed \cup {batch[done + 1]}
  /\ done' = done + 1
  /\ UNCHANGED <<members, lifecycle, xpcom, rtPC, batch, goOn, callers, stop,
                 calls, unused, accepted, cleaned, window, threadReady, torn>>

(* Mutant of ProcessDone: Run returns instead of popping again.            *)
ProcessDoneOnce ==
  /\ rtPC = "process" /\ done = Len(batch)
  /\ goOn' = FALSE
  /\ rtPC' = "cleanup"
  /\ UNCHANGED <<members, lifecycle, xpcom, batch, done, callers, stop, calls,
                 history>>

ProcessDone ==
  /\ rtPC = "process" /\ done = Len(batch)
  /\ goOn' = TRUE
  /\ rtPC' = "cleanup"
  /\ UNCHANGED <<members, lifecycle, xpcom, batch, done, callers, stop, calls,
                 history>>

(* ProcessBatch looks at the abort flags between items                     *)
(* (sbBaseDevice::IsRequestAborted) and gives up.                          *)
ProcessAborted ==
  /\ rtPC = "process"
  /\ Stopping
  /\ abortRequests' = FALSE
  /\ goOn' = FALSE
  /\ rtPC' = "cleanup"
  /\ UNCHANGED <<queue, batchDepth, currentBatchId, handling, lifecycle, xpcom,
                 batch, done, callers, stop, calls, history>>

ProcessFailed ==
  /\ MayFail
  /\ rtPC = "process" /\ done < Len(batch)
  /\ goOn' = FALSE
  /\ rtPC' = "cleanup"
  /\ UNCHANGED <<members, lifecycle, xpcom, batch, done, callers, stop, calls,
                 history>>

CleanupBatch ==
  /\ rtPC = "cleanup"
  /\ cleaned' = cleaned \cup Unprocessed
  /\ batch' = <<>>
  /\ done' = 0
  /\ goOn' = FALSE
  /\ rtPC' = IF goOn THEN "pop" ELSE "complete"
  /\ UNCHANGED <<members, lifecycle, xpcom, callers, stop, calls, unused,
                 accepted, processed, window, threadReady, torn>>

(* Mutant of CompleteRequests: a late abort survives the Run.              *)
CompleteKeepingAbort ==
  /\ rtPC = "complete"
  /\ handling' = FALSE
  /\ rtPC' = "idle"
  /\ UNCHANGED <<queue, batchDepth, currentBatchId, abortRequests, lifecycle,
                 xpcom, batch, done, goOn, callers, stop, calls, history>>

CompleteRequests ==
  /\ rtPC = "complete"
  /\ handling' = FALSE
  /\ abortRequests' = FALSE
  /\ rtPC' = "idle"
  /\ UNCHANGED <<queue, batchDepth, currentBatchId, lifecycle, xpcom, batch,
                 done, goOn, callers, stop, calls, history>>

(* The main thread: OnThreadStop, then nsIThread::Shutdown, which lets the *)
(* thread run the events it still has and joins it.                        *)
ThreadShutdownAction ==
  /\ shutdownPosted
  /\ shutdownPosted' = FALSE
  /\ thread' = "joining"
  /\ UNCHANGED <<members, lifecycle, events, rt, callers, stop, calls,
                 history>>

ThreadExit ==
  /\ thread = "joining" /\ rtPC = "idle" /\ events = 0
  /\ thread' = "none"
  /\ UNCHANGED <<members, lifecycle, events, shutdownPosted, rt, callers, stop,
                 calls, history>>

-----------------------------------------------------------------------------
ControlStep == Start \/ StopBegin \/ StopFlag \/ StopPushRead \/ StopPushWrite
                 \/ StopDispatch

(* The steps that end a call a caller has begun.                           *)
CallerReturns(c) == PushNotify(c) \/ CallerCleanupBatch(c)

CallerStep(c) ==
  \/ \E r \in Requests : PushRejected(c, r) \/ PushAccepted(c, r)
  \/ BatchBegin(c) \/ BatchEnd(c)
  \/ ClearRequests(c) \/ CancelRequests(c)
  \/ CallerReturns(c)

RequestThreadStep ==
  \/ StartRequests \/ NestedEvent
  \/ PopBatch \/ PopNothing
  \/ ThreadStop \/ AbortBatch \/ BeginBatch
  \/ ProcessItem \/ ProcessDone \/ ProcessAborted \/ ProcessFailed
  \/ CleanupBatch \/ CompleteRequests

MainThreadStep == ThreadShutdownAction \/ ThreadExit

Next == \/ ControlStep
        \/ \E c \in Callers : CallerStep(c)
        \/ RequestThreadStep
        \/ MainThreadStep

Spec == Init /\ [][Next]_vars

(***************************************************************************)
(* Fairness: a runnable thread runs.  Stop and a caller's call, once       *)
(* begun, return; a caller that opened a batch closes it; ProcessBatch     *)
(* ends.  Nobody has to call anything else, and the thread need not fail,  *)
(* notice an abort or spin its event loop.                                 *)
(***************************************************************************)
StopReturns == StopFlag \/ StopPushRead \/ StopPushWrite \/ StopDispatch

RequestThreadAdvances ==
  \/ StartRequests \/ PopBatch \/ PopNothing \/ ThreadStop \/ AbortBatch
  \/ BeginBatch \/ ProcessItem \/ ProcessDone \/ CleanupBatch
  \/ CompleteRequests

Fairness ==
  /\ WF_vars(RequestThreadAdvances)
  /\ WF_vars(MainThreadStep)
  /\ WF_vars(StopReturns)
  /\ \A c \in Callers : WF_vars(CallerReturns(c)) /\ WF_vars(BatchEnd(c))

FairSpec == Spec /\ Fairness

-----------------------------------------------------------------------------
QueueType ==
  /\ queue \in Seq(Entries)
  /\ pushed \in Seq(Entries)
  /\ batchDepth \in Nat /\ currentBatchId \in Nat
  /\ accepted \in Seq(Requests)

FlagType ==
  /\ abortRequests \in BOOLEAN /\ handling \in BOOLEAN
  /\ threadStarted \in BOOLEAN /\ stopProcessing \in BOOLEAN
  /\ shutdownAction \in BOOLEAN /\ shutdownPosted \in BOOLEAN
  /\ goOn \in BOOLEAN /\ threadReady \in BOOLEAN /\ torn \in BOOLEAN

ThreadType ==
  /\ thread \in {"none", "alive", "joining"} /\ events \in Nat
  /\ stopPC \in {"none", "flag", "push", "write", "dispatch"}
  /\ rtPC \in {"idle", "pop", "check", "process", "cleanup", "complete"}
  /\ batch \in Seq(Items) /\ done \in Nat

CallerType ==
  /\ callerPC \in [Callers -> {"ready", "dispatch", "cleanup"}]
  /\ callerBatch \in [Callers -> Seq(Items)]
  /\ open \in [Callers -> BOOLEAN]
  /\ window \in [Callers -> SUBSET Requests]
  /\ calls \in [BoundedCalls -> Nat]
  /\ unused \subseteq Requests
  /\ processed \subseteq Items /\ cleaned \subseteq Items

(* Every variable of the queue, its threads and their history is in range. *)
TypeOK == QueueType /\ FlagType /\ ThreadType /\ CallerType

(* Every request PushRequest accepted is in exactly one place: the queue,  *)
(* the batch at hand, the local batch of a canceller, or among the         *)
(* requests processed or given to CleanupBatch; and it is there once       *)
(* ("When PopBatch is called, ownership is transferred").                  *)
SingleOwner ==
  /\ \A i, j \in DOMAIN queue : queue[i].req = queue[j].req => i = j
  /\ Queued \cap InBatch = {}
  /\ \A c \in Callers : InCleanup(c) \cap (Queued \cup InBatch) = {}
  /\ \A r \in Requests :
       (\E i \in DOMAIN accepted : accepted[i] = r)
         <=> \/ r \in Queued \cup InBatch \cup processed \cup cleaned
             \/ \E c \in Callers : r \in InCleanup(c)

(* The same, as long as Stop's push has not raced with an emptied deque.   *)
SingleOwnerUnlessTorn == torn \/ SingleOwner

(* The request thread never processes a request while one accepted before  *)
(* it still waits for its turn.                                            *)
NoOvertaking ==
  torn \/ \A i, j \in DOMAIN accepted :
            (i < j /\ accepted[j] \in processed)
              => accepted[i] \notin Queued \cup (Unprocessed \ processed)

(* A pending abort belongs to a Run in progress: it cannot outlive it and  *)
(* turn away the requests pushed afterwards.                               *)
AbortWhileHandling == abortRequests => handling

(* While an abort is pending nothing a caller pushed waits in the queue,   *)
(* so the abort only hits requests accepted before it.                     *)
AbortLeavesNothingQueued ==
  (abortRequests /\ ~torn) => Queued \subseteq {STOP}

(* The stop request is the last: nothing is ever accepted behind it.       *)
StopIsLast ==
  \A i \in DOMAIN queue : queue[i].req = STOP => i = Len(queue)

(* The request thread is only joined when its queue is empty, so that no   *)
(* request is left without a thread.                                       *)
NothingLeftBehind ==
  (shutdownPosted \/ thread # "alive") => queue = <<>>

(* Nothing of a batch leaves the queue before the batch is closed: what a  *)
(* caller pushed since its BatchBegin is still queued, all of it, unless   *)
(* the queue was cleared or cancelled.                                     *)
OpenBatchIsWhole ==
  calls["cancel"] + calls["clear"] = 0
    => \A c \in Callers : window[c] \subseteq Queued

(* A caller that ends the batch it began finds the depth above zero (the   *)
(* assertion in BatchEnd, "batch depth out of balance"), as long as no     *)
(* cancel has reset the depth.                                             *)
DepthInBalance ==
  calls["cancel"] = 0
    => \A c \in Callers : (Ready(c) /\ open[c]) => batchDepth > 0

(* The request thread has been told of what is queued: when it is not at   *)
(* work and no batch is open, an event for it is pending or about to be    *)
(* dispatched by the call that pushed or by Stop.  This is said of Runs    *)
(* that no failure, cancel or stop ends: one that is cut short leaves what *)
(* is behind its batch on the queue, and a nested event may have used up   *)
(* the notice of it.                                                       *)
NoStrandedRequest ==
  (queue # <<>> /\ ~handling /\ batchDepth = 0 /\ ~torn)
     => \/ events > 0
        \/ \E c \in Callers : callerPC[c] = "dispatch"
        \/ stopPC # "none"

(* OnThreadStart comes first: nothing is processed on a thread before its  *)
(* REQUEST_THREAD_START, "the first request" (.h:233), as long as no       *)
(* cancel or clear took the start request off the queue.                   *)
StartedBeforeProcessing ==
  (rtPC = "process" /\ calls["cancel"] + calls["clear"] = 0) => threadReady

(* Every request accepted is in the end processed or handed to             *)
(* CleanupBatch.                                                           *)
AcceptedIsSettled ==
  \A r \in Requests :
    (\E i \in DOMAIN accepted : accepted[i] = r)
       ~> (r \in processed \cup cleaned)

(* A pending abort comes to an end, and with it the rejection of requests. *)
AbortEnds == abortRequests ~> ~abortRequests

(* Stop "stops the request processing thread": the shutdown action runs    *)
(* and the thread is joined (.h:248-253), as long as Stop's push has not   *)
(* raced with an emptied deque.                                            *)
StopEndsThread == stopProcessing ~> (thread = "none" \/ torn)

(* The same, as long as the stop request was not dropped with a batch of   *)
(* countable requests.                                                     *)
StopEndsThreadUnlessDropped ==
  stopProcessing ~> (thread = "none" \/ torn \/ STOP \in cleaned)

-----------------------------------------------------------------------------
(***************************************************************************)
(* What makes StopIsLast and NothingLeftBehind inductive: where a stop     *)
(* request can be in each phase of the thread's life.                      *)
(***************************************************************************)
StopPopped == rtPC = "check" /\ batch[1] = STOP

Ended == shutdownPosted \/ thread # "alive"

StopPhases ==
  /\ threadStarted => ~stopProcessing /\ stopPC = "none"
  /\ stopPC = "flag" => ~stopProcessing
  /\ stopPC \in {"push", "write", "dispatch"} => stopProcessing
  /\ stopPC \in {"flag", "push", "write"} => STOP \notin Queued /\ ~StopPopped
  /\ stopPC = "write" => /\ pushed # <<>>
                         /\ \A i \in DOMAIN pushed :
                              pushed[i].req = STOP <=> i = Len(pushed)
  /\ STOP \in Queued \/ StopPopped => stopProcessing /\ ~Ended
  /\ StopPopped => queue = <<>>
  /\ Ended => /\ queue = <<>>
              /\ ~threadStarted
              /\ stopPC \in {"none", "dispatch"}
              /\ calls["start"] > 0 => stopProcessing
  /\ thread # "alive" => ~shutdownPosted

IInv ==
  /\ TypeOK
  /\ AbortWhileHandling
  /\ AbortLeavesNothingQueued
  /\ StopIsLast
  /\ StopPhases

=============================================================================
