-------------------------- MODULE MetadataService ---------------------------
(***************************************************************************)
(* sbFileMetadataService with its jobs, its two processors and its crash   *)
(* tracker (components/mediacore/metadata/manager/src).                    *)
(*                                                                         *)
(* A job reads the metadata of files, or writes it.  Its items wait in one *)
(* list for the main thread and in one for the background thread, as the   *)
(* handler of the file demands.  The main processor polls a few handlers   *)
(* by a timer; the background thread takes items one at a time and puts    *)
(* what it has done on the job's processed list.  A second timer completes *)
(* processed items, counts, and ends the jobs.  An item whose handler      *)
(* found nothing is queued again for the next handler of its file.         *)
(*                                                                         *)
(* A stretch of code under one lock is one action, and so is a stretch of  *)
(* the main thread between two points where the background thread sees a   *)
(* difference.  The main thread is one: what it is inside of is in main.   *)
(* Which job gives the next item (mNextJobIndex) and in which order a list *)
(* is worked off are left open.  Not modelled: jobs blocked because their  *)
(* file is playing, properties and album art, paths the watch folders are  *)
(* to ignore, and the batch the library is in while a job runs.            *)
(***************************************************************************)
EXTENDS CrashTracker, FiniteSets, Sequences

CONSTANTS
  Jobs,         \* the calls of Read and Write
  Writes,       \* those of Write
  FilesOf,      \* the media items they are given, by their files
  HandlersOf,   \* the handlers of a file in turn: "main" or "background"
  ActiveHandlers, \* NUM_ACTIVE_HANDLERS
  FlushAt,      \* NUM_BACKGROUND_ITEMS_BEFORE_FLUSH
  None,         \* no job, no item
  MaxInterruptions \* bound: cancels, shutdowns and deaths of the process

Items == [job: Jobs, file: Files, result: {"none", "ok", "bad"}]

(* A job without a media item is refused (AppendMediaItems).               *)
ASSUME MetadataAssumption ==
  /\ IsFiniteSet(Files)
  /\ Writes \subseteq Jobs
  /\ FilesOf \in [Jobs -> SUBSET Files \ {{}}]
  /\ HandlersOf \in [Files -> Seq({"main", "background"})]
  /\ ActiveHandlers \in Nat \ {0}
  /\ FlushAt \in Nat /\ MaxInterruptions \in Nat
  /\ None \notin Jobs \cup Items

Slots == 1..ActiveHandlers

VARIABLES
  jobs,      \* the jobs of this session
  service,   \* sbFileMetadataService
  tracker,   \* its mCrashTracker, and the tracker's files
  processor, \* sbMainThreadMetadataProcessor
  slots,     \* its mCurrentJobItems
  thread,    \* sbBackgroundThreadMetadataProcessor and its thread
  main,      \* what the main thread is inside of
  calls,     \* the jobs started in this session, and all interruptions
  crashed,   \* files that were in a handler when the process died: those of
             \* deaths since the tracker was last initialised, and older ones
  forgotten, \* files that were in a handler when the log was reset
  missed     \* the thread had tested mShouldShutdown just before it was set

vars == <<jobs, service, tracker, processor, slots, thread, main, calls,
          crashed, forgotten, missed>>

NewJob ==
  [status |-> "none", main |-> {}, background |-> {},
   processed |-> {}, completed |-> 0, total |-> 0, errors |-> {},
   attempt |-> [f \in Files |-> 1], done |-> {}, left |-> {}]

Idle ==
  [start |-> "no",      \* StartJob has still to make the tracker ready, or to
                        \* start the background thread
   observing |-> FALSE, \* in the callback of the notification timer
   todo |-> {},         \* jobs of its snapshot still to go through
   job |-> None,        \* the job it is in OnJobProgress of
   items |-> {},        \* items that job is completing
   notify |-> 0,        \* the slot Notify has reached
   finished |-> TRUE,   \* its local of that name
   stop |-> 0]          \* the slot Stop has reached

InitSession ==
  /\ jobs = [j \in Jobs |-> NewJob]
  /\ service = [array |-> {}, timer |-> FALSE, shutdown |-> "no"]
  /\ processor = [exists |-> FALSE, running |-> FALSE, events |-> 0]
  /\ slots = [k \in Slots |-> None]
  /\ thread = [pc |-> "none", item |-> None, stop |-> FALSE]
  /\ main = Idle
  /\ forgotten = {} /\ missed = FALSE

Init ==
  /\ InitSession
  /\ tracker = NewTracker
  /\ calls = [started |-> {}, interruptions |-> 0]
  /\ crashed = [recent |-> {}, older |-> {}]

Item(j, f) == [job |-> j, file |-> f, result |-> "none"]

(* The items handlers are working on: place 0 is the background thread,    *)
(* the others are the slots.                                               *)
Places == 0..ActiveHandlers
At(p) ==
  IF p \in Slots THEN slots[p]
                 ELSE IF thread.pc = "reading" THEN thread.item ELSE None
InHandler == {At(p) : p \in Places} \ {None}
FilesInHandler == {i.file : i \in InHandler}

(* The main thread is in its event loop: nothing is on its stack, but      *)
(* Shutdown waiting for the background thread.                             *)
InEventLoop ==
  /\ main.start = "no" /\ ~main.observing /\ main.notify = 0
  /\ service.shutdown \in {"no", "joining", "done"}

Interruption ==
  /\ calls.interruptions < MaxInterruptions
  /\ calls' = [calls EXCEPT !.interruptions = @ + 1]

-----------------------------------------------------------------------------
(***************************************************************************)
(* A job, as a record.                                                     *)
(***************************************************************************)

(* Put the item of file f into the list its current handler demands.       *)
Listed(job, f) ==
  IF HandlersOf[f][job.attempt[f]] = "main"
    THEN [job EXCEPT !.main = @ \cup {f}]
    ELSE [job EXCEPT !.background = @ \cup {f}]

HasHandler(f) == HandlersOf[f] # <<>>

(* AppendMediaItems for the files fs: an item without a handler has failed *)
(* already.                                                                *)
MediaItems(fs) ==
  LET bad == {f \in fs : ~HasHandler(f)}
      on(where) == {f \in fs \ bad : HandlersOf[f][1] = where}
  IN [NewJob EXCEPT !.status = "running",
                    !.main = on("main"), !.background = on("background"),
                    !.total = Cardinality(fs),
                    !.completed = Cardinality(bad),
                    !.errors = bad]

(* HandleFailedItem finds another handler.                                 *)
Retried(j, job, f) ==
  j \notin Writes /\ job.attempt[f] < Len(HandlersOf[f])

(* Mutant of Again: the new round of the item is not counted.              *)
Uncounted(job, f) == Listed([job EXCEPT !.attempt[f] = @ + 1], f)

(* AppendJobItem with the next handler.                                    *)
Again(job, f) ==
  [Listed([job EXCEPT !.attempt[f] = @ + 1], f) EXCEPT !.total = @ + 1]

Failed(job, f) == [job EXCEPT !.errors = @ \cup {f}]

(* HandleProcessedItem.  restarted: the processors can be started again,   *)
(* without which a retry is counted as an error too.                       *)
Handled(j, job, f, result, restarted) ==
  LET counted == [job EXCEPT !.completed = @ + 1]
  IN CASE result = "ok" -> [counted EXCEPT !.done = @ \cup {f}]
       [] result # "ok" /\ ~Retried(j, job, f) -> Failed(counted, f)
       [] result # "ok" /\ Retried(j, job, f) /\ restarted ->
            Again(counted, f)
       [] OTHER -> Failed(Again(counted, f), f)

(* Mutant of Progressed: a job has ended when its lists are empty.         *)
EmptyIsDone(job) ==
  IF job.main \cup job.background = {} /\ job.processed = {}
    THEN [job EXCEPT !.status = IF job.errors = {} THEN "succeeded"
                                                   ELSE "failed"]
    ELSE job

(* OnJobProgress when there is nothing to complete.                        *)
Progressed(job) ==
  IF job.completed = job.total
    THEN [job EXCEPT !.status = IF job.errors = {} THEN "succeeded"
                                                  ELSE "failed"]
    ELSE job

(* sbMetadataJob::Cancel.                                                  *)
Cancelled(job) ==
  Progressed([job EXCEPT !.main = {}, !.background = {}, !.processed = {},
                         !.status = "failed"])

(* BatchCompleteItems: the processed list is full, or no more will come.   *)
NeedsCompletion(job) ==
  \/ Cardinality(job.processed) > FlushAt
  \/ job.background = {} /\ job.processed # {}

-----------------------------------------------------------------------------
(***************************************************************************)
(* Giving an item out and taking it back.                                  *)
(***************************************************************************)

(* GetQueuedItem of some running job.                                      *)
Queued(list, j, f) ==
  j \in service.array /\ jobs[j].status = "running" /\ f \in jobs[j][list]

NothingQueued(list) == \A j \in Jobs, f \in Files : ~Queued(list, j, f)

(* Mutant of Ended: the end is logged whether or not there was a begin.    *)
AlwaysEnded(f) == [tracker EXCEPT !.log[f] = @ - 1]

(* PutProcessedJobItem logs the end of f.                                  *)
Ended(f) == IF tracker.ready THEN LogURLEnd(tracker, f) ELSE tracker

(* PutProcessedItem on the main thread, which goes on as in m afterwards:  *)
(* a retry starts the main processor, if it does not run, and posts an     *)
(* event that starts the background thread.  given: the jobs, with the     *)
(* item taken from its list.                                               *)
PutOnMain(given, j, f, result, m) ==
  LET again == result # "ok" /\ Retried(j, given[j], f)
      starts == again /\ processor.exists
  IN IF given[j].status # "running"
       THEN jobs' = given /\ main' = m /\ UNCHANGED processor
       ELSE
         /\ jobs' = [given EXCEPT ![j] = Handled(j, @, f, result, starts)]
         /\ processor' = IF starts
                           THEN [processor EXCEPT !.running = TRUE,
                                                  !.events = @ + 1]
                           ELSE processor
         /\ main' = IF starts /\ ~processor.running
                      THEN [m EXCEPT !.notify = 1, !.finished = TRUE]
                      ELSE m

-----------------------------------------------------------------------------
(***************************************************************************)
(* Calls of the main thread.                                               *)
(***************************************************************************)

(* The main thread calls the listeners of a job that has just made         *)
(* progress.                                                               *)
InListener ==
  /\ main.observing /\ main.start = "no" /\ main.notify = 0
  /\ main.job = None /\ main.todo # service.array

(* StartJob accepts a job.                                                 *)
Accept(j) ==
  /\ service.shutdown = "no" /\ j \notin calls.started
  /\ calls' = [calls EXCEPT !.started = @ \cup {j}]
  /\ jobs' = [jobs EXCEPT ![j] = MediaItems(FilesOf[j])]
  /\ service' = [service EXCEPT !.array = @ \cup {j}, !.timer = TRUE]

(* ... and starts the main processor.                                      *)
StartProcessor ==
  /\ processor' = [processor EXCEPT !.exists = TRUE, !.running = TRUE]
  /\ main' = [main EXCEPT !.start = "thread",
                          !.notify = IF processor.running THEN 0 ELSE 1,
                          !.finished = TRUE]

StartJob(j) ==
  /\ InEventLoop \/ InListener
  /\ tracker.ready
  /\ Accept(j) /\ StartProcessor
  /\ UNCHANGED <<tracker, slots, thread, crashed, forgotten, missed>>

(* The first job of a session makes the crash tracker, between the two.    *)
FirstJob(j) ==
  /\ InEventLoop /\ ~tracker.ready
  /\ Accept(j)
  /\ tracker' = ReadTracker(tracker)
  /\ main' = [main EXCEPT !.start = "tracker"]
  /\ UNCHANGED <<processor, slots, thread, crashed, forgotten, missed>>

WriteURL(f) ==
  /\ main.start = "tracker"
  /\ f \in tracker.blacklist \ tracker.blacklistFile
  /\ tracker' = WriteBlacklistURL(tracker, f)
  /\ UNCHANGED <<jobs, service, processor, slots, thread, main, calls,
                 crashed, forgotten, missed>>

TrackerReady ==
  /\ main.start = "tracker" /\ tracker.blacklist \subseteq tracker.blacklistFile
  /\ tracker' = LogProcessed(tracker)
  /\ crashed' = [recent |-> {}, older |-> crashed.older \cup crashed.recent]
  /\ StartProcessor
  /\ UNCHANGED <<jobs, service, slots, thread, calls, forgotten, missed>>

(* Mutant of StartedThread: a thread that waits is not notified.           *)
NotNotified ==
  IF thread.pc = "none" THEN [thread EXCEPT !.pc = "top", !.stop = FALSE]
                        ELSE thread

(* sbBackgroundThreadMetadataProcessor::Start.                             *)
StartedThread ==
  CASE thread.pc = "none" ->
         [thread EXCEPT !.pc = "top", !.stop = FALSE]
    [] thread.pc = "waiting" -> [thread EXCEPT !.pc = "top"]
    [] OTHER -> thread

(* The end of StartJob.                                                    *)
StartThread ==
  /\ main.start = "thread" /\ main.notify = 0
  /\ main' = [main EXCEPT !.start = "no"]
  /\ thread' = StartedThread
  /\ UNCHANGED <<jobs, service, tracker, processor, slots, calls, crashed,
                 forgotten, missed>>

(* The event posted by RestartProcessors.                                  *)
StartEvent ==
  /\ InEventLoop /\ processor.events > 0
  /\ processor' = [processor EXCEPT !.events = @ - 1]
  /\ thread' = StartedThread
  /\ UNCHANGED <<jobs, service, tracker, slots, main, calls, crashed,
                 forgotten, missed>>

Cancel(j) ==
  /\ InEventLoop /\ jobs[j].status = "running"
  /\ Interruption
  /\ jobs' = [jobs EXCEPT ![j] = Cancelled(@)]
  /\ UNCHANGED <<service, tracker, processor, slots, thread, main, crashed,
                 forgotten, missed>>

-----------------------------------------------------------------------------
(***************************************************************************)
(* The main processor: Notify goes through its slots.                      *)
(***************************************************************************)

NotifyTimer ==
  /\ InEventLoop /\ processor.running
  /\ main' = [main EXCEPT !.notify = 1, !.finished = TRUE]
  /\ UNCHANGED <<jobs, service, tracker, processor, slots, thread, calls,
                 crashed, forgotten, missed>>

InSlot(k) == main.notify = k /\ k \in Slots
NextSlot(finished) ==
  [main EXCEPT !.notify = @ + 1, !.finished = @ /\ finished]

SlotBusy(k) ==
  /\ InSlot(k) /\ slots[k] # None /\ slots[k].result = "none"
  /\ main' = NextSlot(FALSE)
  /\ UNCHANGED <<jobs, service, tracker, processor, slots, thread, calls,
                 crashed, forgotten, missed>>

(* The handler has completed: the item is given back, and the slot empty.  *)
SlotCompletes(k) ==
  /\ InSlot(k) /\ slots[k] # None /\ slots[k].result # "none"
  /\ slots' = [slots EXCEPT ![k] = None]
  /\ tracker' = Ended(slots[k].file)
  /\ PutOnMain(jobs, slots[k].job, slots[k].file, slots[k].result, main)
  /\ UNCHANGED <<service, thread, calls, crashed, forgotten, missed>>

TakenFrom(list, j, f) == [jobs EXCEPT ![j][list] = @ \ {f}]

(* GetQueuedJobItem meets a blacklisted file, gives it back unread and     *)
(* looks on.                                                               *)
SlotSkips(k, j, f) ==
  /\ InSlot(k) /\ slots[k] = None
  /\ Queued("main", j, f) /\ f \in tracker.blacklist
  /\ tracker' = Ended(f)
  /\ PutOnMain(TakenFrom("main", j, f), j, f, "bad", main)
  /\ UNCHANGED <<service, slots, thread, calls, crashed, forgotten, missed>>

(* GetQueuedItem cannot prepare an item for writing: it gives it back with  *)
(* an error, at which Notify returns.                                      *)
SlotPrepareFails(k, j, f) ==
  /\ InSlot(k) /\ slots[k] = None
  /\ j \in Writes /\ Queued("main", j, f)
  /\ PutOnMain(TakenFrom("main", j, f), j, f, "bad",
               [main EXCEPT !.notify = 0])
  /\ UNCHANGED <<service, tracker, slots, thread, calls, crashed, forgotten,
                 missed>>

SlotTakes(k, j, f) ==
  /\ InSlot(k) /\ slots[k] = None
  /\ Queued("main", j, f) /\ f \notin tracker.blacklist
  /\ jobs' = TakenFrom("main", j, f)
  /\ slots' = [slots EXCEPT ![k] = Item(j, f)]
  /\ tracker' = LogURLBegin(tracker, f)
  /\ main' = NextSlot(FALSE)
  /\ UNCHANGED <<service, processor, thread, calls, crashed, forgotten,
                 missed>>

(* The handler does not even start.                                        *)
SlotRefused(k, j, f) ==
  /\ InSlot(k) /\ slots[k] = None
  /\ Queued("main", j, f) /\ f \notin tracker.blacklist
  /\ tracker' = LogURLEnd(LogURLBegin(tracker, f), f)
  /\ PutOnMain(TakenFrom("main", j, f), j, f, "bad", NextSlot(FALSE))
  /\ UNCHANGED <<service, slots, thread, calls, crashed, forgotten, missed>>

SlotEmpty(k) ==
  /\ InSlot(k) /\ slots[k] = None /\ NothingQueued("main")
  /\ main' = NextSlot(TRUE)
  /\ UNCHANGED <<jobs, service, tracker, processor, slots, thread, calls,
                 crashed, forgotten, missed>>

(* Past the last slot: with nothing left the timer is stopped.             *)
NotifyEnd ==
  /\ main.notify = ActiveHandlers + 1
  /\ main' = [main EXCEPT !.notify = 0]
  /\ processor' = [processor EXCEPT !.running = @ /\ ~main.finished]
  /\ UNCHANGED <<jobs, service, tracker, slots, thread, calls, crashed,
                 forgotten, missed>>

(* A handler of the main thread works by itself.                           *)
HandlerCompletes(k, result) ==
  /\ slots[k] # None /\ slots[k].result = "none"
  /\ slots' = [slots EXCEPT ![k].result = result]
  /\ UNCHANGED <<jobs, service, tracker, processor, thread, main, calls,
                 crashed, forgotten, missed>>

-----------------------------------------------------------------------------
(***************************************************************************)
(* The background thread: Run.                                             *)
(***************************************************************************)

(* The loop tests mShouldShutdown outside the monitor.                     *)
ThreadGoesOn ==
  /\ thread.pc = "top"
  /\ thread' = [thread EXCEPT !.pc = IF thread.stop THEN "gone" ELSE "ready"]
  /\ UNCHANGED <<jobs, service, tracker, processor, slots, main, calls,
                 crashed, forgotten, missed>>

ThreadTakes(j, f) ==
  /\ thread.pc = "ready"
  /\ Queued("background", j, f) /\ f \notin tracker.blacklist
  /\ jobs' = TakenFrom("background", j, f)
  /\ thread' = [thread EXCEPT !.pc = "reading", !.item = Item(j, f)]
  /\ tracker' = LogURLBegin(tracker, f)
  /\ UNCHANGED <<service, processor, slots, main, calls, crashed, forgotten,
                 missed>>

(* A blacklisted file, in the middle of GetQueuedJobItem.                  *)
ThreadSkips(j, f) ==
  /\ thread.pc = "ready"
  /\ Queued("background", j, f) /\ f \in tracker.blacklist
  /\ jobs' = [TakenFrom("background", j, f) EXCEPT
                ![j].processed = @ \cup {<<f, "bad">>}]
  /\ tracker' = Ended(f)
  /\ UNCHANGED <<service, processor, slots, thread, main, calls, crashed,
                 forgotten, missed>>

(* It holds the monitor from the look at the jobs until it waits.          *)
ThreadWaits ==
  /\ thread.pc = "ready" /\ NothingQueued("background")
  /\ thread' = [thread EXCEPT !.pc = "waiting"]
  /\ UNCHANGED <<jobs, service, tracker, processor, slots, main, calls,
                 crashed, forgotten, missed>>

(* The handler returns, and PutProcessedJobItem logs the end.              *)
ThreadEnds(result) ==
  /\ thread.pc = "reading"
  /\ thread' = [thread EXCEPT !.pc = "ended", !.item.result = result]
  /\ tracker' = Ended(thread.item.file)
  /\ UNCHANGED <<jobs, service, processor, slots, main, calls, crashed,
                 forgotten, missed>>

(* Run cannot tell whether the item is blocked, or not unblock its job, and *)
(* goes on to the next one: nobody gives this one back.                    *)
ThreadDrops ==
  /\ thread.pc = "reading"
  /\ jobs' = [jobs EXCEPT ![thread.item.job].left = @ \cup {thread.item.file}]
  /\ thread' = [thread EXCEPT !.pc = "top", !.item = None]
  /\ UNCHANGED <<service, tracker, processor, slots, main, calls, crashed,
                 forgotten, missed>>

(* DeferProcessedItemHandling: the items of a cancelled job are dropped.   *)
Deferred(job, item) ==
  IF job.status = "running"
    THEN [job EXCEPT !.processed = @ \cup {<<item.file, item.result>>}]
    ELSE job

ThreadPuts ==
  /\ thread.pc = "ended"
  /\ jobs' = [jobs EXCEPT ![thread.item.job] = Deferred(@, thread.item)]
  /\ thread' = [thread EXCEPT !.pc = "top", !.item = None]
  /\ UNCHANGED <<service, tracker, processor, slots, main, calls, crashed,
                 forgotten, missed>>

-----------------------------------------------------------------------------
(***************************************************************************)
(* The notification timer: Observe goes through a snapshot of the jobs.    *)
(***************************************************************************)

Observe ==
  /\ InEventLoop /\ service.timer
  /\ main' = [main EXCEPT !.observing = TRUE, !.todo = service.array]
  /\ UNCHANGED <<jobs, service, tracker, processor, slots, thread, calls,
                 crashed, forgotten, missed>>

InObserve == main.observing /\ main.start = "no" /\ main.notify = 0

(* OnJobProgress of the next job: BatchCompleteItems steals the list.      *)
OnJobProgress(j) ==
  /\ InObserve /\ main.job = None /\ j \in main.todo
  /\ IF NeedsCompletion(jobs[j])
       THEN /\ main' = [main EXCEPT !.todo = @ \ {j}, !.job = j,
                                    !.items = jobs[j].processed]
            /\ jobs' = [jobs EXCEPT ![j].processed = {}]
       ELSE main' = [main EXCEPT !.todo = @ \ {j}, !.job = j]
            /\ UNCHANGED jobs
  /\ UNCHANGED <<service, tracker, processor, slots, thread, calls, crashed,
                 forgotten, missed>>

(* BatchCompleteItemsCallback handles one of them.                         *)
CompleteItem(i) ==
  /\ InObserve /\ i \in main.items
  /\ PutOnMain(jobs, main.job, i[1], i[2],
               [main EXCEPT !.items = @ \ {i}])
  /\ UNCHANGED <<service, tracker, slots, thread, calls, crashed, forgotten,
                 missed>>

(* The rest of OnJobProgress.                                              *)
JobProgressed ==
  /\ InObserve /\ main.job # None /\ main.items = {}
  /\ jobs' = [jobs EXCEPT ![main.job] = Progressed(@)]
  /\ main' = [main EXCEPT !.job = None]
  /\ UNCHANGED <<service, tracker, processor, slots, thread, calls, crashed,
                 forgotten, missed>>

AllComplete == \A j \in service.array : jobs[j].status # "running"

(* The end of Observe: with no job running the service comes to rest.      *)
ObserveEnd ==
  /\ InObserve /\ main.job = None /\ main.todo = {}
  /\ main' = [main EXCEPT !.observing = FALSE]
  /\ IF AllComplete
       THEN /\ service' = [service EXCEPT !.array = {}, !.timer = FALSE]
            /\ tracker' = IF tracker.ready THEN ResetLog(tracker) ELSE tracker
            /\ forgotten' = forgotten \cup FilesInHandler
       ELSE UNCHANGED <<service, tracker, forgotten>>
  /\ UNCHANGED <<jobs, processor, slots, thread, calls, crashed, missed>>

-----------------------------------------------------------------------------
(***************************************************************************)
(* Shutdown, and the death of the process.                                 *)
(***************************************************************************)

(* Shutdown stops the main processor, which gives back what is in its      *)
(* slots.                                                                  *)
Shutdown ==
  /\ InEventLoop /\ service.shutdown = "no"
  /\ Interruption
  /\ service' = [service EXCEPT !.shutdown = "stopping"]
  /\ processor' = [processor EXCEPT !.running = FALSE]
  /\ main' = [main EXCEPT !.stop = IF processor.exists THEN 1 ELSE
                                   ActiveHandlers + 1]
  /\ UNCHANGED <<jobs, tracker, slots, thread, crashed, forgotten, missed>>

InStop == service.shutdown = "stopping" /\ main.notify = 0

StopSlot(k, result) ==
  /\ InStop /\ main.stop = k /\ k \in Slots /\ slots[k] # None
  /\ slots' = [slots EXCEPT ![k] = None]
  /\ tracker' = Ended(slots[k].file)
  /\ PutOnMain(jobs, slots[k].job, slots[k].file, result,
               [main EXCEPT !.stop = @ + 1])
  /\ UNCHANGED <<service, thread, calls, crashed, forgotten, missed>>

StopEmptySlot(k) ==
  /\ InStop /\ main.stop = k /\ k \in Slots /\ slots[k] = None
  /\ main' = [main EXCEPT !.stop = @ + 1]
  /\ UNCHANGED <<jobs, service, tracker, processor, slots, thread, calls,
                 crashed, forgotten, missed>>

(* Mutant of StopThread: the thread is told, and left asleep.              *)
StopQuietly ==
  /\ InStop /\ main.stop = ActiveHandlers + 1
  /\ main' = [main EXCEPT !.stop = 0]
  /\ processor' = [processor EXCEPT !.exists = FALSE]
  /\ service' = [service EXCEPT !.shutdown = "joining"]
  /\ thread' = [thread EXCEPT !.stop = TRUE]
  /\ missed' = (thread.pc = "ready")
  /\ UNCHANGED <<jobs, tracker, slots, calls, crashed, forgotten>>

(* ... drops it, and tells the background thread to stop.                  *)
StopThread ==
  /\ InStop /\ main.stop = ActiveHandlers + 1
  /\ main' = [main EXCEPT !.stop = 0]
  /\ processor' = [processor EXCEPT !.exists = FALSE]
  /\ service' = [service EXCEPT !.shutdown = "joining"]
  /\ thread' = [thread EXCEPT !.stop = TRUE,
                              !.pc = IF @ = "waiting" THEN "top" ELSE @]
  /\ missed' = (thread.pc = "ready")
  /\ UNCHANGED <<jobs, tracker, slots, calls, crashed, forgotten>>

(* The thread has ended: its last event comes behind those posted before.  *)
ShutdownEnd ==
  /\ InEventLoop /\ service.shutdown = "joining"
  /\ thread.pc \in {"none", "gone"} /\ processor.events = 0
  /\ jobs' = [j \in Jobs |-> IF j \in service.array THEN Cancelled(jobs[j])
                                                     ELSE jobs[j]]
  /\ service' = [array |-> {}, timer |-> FALSE, shutdown |-> "done"]
  /\ tracker' = IF tracker.ready
                  THEN [ResetLog(tracker) EXCEPT !.ready = FALSE]
                  ELSE tracker
  /\ forgotten' = forgotten \cup FilesInHandler
  /\ thread' = [thread EXCEPT !.pc = "none"]
  /\ UNCHANGED <<processor, slots, main, calls, crashed, missed>>

(* The process dies and another is started.                                *)
Crash ==
  /\ calls.interruptions < MaxInterruptions
  /\ calls' = [started |-> {}, interruptions |-> calls.interruptions + 1]
  /\ jobs' = [j \in Jobs |-> NewJob]
  /\ service' = [array |-> {}, timer |-> FALSE, shutdown |-> "no"]
  /\ processor' = [exists |-> FALSE, running |-> FALSE, events |-> 0]
  /\ slots' = [k \in Slots |-> None]
  /\ thread' = [pc |-> "none", item |-> None, stop |-> FALSE]
  /\ main' = Idle
  /\ tracker' = OnDisk(tracker)
  /\ crashed' = [recent |-> crashed.recent \cup (FilesInHandler \ forgotten),
                 older |-> IF main.start = "tracker"
                             THEN crashed.older \cap tracker.blacklistFile
                             ELSE crashed.older]
  /\ forgotten' = {} /\ missed' = FALSE

-----------------------------------------------------------------------------
Results == {"ok", "bad"}

NotifyStep ==
  \/ \E k \in Slots : SlotBusy(k) \/ SlotCompletes(k) \/ SlotEmpty(k)
  \/ \E k \in Slots, j \in Jobs, f \in Files :
       SlotSkips(k, j, f) \/ SlotPrepareFails(k, j, f)
         \/ SlotTakes(k, j, f) \/ SlotRefused(k, j, f)
  \/ NotifyEnd

ObserveStep ==
  \/ \E j \in Jobs : OnJobProgress(j)
  \/ \E i \in main.items : CompleteItem(i)
  \/ JobProgressed
  \/ ObserveEnd

StopStep ==
  \/ \E k \in Slots : StopEmptySlot(k) \/ \E r \in Results : StopSlot(k, r)
  \/ StopThread

(* The main thread goes on with what it is inside of.                      *)
MainStep ==
  \/ \E f \in Files : WriteURL(f)
  \/ TrackerReady \/ StartThread \/ NotifyStep \/ ObserveStep \/ StopStep

ThreadStep ==
  \/ ThreadGoesOn \/ ThreadWaits \/ ThreadPuts \/ ThreadDrops
  \/ \E j \in Jobs, f \in Files : ThreadTakes(j, f) \/ ThreadSkips(j, f)
  \/ \E r \in Results : ThreadEnds(r)

HandlerStep == \E k \in Slots, r \in Results : HandlerCompletes(k, r)

Next ==
  \/ \E j \in Jobs : StartJob(j) \/ FirstJob(j) \/ Cancel(j)
  \/ MainStep \/ ThreadStep \/ HandlerStep
  \/ StartEvent \/ NotifyTimer \/ Observe \/ ShutdownEnd
  \/ Shutdown \/ Crash

Spec == Init /\ [][Next]_vars

(* Threads and handlers go on; the timers and the events of the main       *)
(* thread get their turn, whatever else it has to do.                      *)
FairSpec ==
  /\ Spec
  /\ WF_vars(MainStep) /\ WF_vars(ThreadStep) /\ WF_vars(HandlerStep)
  /\ SF_vars(StartEvent) /\ SF_vars(NotifyTimer) /\ SF_vars(Observe)
  /\ SF_vars(ShutdownEnd)

-----------------------------------------------------------------------------
Statuses == {"none", "running", "succeeded", "failed"}

JobRecord ==
  [status: Statuses,
   main: SUBSET Files, background: SUBSET Files,
   processed: SUBSET (Files \X Results), completed: Nat, total: Nat,
   errors: SUBSET Files, attempt: [Files -> Nat \ {0}], done: SUBSET Files,
   left: SUBSET Files]

ServiceType ==
  /\ service \in [array: SUBSET Jobs, timer: BOOLEAN,
                  shutdown: {"no", "stopping", "joining", "done"}]
  /\ calls \in [started: SUBSET Jobs, interruptions: Nat]
  /\ tracker \in Tracker
  /\ crashed \in [recent: SUBSET Files, older: SUBSET Files]
  /\ forgotten \subseteq Files

ProcessorRecord == [exists: BOOLEAN, running: BOOLEAN, events: Nat]

MainRecord ==
  [start: {"no", "tracker", "thread"}, observing: BOOLEAN, todo: SUBSET Jobs,
   job: Jobs \cup {None}, items: SUBSET (Files \X Results),
   notify: 0..(ActiveHandlers + 1), finished: BOOLEAN,
   stop: 0..(ActiveHandlers + 1)]

MainType ==
  /\ processor \in ProcessorRecord
  /\ slots \in [Slots -> Items \cup {None}]
  /\ main \in MainRecord

ThreadRecord ==
  [pc: {"none", "top", "ready", "waiting", "reading", "ended", "gone"},
   item: Items \cup {None}, stop: BOOLEAN]

ThreadType ==
  /\ thread \in ThreadRecord
  /\ missed \in BOOLEAN

(* Every variable of the service stays in range; the log never has more    *)
(* ends of a file than begins.                                             *)
TypeOK ==
  jobs \in [Jobs -> JobRecord] /\ ServiceType /\ MainType /\ ThreadType

(* The items of a job that are not waiting in a list of its own.           *)
Away(j) ==
  Cardinality({k \in Slots : slots[k] # None /\ slots[k].job = j})
  + (IF thread.item # None /\ thread.item.job = j THEN 1 ELSE 0)
  + (IF main.job = j THEN Cardinality(main.items) ELSE 0)

(* What a running job has still to count is exactly what is in its lists,  *)
(* in a handler, or being completed: no item is lost between the threads,  *)
(* and none is counted twice.  The exception are the items the background  *)
(* thread has dropped, which the job goes on to wait for.                  *)
EveryItemIsCounted ==
  \A j \in Jobs : jobs[j].status = "running" =>
    jobs[j].total - jobs[j].completed
      = Cardinality(jobs[j].main) + Cardinality(jobs[j].background)
        + Cardinality(jobs[j].processed) + Cardinality(jobs[j].left)
        + Away(j)

(* The service keeps the promise of a metadata job: its counters and lists *)
(* never end a job before every file is settled, never call an incomplete  *)
(* one a success, and let no file be done for a job that has ended.        *)
Promise == INSTANCE JobPromise WITH
  status <- [j \in Jobs |-> jobs[j].status],
  done <- [j \in Jobs |-> jobs[j].done],
  failed <- [j \in Jobs |-> jobs[j].errors]

PromiseKept == Promise!Spec

(* A file that was in a handler when the process died is never again in a  *)
(* handler.  Two kinds of files are left out: those that were in a handler *)
(* when the log was reset, and those of older deaths whose line was not    *)
(* written yet when the process died while it rewrote the blacklist.       *)
CrashersAreAvoided ==
  (crashed.recent \cup crashed.older) \cap FilesInHandler = {}

(* A running job ends, unless the background thread has dropped an item of *)
(* it, or the service is shut down or dies.                                *)
JobEnds ==
  \A j \in Jobs :
    []<>(jobs[j].status # "running" \/ jobs[j].left # {}
           \/ service.shutdown # "no")

(* A shutdown ends, unless the background thread tested mShouldShutdown    *)
(* before it was set and went to sleep after it had been notified.         *)
ShutdownEnds ==
  []<>(service.shutdown \in {"done", "no"}
         \/ (missed /\ thread.pc = "waiting"))

-----------------------------------------------------------------------------
(***************************************************************************)
(* The inductive invariant.                                                *)
(***************************************************************************)

(* The thread has an item just while it works on one, the tracker is there *)
(* or being made while there are jobs, and items are completed for a job.  *)
Attached ==
  /\ thread.pc \in {"reading", "ended"} <=> thread.item # None
  /\ thread.item # None /\ thread.pc = "ended"
       => thread.item.result \in Results
  /\ service.array # {} => tracker.ready \/ main.start = "tracker"
  /\ main.job = None => main.items = {}

(* Nothing runs before the tracker is ready.                               *)
Unready ==
  /\ ~tracker.ready /\ service.shutdown # "done" =>
       /\ thread.pc = "none" /\ thread.item = None
       /\ \A k \in Slots : slots[k] = None
       /\ ~processor.exists /\ ~processor.running /\ processor.events = 0
       /\ main.notify = 0 /\ main.start # "thread"
  /\ main.start = "tracker" => ~tracker.ready /\ service.shutdown = "no"

(* What the tracker knows is in its log, and it has no log when closed.    *)
LogAgrees ==
  /\ tracker.known \subseteq Suspects(tracker)
  /\ ~tracker.open => tracker.known = {}
  /\ ~tracker.ready => ~tracker.open

(* A file that is in a handler, and was not when the log was reset, is in  *)
(* the log: twice if it is in two handlers, unless one end is not logged.  *)
Logged ==
  \A p \in Places :
    At(p) # None /\ At(p).file \notin forgotten =>
      /\ At(p).file \in Suspects(tracker) \ tracker.blacklist
      /\ tracker.open
      /\ \A q \in Places \ {p} :
           At(q) # None /\ At(q).file = At(p).file
             /\ At(p).file \in tracker.known => tracker.log[At(p).file] >= 2

(* The files of deaths since the tracker was ready are in the log; older   *)
(* ones are on the blacklist, in memory or on the disk.                    *)
Remembered ==
  /\ IF tracker.ready THEN crashed.recent = {}
                      ELSE crashed.recent \subseteq Suspects(tracker)
  /\ main.start = "tracker" \/ tracker.ready =>
       crashed.recent \cup crashed.older \subseteq tracker.blacklist
  /\ main.start # "tracker" => crashed.older \subseteq tracker.blacklistFile

CrashInv ==
  TypeOK /\ Attached /\ Unready /\ LogAgrees /\ Logged /\ Remembered
    /\ CrashersAreAvoided

(* Where an item of job j can be, and the pieces of work that are left.    *)
Whereabouts ==
  {"main", "background", "ok", "bad", "slot", "thread", "left"} \X Places

IsAt(j, f, w) ==
  \/ w = <<"main", 0>> /\ f \in jobs[j].main
  \/ w = <<"background", 0>> /\ f \in jobs[j].background
  \/ \E r \in Results : /\ w = <<r, 0>>
                        /\ \/ <<f, r>> \in jobs[j].processed
                           \/ main.job = j /\ <<f, r>> \in main.items
  \/ \E k \in Slots : /\ w = <<"slot", k>> /\ slots[k] # None
                      /\ slots[k].job = j /\ slots[k].file = f
  \/ /\ w = <<"thread", 0>> /\ thread.item # None
     /\ thread.item.job = j /\ thread.item.file = f
  \/ w = <<"left", 0>> /\ f \in jobs[j].left

Pieces(j) == {x \in Files \X Whereabouts : IsAt(j, x[1], x[2])}

(* The pieces of a running job are what it has still to count; each file   *)
(* that is not settled has one, and no file has two.                       *)
Accounted(j) ==
  /\ jobs[j].total = jobs[j].completed + Cardinality(Pieces(j))
  /\ \A x, y \in Pieces(j) : x[1] = y[1] => x = y
  /\ \A x \in Pieces(j) : x[1] \in FilesOf[j] \ jobs[j].done
  /\ \A f \in FilesOf[j] \ (jobs[j].done \cup jobs[j].errors) :
       \E x \in Pieces(j) : x[1] = f
  /\ jobs[j].done \cup jobs[j].errors \subseteq FilesOf[j]
  /\ main.job = j => main.items \cap jobs[j].processed = {}

RunningAccounted == \A j \in Jobs : jobs[j].status = "running" => Accounted(j)

(* A job of this session keeps its outcome, and nobody works for a job     *)
(* that has not been started.                                              *)
Settled ==
  /\ \A j \in Jobs : jobs[j].status \in {"succeeded", "failed"} =>
       Progressed(jobs[j]).status = jobs[j].status
  /\ \A j \in Jobs : jobs[j].status = "succeeded" =>
       jobs[j].completed = jobs[j].total
  /\ \A j \in service.array \cup main.todo \cup ({main.job} \ {None}) :
       jobs[j].status # "none"
  /\ \A j \in Jobs \ calls.started : jobs[j].status = "none"
  /\ \A k \in Slots : slots[k] # None => jobs[slots[k].job].status # "none"
  /\ thread.item # None => jobs[thread.item.job].status # "none"

IInv == CrashInv /\ RunningAccounted /\ Settled

=============================================================================
