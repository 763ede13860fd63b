# Nightingale: TLA+ models of devices, the database engine and metadata jobs

Nightingale is a media player built on Mozilla's XPCOM: C++ components with
their own threads and locks, and JavaScript above them. This directory holds
TLA+ modules translated from that source, TLC configurations that check them on
small instances, and proofs for TLAPS. Paths below are relative to the
repository; `RTQ` stands for
`components/devices/device/src/sbRequestThreadQueue`.

To check a configuration, run TLC on the module of the run with its `.cfg`
(`tlc -config rtq_safety.cfg MCRequestThreadQueue.tla`); to check the proofs,
`tlapm` on the modules whose names end in `Proofs`. `PROJECT.json` maps each definition to the
lines it stands for and lists the runs, their mutants, the hazards and the
theorems.

## 1. Inventory

### 1.1 What has its own state and its own concurrency

| component | state | operations | interacts with | what is hard | what makes it correct |
|---|---|---|---|---|---|
| **Request thread queue** (`RTQ.cpp/.h`) | queue of requests, batch depth and id, abort, handling and stop flags, a thread and its events | Start, Stop, PushRequest, BatchBegin/End, ClearRequests, CancelRequests, CheckAndResetRequestAbort, the event that pops and processes batches, the shutdown action | every device; callers on any thread; the main thread joins | five locks and an event queue; two critical sections in what looks like one call; an event nested in another; shutdown by a message to oneself | each request has one owner and keeps its place; an abort hits what was queued before it and ends; every accepted request is settled; the thread ends and leaves nothing behind |
| **Request batch** (`RTQ::Batch`) | items, count of countable items, type, index in each item | push_back, erase, clear | ProcessBatch of each device; progress and operation events | renumbering; reuse across batches | count and indexes agree with the items |
| **Library listeners and duplicate check** (`sbLibraryListenerHelpers.cpp`, `sbDeviceRequestThreadQueue.cpp`) | which items are ignored; the queue | OnItemAdded/Removed/Updated/Moved/Cleared, IsDuplicateRequest | library and lists; request thread | folding a request into an earlier one changes their order; items that come and go while requests wait | once the queue is empty the device equals its library |
| **CD device** (`components/devices/cd`) | device state, cached transcode profile, current job | ProcessBatch, ReqHandleRead, CancelRequests, mount, eject, lookup | request thread, transcode job on the main thread, user | the abort flag is read by two threads; status and state set one after the other; wait without timeout | a cancelled or disconnected device rips nothing more; it is never idle while it rips; every track is begun or dropped and a Run ends |
| **Device status, transcode progress, base device** | operation, status, state | ChangeState, SetState, OperationStart/Complete, OnJobProgress | the devices | as above | start and end events come in pairs |
| **iPod device** (`extensions/ipod`) | the iPod's database | handlers of requests, ProcessBatch | libgpod, request thread | batch loop with several error and abort exits; playlists changed by index | as for the duplicate check |
| **Device manager, controllers, marshalls** | registries | register, connect, disconnect | devices | connection and removal during start-up and shutdown | a device is registered once and released once |
| **Database engine** (`components/dbengine`) | a queue, thread flag and handle per database; executing flag and result per query | submit, execute, wait, callbacks, shutdown | everything that stores | synchronous waiters, shutdown, flags set after a push | each query runs once; a waiter is woken |
| **Local database library** (`components/library/localdatabase`) | lists, views, GUID arrays, property cache | add, remove, batch mode, views | database engine, listeners | write-behind cache, nested batches, listeners called in the middle of a change | a view shows the list; a flush loses nothing |
| **Metadata jobs** (`components/mediacore/metadata`) | items waiting, handed out, processed, completed; crash log | start, take, put back, complete, cancel | background thread, main thread | hand-over between two threads, crash tracking | each item is completed once and the job ends |
| **Watch folder, file system events** | sets of changed paths, timers, state of the service | events, timers, batches | import, library | timers against events; rename as removal and addition | no event is lost, none handled twice |
| **Play queue, sequencer, playback** | position, sequence, list | queue, remove, next, stop | library lists, media cores | a list that follows itself; re-entrant listeners | the position is the item that plays |
| **Transcode manager, media import and export, jobs, album art, download queue** | job state | start, progress, cancel | timers and callbacks on one thread | chains of callbacks | each job ends once |

### 1.2 What is left aside

Properties, search and SQL building are text transformation; the remote API
wraps the library in permission checks; the GStreamer core is glue over a
library that is not in the repository; the user interface, its bindings, web
services and the other extensions are event handlers over preferences and
windows. Build files, installers, locales, dependencies and the test harness are
not part of the running program. `PROJECT.json` lists them all.

## 2. Plan

The device layer came first: its queue is where callers on any thread, a thread
of its own and the main thread meet, and every device stands on it. Then the two
other places where threads hand work to each other: the database engine, which
everything that is stored goes through, and the metadata service, which also has
to survive the death of the process.

| module | models | state |
|---|---|---|
| `RequestBatch`, `BatchOperations` | a batch as a data type; all sequences of its operations | done |
| `RequestThreadQueue` | the queue, its thread, its callers, start and stop | done |
| `RequestThreadQueueProofs` | inductive invariants, all eleven safety properties of the queue | done |
| `CDRip` | ripping: request thread, job, canceller, status; uses `RequestBatch` | done |
| `DeviceSync` | library edits, listener requests, duplicate check, device | done |
| `QueryProcessor` | database engine and query: submit, process, wait, abort, close, shut down | done |
| `QueryProcessorProofs` | inductive invariant, six consequences | done |
| `CrashTracker` | the log and the blacklist of the metadata service, as operations on a record | done |
| `JobPromise` | what a metadata job promises, the abstract specification | done |
| `MetadataService` | jobs, both processors, the timers, cancel, shutdown, death of the process; uses `CrashTracker`, implements `JobPromise` | done |
| `MetadataCrashProofs`, `MetadataServiceProofs` | inductive invariant, type, crashes, accounts, and the refinement | done |
| `BatchOperationsProofs` | the numbering of a batch after any pushes and erases | done |
| `CDRipProofs` | a ripping device is not idle, a stop is final, a batch is reported | done |
| `DeviceSyncProofs` | inductive invariant; tracks, playlists and edits follow | done |
| `SequenceLemmas` | induction, recursion and listing of sets, for the proofs above | done |
| `IPodBatch` | ProcessBatch of the iPod with its groups, aborts and flush | open |
| `WatchFolder` | path sets, timers, moves and renames | open |
| `PlayQueue` | position against edits of the list and events of the sequencer | open |

What would come next: `IPodBatch`, for the batch loop that leaves only one of
its groups on an abort; then `PlayQueue`. Every invariant that a run checks
and finds to hold is a theorem now (section 5); what a new module will want
proved first is its own inductive invariant.

## 3. The modules and the code

### 3.1 RequestThreadQueue

Variables carry the names of the members (`queue` is `mRequestQueue`,
`abortRequests` is `mAbortRequests`, and so on). A stretch of code under `mLock`
and `mStopWaitMonitor` is one action; what runs outside is a step of its own:

- `PushAccepted` appends under the locks, `PushNotify` reads `mBatchDepth`
  again afterwards and dispatches an event or not (`RTQ.cpp:474-481`);
- `CancelRequests` and `ClearRequests` take the queue under the locks, and
  `CallerCleanupBatch` cleans the requests up after;
- `Stop` is five steps: `StopBegin`, `StopFlag`, then the push, which the code
  makes **without** `mLock` (`RTQ.cpp:356`), as `StopPushRead` and
  `StopPushWrite`, and `StopDispatch`;
- `sbRTQAddedEvent::Run` is `StartRequests` (or an immediate return when a Run
  is under way: `NestedEvent` if an API spins the event loop in between), and
  then a loop of `PopBatch`/`PopNothing`, `ThreadStop`/`AbortBatch`/
  `BeginBatch`, `ProcessItem`..., `CleanupBatch`, ended by `CompleteRequests`;
- the main thread runs `ThreadShutdownAction`; `nsIThread::Shutdown` (external)
  lets the thread run the events it has, and `ThreadExit` ends it.

Choices: `Start` is one step, as its comment says it is not called while the
thread runs or from several threads. Callers use the queue from the first
Start's return on. The duplicate check of `PushRequestInternal` is in
`DeviceSync`; here requests are distinct and no push finds a duplicate. A batch
is its sequence of items: countable requests are never system ones, so the type
of a batch is that of its first item. `IsRequestAborted` is also true for a
disconnected device; that only adds aborts and is covered by a failing
ProcessBatch. **The torn push.** A data race has no defined outcome; the
build's `std::deque` keeps begin and end as separate members, so a push that
races with pops that leave something behind is still a push, and one that races
with emptying the deque (which moves the end as well) may win or lose the store:
both take effect, the stop request is lost, or the entries taken off are there
again. `torn` remembers that it happened; properties that a torn push breaks
say so (`SingleOwnerUnlessTorn`).

### 3.2 RequestBatch and BatchOperations

`RequestBatch` has no state: a batch is a record and `PushBack`, `EraseAt`,
`Clear`, `Refill` are the class's operations. The index of a request lives in the
request and outlasts the batch. `BatchOperations` applies pushes and erases in
any order. `Clear` leaves `count` alone, as the code does; a batch that is
cleared and filled again, as Run's is, counts on from there. `BatchOperations`
therefore checks a batch from its construction on, and `CDRip`, which uses
`Refill`, meets the consequence (3.3). `insert` (a bare list insertion "for
copying") and `sort` (it cannot be instantiated on a list) have no callers.

### 3.3 CDRip

The queue is reduced to what the first module establishes: batches, an abort
flag and a handling flag. The request thread goes through `ProcessBatch`
(`AbortLoop`, `NextTrack`, `EndLoop`) and `ReqHandleRead` (`StartRead`,
`FailRead` for its early returns, `FinishRead`); the job is observed by
`OnJobProgress` on the main thread (`JobAborted`, `JobEnds`), which consumes the
abort flag there. `ChangeState` writes the status, and `FinishChangeState` is the
`SetState` that follows, so that a canceller's steps (`CancelBegin`,
`CancelSetState`, `CancelSetStatus`, `CancelQueue`) come in between. `NextTrack`
makes the last look at the abort flags and the call of the handler one step.

### 3.4 DeviceSync

The user edits the library; each operation pushes the requests of its listener,
in the order the listeners are called, and `Pushed` folds them into queued ones
(`Duplicates` is FindDuplicateRequest, `IsDupe` and `KeepLooking` are DupeCheck,
`Merged` is what IsDuplicateRequest makes of the queued request). The device
takes one request at a time, in the order of the queue. That is not quite what
every device does with a batch: the iPod's ProcessBatch splits it first
(`SBWriteRequestSplitBatches`, `sbBaseDevice.cpp:6615-6659`) and processes the
requests about playlists last, which is not modelled. `TracksFollow` and
`EditsFollow`, which are also checked for the iPod, do not depend on that order,
and what `sync_ipod` shows happens in the folding, before any batch is split.
`kind` tells a device that makes a playlist anew on any modification, which is
what the duplicate check is written for, from the iPod, whose handlers are in
the repository. `PushedAll` (a listener's requests, one after the other) and
`Kept` (the tracks of a playlist that are in a set) are recursive functions
rather than folds, and so is `Refill` of `RequestBatch`, so that proofs can
reason about them; `MCDeviceSync` has TLC compare `Kept` with the filter of the
standard modules.

### 3.5 QueryProcessor

One database; each `QueryProcessorQueue` it gets when it is opened again is an
element of `Queues`. `queue`, `running` and `shutdown` are the members of a
queue, `executing`, `completed` and `aborting` those of a query, `events` is
what has been dispatched to the thread pool. A client executes its query in the
steps the locks make of it: `Execute` (the reset of `m_QueryHasCompleted` under
the query's running monitor, `DatabaseQuery.cpp:411-414`), `Submit` (the checks
of `SubmitQuery`, `DatabaseEngine.cpp:1586-1594`), `Lookup` or `Open`
(`GetQueueByQuery`), `Push` (`PushQueryToQueue`), `Mark` (`m_IsExecuting`, set
only after the push, `DatabaseEngine.cpp:1605`), `RunQueue`; a synchronous one
goes on with `WaitForCompletion`. The client of an asynchronous query may wait
for it, poll it, abort it or, while it is still queued or served, execute it
once more (`ExecuteAgain`), which succeeds without submitting anything when the
query is marked ("0 if successful OR already running",
`DatabaseQuery.cpp:416-418`). A pool thread is in `QueryProcessor`: `Take`, and
then `Pick`, `Enter`, `Statement`..., `Complete` for each query until `Pick`
finds the queue empty or shut down. The main thread closes the database or shuts
the engine down: `PrepareForShutdown`, `ClearQueue`, `CloseDB`, the pool.
`served`, `overtaken` and `lost` are history, and only properties and the
history itself read them: a query is `served` when it was completed between the
reset and the submission, or between the push and the mark; `overtaken` when it
was submitted although it had been completed since the reset; and `lost` once it
has been marked after its completion, put on a queue that is shut down, released
by `ClearQueue`, or left on a queue that could not be dispatched; nobody will
complete it any more.

What a statement does, and with it SQLite, is one step. A query object is used
by one thread.

### 3.6 CrashTracker, MetadataService and JobPromise

`CrashTracker` has no state: a tracker is a record with the members of
`sbMetadataCrashTracker` and its two files, and `LogURLBegin`, `LogURLEnd`,
`ResetLog` are its methods. `Init` takes as many steps as it writes to the disk:
`ReadTracker` reads both files and truncates the blacklist if the log names a
suspect, `WriteBlacklistURL` writes one line of it, `LogProcessed` removes the
log (`sbMetadataCrashTracker.cpp:393`, `:498-518`). Log entries carry numbers;
the class remembers, for each URL, the number it gave last, so that a URL that
is begun twice loses the number of its first begin. `log` counts the begins of a
file that no end matches, and `known` is the set of keys of the map.

`MetadataService` has the jobs as records (`main`, `background` and `processed`
are the three lists of a job, `completed` and `total` its counters, `done`,
`errors` the outcome by file) and the service, its processors and the tracker as
one variable each. The main thread is one thread: `main` says what it is inside
of, and each step either begins something in the event loop (`StartJob`,
`NotifyTimer`, `Observe`, `StartEvent`, `Cancel`, `Shutdown`, `ShutdownEnd`) or
goes on with it. A job may also be started by a listener that OnJobProgress
calls (`InListener`). The first job of a session makes the tracker (`FirstJob`,
`WriteURL`, `TrackerReady`) before its processors start. `Notify` of the main
processor goes through its slots (`Slot...`, `NotifyEnd`), and is left early by
an item that cannot be prepared (`SlotPrepareFails`,
`sbMetadataJob.cpp:562-573`); it may be called from inside a completion, when a
retry starts a processor that has stopped. The notification timer steals the
processed list (`OnJobProgress`), completes the items one by one
(`CompleteItem`) and ends the job (`JobProgressed`). The background thread takes
an item (`ThreadTakes`), works, logs the end (`ThreadEnds`) and puts it on the
processed list (`ThreadPuts`), and sleeps (`ThreadWaits`). On an error of its
own it goes on to the next item without giving this one back (`ThreadDrops`,
`sbBackgroundThreadMetadataProcessor.cpp:188-244`): the job has it `left` over
and never counts it. `Crash` is the death of the process at any moment, also
between two writes of the tracker's `Init`, and the start of another: of the
state only the tracker's files survive. `PutOnMain` is `PutProcessedItem` with
`HandleProcessedItem`, its retry with the next handler, and the restart of the
processors, as every caller reaches it.

`JobPromise` is what the user of a job is told: a job runs, files are done or
fail, it ends when each is one or the other, succeeds when all are done and none
failed, may be cancelled, and does nothing after its end. `MetadataService`
implements it with the status, the done files and the errors of each job
(`PromiseKept`); none of the lists, counters and threads are visible there.

Choices: no job is started once the shutdown has begun. The code would accept
one until the thread is joined, `mInitialized` being still set, and would make
it processors next to those that are being shut down; what becomes of such a job
is excluded from `JobEnds` in any case. `ShutdownEnd` waits for the events in
front of it, since the end of the thread is an event behind those already
posted. Which job gives the next item, and the order within a list, are open. A
`PrepareWriteItem` that fails on the background thread is left out: it fails
when a handler's SetProps does, and those of the handlers that run there (Taglib
and WMA) accept anything. Blocked items (files that are playing), the properties
and the album art written are left out.

## 4. The runs

| run | expects | what it shows |
|---|---|---|
| `rtq_safety` | pass | Two callers, two requests (one countable), two starts, a stop, a batch, a cancel, failures and nested events: type, one owner, order, abort and stop invariants. |
| `rtq_nested` | pass | Two countable requests, two batches, a clear, nested events, no stop: an open batch stays whole and the depth in balance, every request is announced (`NoStrandedRequest`) and settled (`AcceptedIsSettled`). |
| `rtq_live` | pass | A cancel and a stop at any moment: requests are settled, the abort ends, the thread is joined. |
| `rtq_stop_lost` | violation | `StopEndsThread`: the stop request joins the batch of a countable request in front of it and is dropped with it. |
| `batch_ops` | pass | Five requests of four types pushed and erased in every order: the numbering, which is the count and the indexes, and the type. |
| `cd_rip` | pass | Three tracks, two cancels, a disconnect: reports, stop, device state, every track is begun or dropped, and the Run ends. |
| `cd_cancel_ignored` | violation | `CancelStopsRip`: a cancel during a rip aborts the track at hand only. |
| `sync_follow` | pass | Two tracks, a playlist, two properties, six edits, one batch, both kinds of device: tracks, playlists and properties follow. |
| `sync_ipod` | violation | `PlaylistsFollow` on the iPod: changes folded into a playlist's creation are lost. |
| `query_run` | pass | A synchronous and an asynchronous query, two pool threads, the database closed once and the engine shut down, the asynchronous query executed again while it is queued or served: one processor, no stranded query, one holder of a query, nobody left waiting, fresh answers. |
| `query_stale_mark` | violation | `CompletedNotExecuting`, the assertion on the way out of `WaitForCompletion`: a pool thread completes the query between its push and its mark, and the mark stays. |
| `metadata_jobs` | pass | A reading job for a file with two handlers and one with none, a writing job for the first, two slots, two interruptions (cancel, shutdown or death of the process): every item is counted, the promise is kept, files that kill the process are avoided, jobs end, a shutdown ends. |

**Bounds.** The queue's hazards need two callers (one in a batch while another
pushes), one countable and one other request (what PopBatch tells apart), one
cancel and one stop (each resets what the other relies on), and two starts (what
survives a thread). `rtq_nested` has a countable request and a batch for each
caller, so that batches overlap. A rip needs three tracks: one in progress, one
waiting in the batch, one in a second batch of the same Run; two cancels, since
the second finds the abort of the first pending. A client may execute its query
once more whenever it is idle, and the asynchronous one at any moment of the
execution before, whether the query is queued, in a worker's hands or completed
in the middle of the call; the second query, a synchronous one, competes for the
queue, the two pool threads and the monitors. One statement tells a query that
has been worked on from one that has not, and the database is opened twice to
have a queue that is thrown away next to its successor. Two jobs on one file put
that file into two handlers at once; its two handlers make it travel from the
background thread to the main thread; the file without a handler fails at once;
two slots let one be given back while the other is busy, and two interruptions
let a process die after a cancel or in the middle of a shutdown, and twice, the
second time while the blacklist is rewritten. No job of the run has two items
for the background thread, so that the last items of a job are never flushed
there while the thread holds another item of the same job; and a line that is
lost in the rewriting takes three deaths. The theorems of section 5 include
both. Six edits are an item made, changed, put into a list, taken out, deleted,
with one to spare. Requests are symmetric in nothing but their type, callers in
everything: `rtq_safety` uses that symmetry, the runs with liveness do not.

**Deadlock.** A system at rest (nothing to push, the thread asleep or joined)
is a legitimate final state of every model but `BatchOperations`, which can
always erase or push; the others turn the check off, and what has to happen is
said by liveness properties.

**Fairness.** Weak fairness of the request thread's own steps, of the main
thread, of a call once begun (push, cancel, Stop) and of BatchEnd: runnable
threads run, calls return, and BatchBegin and BatchEnd are called from OnBatchBegin
and OnBatchEnd of the library and list listeners
(`sbLibraryListenerHelpers.cpp:230`, `:238`, `:822`, `:831`), which a library's
batch mode always pairs. There is no fairness on anybody *making* a
call, on failing, or on noticing an abort between two items, so nothing depends on
these. In `CDRip` the transcode job keeps reporting until it ends; its timer is
GStreamer's. In `QueryProcessor` clients go on with a call they have begun,
pool threads and the closing main thread go on; nobody has to execute, abort or
close. In `MetadataService` the main thread goes on with what it is inside of, the
background thread and handlers go on (a handler that hangs blocks the original,
too), and timers and posted events have strong fairness: they are enabled only
while the main thread is in its event loop, which serves them in turn.

**Conditions in properties.** Some promises hold only until a call the code does
not guard against; the property then says so and the exception is described here:

- `SingleOwnerUnlessTorn`, `NoOvertaking`, `AbortLeavesNothingQueued`,
  `NoStrandedRequest`: not after a torn push of Stop. The header says of `mLock`
  "This lock needs to be acquired before changing any data member".
- `NoStrandedRequest` is checked and proved only where no failure, cancel or
  stop ends a Run. A Run that is cut short leaves the batches behind it queued
  (`RTQ.cpp:747`), while nested events may have used up the events that
  announced them; with any one of the three allowed TLC finds requests that wait
  for the next push.
- `StartedBeforeProcessing`, `OpenBatchIsWhole`: a cancel or a clear takes
  *every* entry off the queue, a start request (so OnThreadStart never runs on
  the new thread) or half of an open batch included.
- `DepthInBalance`: a cancel sets the depth to 0 inside other callers' batches
  (`RTQ.cpp:601`), whose BatchEnd then fails the assertion at `RTQ.cpp:246`.
- `StopEndsThreadUnlessDropped`: see `rtq_stop_lost`.
- `RunEnds`: the device is idle after a Run unless it is stopped or a cancel is
  under way. The cancel may have seen the Run and set the state after the Run's
  end (`sbBaseDevice.cpp:2316`); the device then shows a cancel, with nothing to
  cancel, until the end of the next Run.
- `BatchReported`: for the first batch of a Run; a later one has indexes that do
  not start from 0 (3.2), and neither READ_START nor READ_END is sent for it,
  although `sbDeviceStatusHelper.cpp:119` starts an operation "if this is the
  start of a batch".
- `BusyWhileRipping`: until the first cancel. `sbBaseDevice::CancelRequests`
  asks whether requests are handled and sets the state afterwards
  (`sbBaseDevice.cpp:2316`); a rip that starts in between is shown as idle.
- `TracksFollow`: but for a track removed while its transfer was pending, which
  is transferred all the same.
- `NoWaiterForgotten`, `WaiterReturns`: but for `lost` queries (3.5). A client
  of such a query sleeps in `WaitForCompletion` for good: `ClearQueue` releases
  the queries of a closed database (`DatabaseEngine.h:327`) and completes none.
- `AnswerIsFresh`: but for `overtaken` queries. When a query is executed while
  an earlier execution of it is under way, that one may complete between the
  reset and the look at `m_IsExecuting`; the query is then submitted with
  `m_QueryHasCompleted` set, and its client takes the end of the earlier
  execution for the end of the new one, which runs while the results are read.
- `EveryItemIsCounted`, `JobEnds`: an item the background thread has dropped
  (`ThreadDrops`) is never counted, and its job runs for good.
- `CrashersAreAvoided`: but for two kinds of files. When the process dies while
  it rewrites the blacklist, files of deaths before the last whose line is not
  there yet are named nowhere: the file has been truncated
  (`sbMetadataCrashTracker.cpp:498`) and the log has only the last session's
  files. And files that were in a handler when the log was reset (`forgotten`).
  The service resets it when no job runs any more
  (`sbFileMetadataService.cpp:673`), and a job that has been cancelled does not
  run although an item of it may still be with the background thread; if that
  one kills the process it will be read again. The tracker's header wants to
  "avoid processing files that may have caused the app to crash in the past", as
  the service "could otherwise repeatedly crash trying to read/write the same
  file" (`sbMetadataCrashTracker.h:56-60`).
- `ShutdownEnds`: unless the notification was `missed`. The thread tests
  `mShouldShutdown` outside its monitor
  (`sbBackgroundThreadMetadataProcessor.cpp:151`); when `Stop` sets the flag and
  notifies between that test and the wait, the thread sleeps, and the main
  thread joins it forever. The comment at `:156` gives the lock as the reason
  why a notification of *Start* cannot be missed; nothing does for `Stop`.
- `JobEnds`: unless the service is shut down or the process dies, too.
- `RecreatedPlaylistsFollow`, `EditsFollow`: the iPod's playlists are left out,
  see `sync_ipod`.

Other places where code and comment part, met on the way: DupeCheck says "Stop,
but not a dupe" and returns true, which continues
(`sbDeviceRequestThreadQueue.cpp:221`, against `:124-130`); the comment in the
queue's constructor gives requests outside a batch the id 0, and they get the
current one (`RTQ.cpp:195-197`); "a batch may contain only one type of countable
request" (`RTQ.h:73`) is enforced nowhere; CheckAndResetRequestAbort "MUST only be
called from the request processing thread" (`RTQ.h:293`) and is called by the
progress listener on the main thread, which is why a cancelled rip goes on. The
interface of a query says that "call execute again" reissues its last queries,
and `PopQuery` has consumed them; it says that `waitForCompletion` returns at once
"if the query is not executing", and on a query that was never executed it sleeps.

**Mutants.** Each property of a passing run has a mutant in `PROJECT.json`: an
operator next to the one it changes (marked "Mutant of") that a plausible slip
would turn it into, under which TLC finds the property violated.

## 5. What is proved

All of it for any values of the constants that satisfy the modules' assumptions:
any number of callers, requests, queries, threads, jobs, files and slots.

`RequestThreadQueueProofs`:

| theorem | says |
|---|---|
| `Invariance` | `Spec => []IInv` |
| `TypeCorrect` | every variable stays in its range |
| `AbortContained` | a pending abort belongs to a Run in progress |
| `AbortFresh` | while an abort is pending nothing a caller pushed is queued (unless torn) |
| `StopOrder` | nothing is accepted behind the stop request |
| `EmptyAtEnd` | a thread is joined only when its queue is empty |

The argument: `StopIsLast` is not inductive, since nothing in it keeps a second stop
request, or a push after the flag, away. `StopPhases` says where a stop request
can be in each phase: none before Stop pushes it; from then on `stopProcessing` is
set, so pushes are rejected and it stays last; when it is popped it is the last
entry, so the queue is empty, and it stays so until the next Start, which needs a
joined thread. The proof has one lemma per action and, in it, one step per
conjunct of `IInv` that the action can disturb; five lemmas on sequences are cited
throughout. It rests on `ItemAssumption`, `SwitchAssumption` and
`BoundAssumption` only.

The second part of `RequestThreadQueueProofs` says what becomes of a request:

| theorem | says |
|---|---|
| `OpenBatchWhole` | an open batch is all still queued, until a cancel or a clear |
| `DepthBalanced` | a BatchEnd finds a depth above 0, until a cancel |
| `StartedFirst` | nothing is processed before OnThreadStart, until a cancel or a clear |
| `OneOwner` | every accepted request is in one place or settled (unless torn) |
| `InTurn` | requests are processed in the order they were accepted in (unless torn) |
| `NoneStranded` | if no failure, cancel or stop ends a Run, queued requests are announced |

The argument is five invariants, each inductive given `IInv` and those before it.
`BatchInv`: the depth is the number of callers with an open batch
(`DepthCounts`), so it is not 0 while one is open, and then nothing pops.
`LifeInv` and `ReadyInv`: until the start request has been popped it is in front
of the queue. `OwnerInv`: queue, batch and the callers' clean-ups have nothing in
common and hold nothing twice (`HeldOnce`), and an accepted request that is in
none of them is settled (`AcceptedIsOwned`); what a pop takes off the front and
what it leaves are two parts of one sequence without repetition. `OrderInv`: the
batch before the queue is in the order of acceptance, and all of it is behind
what has been processed. `NoticeInv`: a queued request at depth 0 has an event, a
Run that will look at the queue again, or a caller between its push and its
dispatch. A Run leaves its loop by finding nothing it may pop, which is why
a failure, an abort or a stop has to be excluded (see *Conditions*).

`QueryProcessorProofs`:

| theorem | says |
|---|---|
| `Invariance` | `Spec => []IInv` |
| `TypeCorrect` | every variable stays in its range |
| `OneProcessor` | at most one thread works for a queue or has been asked to |
| `NothingStranded` | a queue with queries has a thread or a client about to ask for one |
| `NeverTwice` | a query is in one place, once, also when it is executed again while it is queued or served |
| `WaitersKnown` | a waiting client's query is somewhere, or lost |
| `FreshAnswers` | nothing of a completed query is queued or served any more (unless overtaken) |

The argument: `RunningIsWorked` ties `m_Running` to the dispatched event or the
thread that stands for it, which gives the single processor, and, with the
client between its push and its `RunQueue`, that no query is stranded.
`PlacedIsMarked` is why a query is not pushed twice: whoever is on a queue or in
a thread's hands is marked as executing, or its client is just about to mark it;
and a client gets past `Submit`, to the push, only with a query that is not
marked, which nobody else marks. `CompletedIsServed` says how a query may be
completed before it is pushed, only by a worker since the reset, which is what
`overtaken` remembers and what `FreshAnswers` needs. `MarkedIsPlaced` is the
converse, and what a waiter relies on; the late mark is where it needs `lost`.

`MetadataCrashProofs`, and `MetadataServiceProofs` on top of it:

| theorem | says |
|---|---|
| `TypeCorrect` | every variable stays in its range |
| `CrashersStayAvoided` | a file that was in a handler when the process died is never in one again, also when it died while it rewrote the blacklist (but for the two exceptions) |
| `Invariance` | `Spec => []IInv` |
| `EveryItemCounted` | what a running job has still to count is in its lists, slots, on the thread or being completed, or was dropped by the thread |
| `Implementation` | `Spec => PromiseKept`: the service implements `JobPromise` |

The argument, first part (`CrashInv`): `Logged` says that a file that is in a
handler is in the log, twice if it is in two handlers, unless one of the two
ends will not be logged, since the map has one entry for both; so the log cannot
lose it before the handler has ended. `Remembered` says where the files of
earlier crashes are: those since a tracker was last ready in the log, until that
is removed; all of them in the blacklist from the moment the log has been read,
hence while it is rewritten; and the older ones on the disk's blacklist except
while it is rewritten. `Unready` says that no item is taken without a tracker.
Second part: `Accounted` says that the pieces of work left of a job, as pairs of
a file and a place, are as many as it has still to count, that no file has two,
and that each unsettled file has one. Every action moves a piece
(`AccountMoves`), settles one (`AccountSettles`) or leaves them (`AccountKept`),
whichever threads the places belong to. Third part: when `completed` meets
`total` no piece is left, so every file is done or in the errors, which is what
ending the job means in the promise (`OutcomeIs`); a step that settles a file is
one of the promise because the file of a piece is not done yet. The sum in
`EveryItemIsCounted` follows from counting the pieces list by list
(`PiecesCounted`). All rest on `MetadataAssumption` only.

`BatchOperationsProofs`: `TypeCorrect`, `NumberingExact`, `TypeKnown`. The
numbering is inductive with `Distinct`, since two entries of one request would
share its one index. `Amount` counts the countable requests of a stretch; a few
lemmas say how it splits and that removing an item lowers it by one behind that
item only, which is what the renumbering loop of `erase` does. It rests on
`RequestAssumption`.

`CDRipProofs`:

| theorem | says |
|---|---|
| `Invariance`, `RipInvariance` | `Spec => []IInv`, `Spec => []RipInv` |
| `TypeCorrect` | every variable stays in its range |
| `NeverIdleWhileRipping` | a device is not idle while it transcodes, until a cancel |
| `StopHolds` | a track that waited when the device was stopped is not ripped |
| `RipReported` | a first batch that nobody aborts is reported as a whole |

The argument, first part (`IInv`), does not look into batches: `JobIsRead` and
`Shown` relate what two threads write: the state of the device is the status, or
the request thread is just about to make it so, until a cancel; and a track read
is shown as a transcode. `StopIsFinal` adds that nothing counts as dropped before
the stop. Second part (`RipInv`): the status events are sent by looking at the
index of a track in its batch, so `BatchReported` needs the numbering of a refilled
batch (`Refilled`: the requests in their order, with indexes that go on from the
count the batch had, by induction along `Refill`); `Numbered` keeps it while the
batch is ripped, and `Progress` says which events have been sent when the tracks
before `next` are done. It holds whichever tracks fail, since the object that
brackets a read is destroyed on each early return of `ReqHandleRead` as well.
`BoundAssumption` asks for a finite set of tracks: a disc has finitely many, and
there would be no list of all of them otherwise.

`DeviceSyncProofs`:

| theorem | says |
|---|---|
| `Invariance` | `Spec => []SyncInv` |
| `TypeCorrect` | playlists hold tracks of the library, requests are about what there is |
| `LibraryReached` | a device with nothing left to do holds the tracks of the library |
| `PlaylistsReached` | one that recreates playlists has the playlists, in their order |
| `EditsReached` | it has been given every property that was edited |

The argument: what the theorems say of an empty queue follows from what `SyncInv`
says of any queue, which is where everything the device does not have yet will
come from. `Following`: a track is hidden exactly while a transfer of it is queued,
a track of the library that is not hidden is on the device, and one that has been
removed is not, or its deletion is queued. `ListFollows`: a playlist is on the
device as it is in the library, or a request that makes the device take it anew is
queued; `RefreshedAfter`: that request is behind the transfer of every track the
playlist holds, or the device would take the playlist without it. `ListGoes`: a
playlist that was removed is not there, or its deletion is queued, behind whatever
would still make it. `EditsFollowing` does the same for properties.

The requests of an operation are folded into queued ones, so the proof does not
speak of requests but of what they do (`Does`: transfer, delete, update, make or
change) and to what (`Changed`). `DupeDoes` and `MergedAlike` show that DupeCheck
finds a duplicate only where the queued request does the same to the same thing
(or makes the playlist that is to be changed, or is to delete or transfer what is
to be updated), and that what it is merged into still does, with the properties of
both; `PushedAllGrows` says the same of all the requests of one operation. This is
all that most operations need. Two rest on where the search stops: the request that
adds a track to a playlist never ends up before a transfer (`AddedAfterTransfers`:
the search stops at a WRITE of a track), and the first deletion of anything goes
to the end of the queue (`DeleteAppended`), whatever was merged before. The proof
rests on `ConstantAssumption` only.

`SequenceLemmas` has what these two need of numbers and sequences. The provers
cannot instantiate a theorem about every predicate, so induction is stated for the
set of the numbers for which a claim holds (`SetInduction`, `BoundedInduction`) and
recursion for a sequence of step functions (`Iteration`); both are proved there
from the theorems on finite sets, without the library's induction theorems.

**Model-checked only**: the liveness properties (`AcceptedIsSettled`, `AbortEnds`,
`StopEndsThreadUnlessDropped`, `RunEnds`, `WaiterReturns`, `JobEnds`,
`ShutdownEnds`). Liveness under fairness and ENABLED are beyond the prover.

## 6. Not modelled

Of the components modelled: the ignore lists of the listeners and the removal of
items whose transfer failed; mounting, lookup and eject of a CD; space checks,
capabilities and preferences of a device; libgpod and the flush of the iPod's
database; statements, results, handles and the memory limits of the database
engine; blocked items, properties and album art of metadata jobs, and the order in
which locks are taken. Of the rest, playback, the local library, the play queue,
the watch folders, import and the download queue have state of their own and are
not modelled: they work through listeners and timers on the main thread, over a
library whose behaviour (views, lists, batches of notifications) would have to be
modelled first. The notes in `PROJECT.json` say the same component by component.
