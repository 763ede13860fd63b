------------------------------- MODULE CDRip --------------------------------
(***************************************************************************)
(* A CD device ripping tracks: sbCDDevice::ProcessBatch and ReqHandleRead  *)
(* on the request thread, the transcode job whose progress is reported to  *)
(* a listener on the main thread, cancellation by the user, and the status *)
(* the device shows (sbDeviceStatusHelper, sbBaseDevice::SetState).        *)
(*                                                                         *)
(* The request queue is reduced to what RequestThreadQueue establishes: a  *)
(* sequence of whole batches, the abort flag and the handling flag.        *)
(***************************************************************************)
EXTENDS Integers, Sequences, FiniteSets, SequencesExt

CONSTANTS
  Tracks,           \* the READ requests, one per track
  MaxCancels,       \* bound: calls of CancelRequests
  MayStop           \* may the device be disconnected?

ASSUME BoundAssumption ==
  /\ IsFiniteSet(Tracks)
  /\ MaxCancels \in Nat
  /\ MayStop \in BOOLEAN

VARIABLES
  waiting,     \* mRequestQueue, a sequence of batches
  aborting,    \* mAbortRequests
  stopping,    \* mStopProcessing
  handling,    \* mIsHandlingRequests
  rtPC,        \* where the request thread is
  batch,       \* Run's local Batch
  next,        \* position in the batch of the next track to look at
  result,      \* what the last ReqHandleRead returned
  profile,     \* mTranscodeProfile is cached
  job,         \* the transcode job, which runs on the main thread
  operation,   \* mOperationType
  status,      \* the state in sbDeviceStatus
  device,      \* sbBaseDevice::mState
  toSet,       \* the state ChangeState still has to pass to SetState
  cancelPC,    \* where the main thread is in CancelRequests
  cancels      \* how often CancelRequests was called

(***************************************************************************)
(* History, read by properties only (but for unused).                      *)
(***************************************************************************)
VARIABLES
  unused,      \* tracks not submitted yet
  begun,       \* tracks whose ReqHandleRead was called
  cancelled,   \* tracks accepted but not begun when a cancel took effect
  dropped,     \* tracks accepted but not begun when the device was stopped
  report       \* events of the batch at hand, and whether it saw an abort

queueVars  == <<waiting, aborting, stopping, handling>>
threadVars == <<rtPC, batch, next, result, profile>>
stateVars  == <<status, device, toSet>>
cancelVars == <<cancelPC, cancels>>
history    == <<unused, begun, cancelled, dropped, report>>
vars == <<queueVars, threadVars, job, operation, stateVars, cancelVars,
          history>>

B == INSTANCE RequestBatch WITH
       Requests <- Tracks, Countable <- Tracks,
       TypeOf <- [t \in Tracks |-> "read"],
       SystemTypes <- {"unset"}, NotSet <- "unset"

NoReport == [started |-> 0, ended |-> 0, ripEnds |-> 0, aborted |-> FALSE]

Init ==
  /\ waiting = <<>> /\ aborting = FALSE /\ stopping = FALSE
  /\ handling = FALSE
  /\ rtPC = "idle" /\ batch = B!NewBatch /\ next = 1 /\ result = "ok"
  /\ profile = FALSE
  /\ job = "none" /\ operation = "none"
  /\ status = "idle" /\ device = "idle" /\ toSet = "none"
  /\ cancelPC = "none" /\ cancels = 0
  /\ unused = Tracks /\ begun = {} /\ cancelled = {} /\ dropped = {}
  /\ report = NoReport

-----------------------------------------------------------------------------
(***************************************************************************)
(* Device state.                                                           *)
(***************************************************************************)

(* SetState: from STATE_CANCEL only to STATE_IDLE.                         *)
SetState(s) ==
  device' = IF device = "cancel" /\ s # "idle" THEN device ELSE s

(* Mutant of ChangeState: the status is written, SetState is not called.   *)
ChangeStatusOnly(s) == status' = s /\ UNCHANGED toSet

(* ChangeState writes the status and leaves SetState to a step of its own. *)
(* A cancelled status only changes its sub-state until it goes idle.       *)
ChangeState(s) ==
  LET state == IF status = "cancel" /\ s # "idle" THEN status ELSE s
  IN  IF state = status
      THEN UNCHANGED <<status, toSet>>
      ELSE status' = state /\ toSet' = state

FinishChangeState ==
  /\ toSet # "none"
  /\ SetState(toSet)
  /\ toSet' = "none"
  /\ UNCHANGED <<queueVars, threadVars, job, operation, status, cancelVars,
                 history>>

-----------------------------------------------------------------------------
(***************************************************************************)
(* The user: submitting tracks, cancelling, disconnecting.                 *)
(***************************************************************************)
Pending == UNION {Range(waiting[i]) : i \in DOMAIN waiting}
             \cup Range(batch.items)

Submit(S) ==
  /\ ~aborting /\ ~stopping
  /\ waiting' = Append(waiting, SetToSeq(S))
  /\ unused' = unused \ S
  /\ UNCHANGED <<aborting, stopping, handling, threadVars, job, operation,
                 stateVars, cancelVars, begun, cancelled, dropped, report>>

(* sbBaseDevice::CancelRequests: IsHandlingRequests is read first...       *)
CancelBegin ==
  /\ cancelPC = "none" /\ cancels < MaxCancels
  /\ cancels' = cancels + 1
  /\ cancelPC' = IF handling THEN "cancel" ELSE "idle"
  /\ UNCHANGED <<queueVars, threadVars, job, operation, stateVars, history>>

(* ... then the device state is set accordingly...                         *)
CancelSetState ==
  /\ cancelPC \in {"cancel", "idle"}
  /\ SetState(cancelPC)
  /\ cancelPC' = IF cancelPC = "cancel" THEN "status" ELSE "queue"
  /\ UNCHANGED <<queueVars, threadVars, job, operation, status, toSet, cancels,
                 history>>

CancelSetStatus ==
  /\ cancelPC = "status"
  /\ status' = "cancel"
  /\ cancelPC' = "queue"
  /\ UNCHANGED <<queueVars, threadVars, job, operation, device, toSet, cancels,
                 history>>

(* ... and the queue told to cancel: nothing more if an abort is pending.  *)
CancelQueue ==
  /\ cancelPC = "queue"
  /\ cancelPC' = "none"
  /\ IF aborting
     THEN UNCHANGED <<waiting, aborting, cancelled, report>>
     ELSE /\ aborting' = handling
          /\ waiting' = <<>>
          /\ cancelled' = cancelled \cup (Pending \ begun)
          /\ report' = [report EXCEPT !.aborted = TRUE]
  /\ UNCHANGED <<stopping, handling, threadVars, job, operation, stateVars,
                 cancels, unused, begun, dropped>>

(* sbRequestThreadQueue::Stop, up to its flag; nothing resets it here.     *)
StopDevice ==
  /\ MayStop /\ ~stopping
  /\ stopping' = TRUE
  /\ dropped' = Pending \ begun
  /\ report' = [report EXCEPT !.aborted = TRUE]
  /\ UNCHANGED <<waiting, aborting, handling, threadVars, job, operation,
                 stateVars, cancelVars, unused, begun, cancelled>>

-----------------------------------------------------------------------------
(***************************************************************************)
(* The request thread.                                                     *)
(***************************************************************************)
Stopping == aborting \/ stopping

At(pc) == rtPC = pc /\ toSet = "none"

Track == batch.items[next]

(* Mutant of IsLast, off by one.                                           *)
IsPastLast(t) == batch.index[t] = batch.count

IsLast(t) == batch.index[t] + 1 = batch.count

StartRun ==
  /\ At("idle") /\ waiting # <<>>
  /\ handling' = TRUE
  /\ batch' = B!NewBatch
  /\ rtPC' = "pop"
  /\ UNCHANGED <<waiting, aborting, stopping, next, result, profile, job,
                 operation, stateVars, cancelVars, history>>

PopBatch ==
  /\ At("pop")
  /\ IF waiting = <<>>
     THEN /\ batch' = B!Clear(batch)
          /\ rtPC' = "complete"
          /\ UNCHANGED waiting
     ELSE /\ batch' = B!Refill(batch, Head(waiting))
          /\ waiting' = Tail(waiting)
          /\ rtPC' = "check"
  /\ report' = NoReport
  /\ UNCHANGED <<aborting, stopping, handling, next, result, profile, job,
                 operation, stateVars, cancelVars, unused, begun, cancelled,
                 dropped>>

(* Run's own look at the abort flags, before ProcessBatch.                 *)
AbortBatch ==
  /\ At("check") /\ Stopping
  /\ aborting' = FALSE
  /\ rtPC' = "complete"
  /\ UNCHANGED <<waiting, stopping, handling, batch, next, result, profile,
                 job, operation, stateVars, cancelVars, history>>

(* Mutant of BeginBatch: it goes on where the last batch ended.            *)
ContinueBatch ==
  /\ At("check") /\ ~Stopping
  /\ result' = "ok"
  /\ rtPC' = "loop"
  /\ UNCHANGED <<queueVars, batch, next, profile, job, operation, stateVars,
                 cancelVars, history>>

BeginBatch ==
  /\ At("check") /\ ~Stopping
  /\ next' = 1
  /\ result' = "ok"
  /\ rtPC' = "loop"
  /\ UNCHANGED <<queueVars, batch, profile, job, operation, stateVars,
                 cancelVars, history>>

(* ProcessBatch's look at the flags before each request; on its way out    *)
(* autoState makes the device idle.                                        *)
AbortLoop ==
  /\ At("loop") /\ next <= Len(batch.items) /\ Stopping
  /\ aborting' = FALSE
  /\ profile' = FALSE
  /\ result' = "abort"
  /\ ChangeState("idle")
  /\ rtPC' = "processed"
  /\ UNCHANGED <<waiting, stopping, handling, batch, next, job, operation,
                 device, cancelVars, history>>

NextTrack ==
  /\ At("loop") /\ next <= Len(batch.items) /\ ~Stopping
  /\ begun' = begun \cup {Track}
  /\ ChangeState("transcode")
  /\ rtPC' = "read"
  /\ UNCHANGED <<queueVars, batch, next, result, profile, job, operation,
                 device, cancelVars, unused, cancelled, dropped, report>>

(* "Don't keep a cached profile after an abort": isAborted is the result   *)
(* of the last request.                                                    *)
ProfileAtEnd == profile /\ result # "abort"

EndLoop ==
  /\ At("loop") /\ next > Len(batch.items)
  /\ profile' = ProfileAtEnd
  /\ ChangeState("idle")
  /\ rtPC' = "processed"
  /\ UNCHANGED <<queueVars, batch, next, result, job, operation, device,
                 cancelVars, history>>

(* OperationStart, for the first request of a batch only.                  *)
Started ==
  IF batch.index[Track] = 0
  THEN /\ operation' = "read"
       /\ report' = [report EXCEPT !.started = @ + 1]
  ELSE UNCHANGED <<operation, report>>

StartRead ==
  /\ At("read") /\ job = "none"
  /\ Started
  /\ profile' = TRUE
  /\ job' = "running"
  /\ UNCHANGED <<queueVars, rtPC, batch, next, result, stateVars, cancelVars,
                 unused, begun, cancelled, dropped>>

(* Complete: ReqHandleRead is over, with ends more calls of HandleRipEnd;  *)
(* OperationComplete follows the last request of the batch.                *)
Completed(op, rep, ends) ==
  /\ operation' = IF IsLast(Track) THEN "none" ELSE op
  /\ report' = [rep EXCEPT
                  !.ended = IF IsLast(Track) /\ op = "read" THEN @ + 1 ELSE @,
                  !.ripEnds = @ + ends]
  /\ next' = next + 1
  /\ rtPC' = "loop"

(* ReqHandleRead returns early, before or after it has chosen a profile.   *)
FailRead ==
  /\ At("read") /\ job = "none"
  /\ result' = "failed"
  /\ profile' \in {profile, TRUE}
  /\ IF batch.index[Track] = 0
     THEN Completed("read", [report EXCEPT !.started = @ + 1], 0)
     ELSE Completed(operation, report, 0)
  /\ UNCHANGED <<queueVars, batch, job, stateVars, cancelVars,
                 unused, begun, cancelled, dropped>>

(* Mutant of JobIsOver: an abort wakes nobody up.                          *)
JobHasResult == job \in {"succeeded", "failed"}

(* The listener's IsComplete() or IsAborted().                             *)
JobIsOver == job \in {"aborted", "succeeded", "failed"}

(* HandleRipEnd, or the end of an aborted read: the profile of the rip is  *)
(* dropped when the last track of the batch has been read.                 *)
ProfileAfterRead == profile /\ ~(job # "aborted" /\ IsLast(Track))

FinishRead ==
  /\ At("read") /\ JobIsOver
  /\ result' = CASE job = "aborted" -> "abort"
                 [] job = "succeeded" -> "ok"
                 [] job = "failed" -> "failed"
  /\ job' = "none"
  /\ Completed(operation, report,
               IF job = "aborted" \/ IsLast(Track) THEN 1 ELSE 0)
  /\ profile' = ProfileAfterRead
  /\ UNCHANGED <<queueVars, batch, stateVars, cancelVars, unused, begun,
                 cancelled, dropped>>

(* CleanupBatch, and on to the next batch unless ProcessBatch was aborted. *)
Processed ==
  /\ At("processed")
  /\ rtPC' = IF result = "abort" THEN "complete" ELSE "pop"
  /\ UNCHANGED <<queueVars, batch, next, result, profile, job, operation,
                 stateVars, cancelVars, history>>

(* sbRequestThreadQueue::CompleteRequests, then that of the device.        *)
CompleteRequests ==
  /\ At("complete")
  /\ handling' = FALSE
  /\ aborting' = FALSE
  /\ batch' = B!NewBatch
  /\ rtPC' = "goIdle"
  /\ UNCHANGED <<waiting, stopping, next, result, profile, job, operation,
                 stateVars, cancelVars, history>>

GoIdle ==
  /\ At("goIdle")
  /\ IF stopping THEN UNCHANGED <<status, toSet>> ELSE ChangeState("idle")
  /\ rtPC' = "idle"
  /\ UNCHANGED <<queueVars, batch, next, result, profile, job, operation,
                 device, cancelVars, history>>

-----------------------------------------------------------------------------
(***************************************************************************)
(* The transcode job reports to sbTranscodeProgressListener::OnJobProgress *)
(* on the main thread: the abort flags come first, and are reset.          *)
(***************************************************************************)
(* Mutant of JobAborted: the stop flag is consumed like the abort flag.    *)
JobStopped ==
  /\ job = "running" /\ Stopping
  /\ aborting' = FALSE /\ stopping' = FALSE
  /\ job' = "aborted"
  /\ UNCHANGED <<waiting, handling, threadVars, operation, stateVars,
                 cancelVars, history>>

JobAborted ==
  /\ job = "running" /\ Stopping
  /\ aborting' = FALSE
  /\ job' = "aborted"
  /\ UNCHANGED <<waiting, stopping, handling, threadVars, operation, stateVars,
                 cancelVars, history>>

JobEnds ==
  /\ job = "running" /\ ~Stopping
  /\ job' \in {"succeeded", "failed"}
  /\ UNCHANGED <<queueVars, threadVars, operation, stateVars, cancelVars,
                 history>>

-----------------------------------------------------------------------------
RequestThreadStep ==
  \/ FinishChangeState
  \/ StartRun \/ PopBatch \/ AbortBatch \/ BeginBatch
  \/ AbortLoop \/ NextTrack \/ EndLoop
  \/ StartRead \/ FailRead \/ FinishRead
  \/ Processed \/ CompleteRequests \/ GoIdle

CancelStep == CancelSetState \/ CancelSetStatus \/ CancelQueue

JobStep == JobAborted \/ JobEnds

Next == \/ \E S \in (SUBSET unused) \ {{}} : Submit(S)
        \/ CancelBegin \/ CancelStep \/ StopDevice
        \/ RequestThreadStep
        \/ JobStep

Spec == Init /\ [][Next]_vars

(* Threads that can run do; a transcode job keeps reporting until it ends. *)
FairSpec == /\ Spec
            /\ WF_vars(RequestThreadStep)
            /\ WF_vars(CancelStep)
            /\ WF_vars(JobStep)

-----------------------------------------------------------------------------
TypeOK ==
  /\ waiting \in Seq(Seq(Tracks))
  /\ {aborting, stopping, handling, profile} \subseteq BOOLEAN
  /\ rtPC \in {"idle", "pop", "check", "loop", "read", "processed", "complete",
               "goIdle"}
  /\ next \in Nat \ {0}
  /\ rtPC \in {"loop", "read"} => next <= Len(batch.items) + 1
  /\ result \in {"ok", "failed", "abort"}
  /\ job \in {"none", "running", "aborted", "succeeded", "failed"}
  /\ operation \in {"none", "read"}
  /\ {status, device} \subseteq {"idle", "transcode", "cancel"}
  /\ toSet \in {"none", "idle", "transcode"}
  /\ cancelPC \in {"none", "cancel", "idle", "status", "queue"}

(* A track waiting for its turn when the user cancelled is not ripped: "If *)
(* one of the above operatons returned NS_ERROR_ABORT, we need to bail    *)
(* out" (sbCDDeviceRequest.cpp:260).                                       *)
CancelStopsRip == cancelled \cap begun = {}

(* A track waiting for its turn when the device was stopped is not ripped. *)
StopStopsRip == dropped \cap begun = {}

(* A batch ripped without a cancel is bracketed by one start and one end   *)
(* event, and one HandleRipEnd (notification, auto-eject) follows it,      *)
(* unless its last track failed before it was transcoded.  This is said of *)
(* the first batch of a Run: Batch::clear keeps the count, and the indexes *)
(* of a later batch do not start from 0.                                   *)
BatchReported ==
  (At("processed") /\ ~report.aborted /\ batch.count = Len(batch.items)) =>
    /\ report.started = 1 /\ report.ended = 1
    /\ report.ripEnds = 1 \/ (report.ripEnds = 0 /\ result = "failed")

(* While a track is transcoded the device is not idle, or it could be      *)
(* disconnected ("this ensures that the device is not prematurely removed  *)
(* ... while the device content is being accessed", sbCDDeviceRequest.cpp: *)
(* 165).  A cancel that has seen the queue idle may still set the state    *)
(* after a rip has started, so this is said until the first cancel.        *)
BusyWhileRipping == (job # "none" /\ cancels = 0) => device # "idle"

(* Every track submitted is begun, or dropped by a cancel or a stop; and a *)
(* Run comes to an end with the device idle again, unless the device is    *)
(* stopped or a cancel is still under way.  Such a cancel has seen the Run *)
(* and may set the state after its end: the device then stays in "cancel"  *)
(* until the end of the next Run.                                          *)
RunEnds ==
  /\ \A t \in Tracks :
       t \notin unused ~> t \in begun \cup cancelled \cup dropped
  /\ handling ~>
       ~handling /\ (device = "idle" \/ stopping \/ cancelPC # "none")

=============================================================================
