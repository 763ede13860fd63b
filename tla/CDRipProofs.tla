---------------------------- MODULE CDRipProofs -----------------------------
(***************************************************************************)
(* Proofs about a CD device ripping tracks, for any tracks and any number  *)
(* of cancels: while it rips it is not idle (until the first cancel), a    *)
(* stop is not overtaken by a track, and a batch that nobody aborts is     *)
(* reported as a whole.                                                    *)
(*                                                                         *)
(* The first half does not look at what a batch holds: status and state of *)
(* the device are written by two threads at different times, and Shown     *)
(* says how they are related until a cancel interferes. The second half    *)
(* follows a batch from the queue through the indexes it gives its tracks  *)
(* to the events sent for the first and the last of them.                  *)
(***************************************************************************)
EXTENDS CDRip, SequenceLemmas

(* A job belongs to the read that the request thread waits in.             *)
JobIsRead == job # "none" => rtPC = "read" /\ toSet = "none"

(* Until the first cancel: the device's state is the status, or the        *)
(* request thread is about to make it so; and a read is a transcode.       *)
Shown ==
  cancels = 0 =>
    /\ cancelPC = "none"
    /\ status \in {"idle", "transcode"} /\ device \in {"idle", "transcode"}
    /\ IF toSet = "none" THEN device = status ELSE toSet = status
    /\ rtPC = "read" => status = "transcode"

(* Nothing was dropped before the stop, and nothing begins after it.       *)
StopIsFinal == StopStopsRip /\ (stopping \/ dropped = {})

IInv == cancels \in Nat /\ JobIsRead /\ Shown /\ StopIsFinal

-----------------------------------------------------------------------------
(* The actions that leave status and state alone, and begin no track.      *)
Elsewhere ==
  /\ UNCHANGED <<job, stateVars, cancelVars, begun, dropped, stopping>>
  /\ rtPC' # "read"
  /\ job = "none"

LEMMA ElsewhereKeeps == IInv /\ Elsewhere => IInv'
BY DEF IInv, JobIsRead, Shown, StopIsFinal, StopStopsRip, Elsewhere,
       stateVars, cancelVars

(* The request thread outside of a read has no job.                        *)
LEMMA NoJob ==
  ASSUME IInv, rtPC # "read" \/ toSet # "none"
  PROVE  job = "none"
BY DEF IInv, JobIsRead

(* The steps of the request thread that are elsewhere.                     *)
LEMMA ThreadElsewhere ==
  ASSUME IInv,
         \/ StartRun \/ PopBatch \/ AbortBatch \/ BeginBatch
         \/ Processed \/ CompleteRequests
  PROVE  Elsewhere
<1>1. job = "none"
  BY NoJob DEF StartRun, PopBatch, AbortBatch, BeginBatch, Processed,
               CompleteRequests, At
<1>2. CASE StartRun
  BY <1>1, <1>2 DEF StartRun, Elsewhere, stateVars, cancelVars, history
<1>3. CASE PopBatch
  BY <1>1, <1>3 DEF PopBatch, Elsewhere, stateVars, cancelVars
<1>4. CASE AbortBatch
  BY <1>1, <1>4 DEF AbortBatch, Elsewhere, stateVars, cancelVars, history
<1>5. CASE BeginBatch
  BY <1>1, <1>5 DEF BeginBatch, Elsewhere, stateVars, cancelVars, history,
                    queueVars
<1>6. CASE Processed
  BY <1>1, <1>6 DEF Processed, Elsewhere, stateVars, cancelVars, history,
                    queueVars
<1>7. CASE CompleteRequests
  BY <1>1, <1>7 DEF CompleteRequests, Elsewhere, stateVars, cancelVars,
                    history
<1>8. QED BY <1>2, <1>3, <1>4, <1>5, <1>6, <1>7

(* A change of state in a step of the request thread.                      *)
LEMMA ChangeKeeps ==
  ASSUME IInv, toSet = "none", job = "none", NEW s \in {"idle", "transcode"},
         ChangeState(s), rtPC' = "read" => s = "transcode",
         UNCHANGED <<job, device, cancelVars>>, StopIsFinal'
  PROVE  IInv'
<1>1. JobIsRead' /\ cancels' \in Nat
  BY DEF IInv, JobIsRead, cancelVars
<1>2. Shown'
  BY DEF IInv, Shown, ChangeState, cancelVars
<1>3. QED BY <1>1, <1>2 DEF IInv

(* The end of the loop, an abort in it, and the end of the Run.            *)
LEMMA IdleKeeps ==
  ASSUME IInv, AbortLoop \/ EndLoop \/ GoIdle
  PROVE  IInv'
<1>1. job = "none" /\ toSet = "none"
  BY NoJob DEF AbortLoop, EndLoop, GoIdle, At
<1>2. /\ UNCHANGED <<job, device, cancelVars, begun, dropped, stopping>>
      /\ rtPC' # "read"
      /\ ChangeState("idle") \/ UNCHANGED <<status, toSet>>
  BY DEF AbortLoop, EndLoop, GoIdle, cancelVars, history, queueVars
<1>3. CASE ChangeState("idle")
  <2>1. StopIsFinal'
    BY <1>2 DEF IInv, StopIsFinal, StopStopsRip
  <2>2. QED BY <1>1, <1>2, <1>3, <2>1, ChangeKeeps
<1>4. CASE UNCHANGED <<status, toSet>>
  BY <1>1, <1>2, <1>4, ElsewhereKeeps DEF Elsewhere, stateVars
<1>5. QED BY <1>2, <1>3, <1>4

(* A track begins: the device is told to transcode before the read.        *)
LEMMA NextTrackKeeps == ASSUME IInv, NextTrack PROVE IInv'
<1>1. job = "none" /\ toSet = "none"
  BY NoJob DEF NextTrack, At
<1>2. StopIsFinal'
  <2>1. dropped = {} /\ UNCHANGED <<dropped, stopping>>
    BY DEF IInv, StopIsFinal, NextTrack, Stopping, queueVars
  <2>2. QED BY <2>1 DEF StopIsFinal, StopStopsRip
<1>3. QED BY <1>1, <1>2, ChangeKeeps DEF NextTrack

(* The steps of a read, and of its job.                                    *)
LEMMA ReadKeeps ==
  ASSUME IInv, StartRead \/ FailRead \/ FinishRead \/ JobAborted \/ JobEnds
  PROVE  IInv'
<1>1. /\ UNCHANGED <<stateVars, cancelVars, begun, dropped, stopping>>
      /\ rtPC = "read" /\ toSet = "none"
      /\ rtPC' = "read" \/ (rtPC' = "loop" /\ job' = "none")
  <2>1. CASE StartRead
    BY <2>1 DEF StartRead, queueVars, At
  <2>2. CASE FailRead
    BY <2>2 DEF FailRead, Completed, queueVars, At
  <2>3. CASE FinishRead
    BY <2>3 DEF FinishRead, Completed, queueVars, At
  <2>4. CASE JobAborted
    BY <2>4 DEF JobAborted, threadVars, history, IInv, JobIsRead
  <2>5. CASE JobEnds
    BY <2>5 DEF JobEnds, threadVars, history, queueVars, IInv, JobIsRead
  <2>6. QED BY <2>1, <2>2, <2>3, <2>4, <2>5
<1>2. StopIsFinal'
  BY <1>1 DEF IInv, StopIsFinal, StopStopsRip
<1>3. JobIsRead' /\ Shown' /\ cancels' \in Nat
  BY <1>1 DEF IInv, JobIsRead, Shown, stateVars, cancelVars
<1>4. QED BY <1>2, <1>3 DEF IInv

(* SetState: the device follows the status.                                *)
LEMMA FinishChangeKeeps == ASSUME IInv, FinishChangeState PROVE IInv'
<1>1. job = "none"
  BY NoJob DEF FinishChangeState
<1>2. /\ UNCHANGED <<job, status, cancelVars, begun, dropped, stopping, rtPC>>
      /\ toSet # "none" /\ toSet' = "none" /\ SetState(toSet)
  BY DEF FinishChangeState, queueVars, threadVars, history
<1>3. StopIsFinal' /\ JobIsRead' /\ cancels' \in Nat
  BY <1>1, <1>2 DEF IInv, StopIsFinal, StopStopsRip, JobIsRead, cancelVars
<1>4. Shown'
  BY <1>2 DEF IInv, Shown, SetState, cancelVars
<1>5. QED BY <1>3, <1>4 DEF IInv

(* The user: the first cancel ends what Shown is about.                    *)
LEMMA UserKeeps ==
  ASSUME IInv,
         \/ \E S \in (SUBSET unused) \ {{}} : Submit(S)
         \/ CancelBegin \/ CancelStep \/ StopDevice
  PROVE  IInv'
<1>1. CASE \E S \in (SUBSET unused) \ {{}} : Submit(S)
  BY <1>1 DEF Submit, IInv, JobIsRead, Shown, StopIsFinal, StopStopsRip,
              threadVars, stateVars, cancelVars
<1>2. CASE CancelBegin
  <2>1. cancels' \in Nat /\ cancels' # 0
    BY <1>2 DEF CancelBegin, IInv
  <2>2. QED BY <1>2, <2>1
        DEF CancelBegin, IInv, JobIsRead, Shown, StopIsFinal, StopStopsRip,
            queueVars, threadVars, stateVars, history
<1>3. CASE CancelStep
  <2>1. cancelPC # "none" /\ UNCHANGED <<cancels, rtPC, job, toSet, begun,
                                         dropped, stopping>>
    BY <1>3 DEF CancelStep, CancelSetState, CancelSetStatus, CancelQueue,
                queueVars, threadVars, stateVars, history
  <2>2. cancels # 0
    BY <2>1 DEF IInv, Shown
  <2>3. QED BY <2>1, <2>2 DEF IInv, JobIsRead, Shown, StopIsFinal,
                              StopStopsRip
<1>4. CASE StopDevice
  <2>1. UNCHANGED <<rtPC, job, stateVars, cancelVars, begun>>
        /\ stopping' /\ dropped' \cap begun = {}
    BY <1>4 DEF StopDevice, threadVars
  <2>2. QED BY <2>1 DEF IInv, JobIsRead, Shown, StopIsFinal, StopStopsRip,
                        stateVars, cancelVars
<1>5. QED BY <1>1, <1>2, <1>3, <1>4

-----------------------------------------------------------------------------
(* The invariant is inductive.                                             *)
THEOREM Invariance == Spec => []IInv
<1>1. Init => IInv
  BY DEF Init, IInv, JobIsRead, Shown, StopIsFinal, StopStopsRip
<1>2. IInv /\ [Next]_vars => IInv'
  <2> SUFFICES ASSUME IInv, [Next]_vars PROVE IInv'
    OBVIOUS
  <2>1. CASE \/ \E S \in (SUBSET unused) \ {{}} : Submit(S)
             \/ CancelBegin \/ CancelStep \/ StopDevice
    BY <2>1, UserKeeps
  <2>2. CASE RequestThreadStep
    BY <2>2, FinishChangeKeeps, ThreadElsewhere, ElsewhereKeeps, IdleKeeps,
       NextTrackKeeps, ReadKeeps DEF RequestThreadStep
  <2>3. CASE JobStep
    BY <2>3, ReadKeeps DEF JobStep
  <2>4. CASE UNCHANGED vars
    BY <2>4 DEF vars, queueVars, threadVars, stateVars, cancelVars, history,
                IInv, JobIsRead, Shown, StopIsFinal, StopStopsRip
  <2>5. QED BY <2>1, <2>2, <2>3, <2>4 DEF Next
<1>3. QED BY <1>1, <1>2, PTL DEF Spec

(* While a track is transcoded the device is not shown as idle, whichever  *)
(* thread wrote its state last, until a cancel interferes.                 *)
THEOREM NeverIdleWhileRipping == Spec => []BusyWhileRipping
<1>1. IInv => BusyWhileRipping
  BY DEF IInv, JobIsRead, Shown, BusyWhileRipping
<1>2. QED BY <1>1, Invariance, PTL

(* A track that was waiting when the device was stopped is never ripped.   *)
THEOREM StopHolds == Spec => []StopStopsRip
<1>1. IInv => StopStopsRip
  BY DEF IInv, StopIsFinal
<1>2. QED BY <1>1, Invariance, PTL


-----------------------------------------------------------------------------
(***************************************************************************)
(* Types, and the reports of a batch.                                      *)
(***************************************************************************)
Distinct(s) == \A i, j \in DOMAIN s : s[i] = s[j] => i = j

(* What Submit puts on the queue: no batch is empty or has a track twice.  *)
Lists == {s \in Seq(Tracks) : s # <<>> /\ Distinct(s)}

BatchRecord == [items: Seq(Tracks), count: Nat, type: {"unset", "read"},
                index: [Tracks -> Nat]]

ReportRecord == [started: Nat, ended: Nat, ripEnds: Nat, aborted: BOOLEAN]

TypeInv ==
  /\ TypeOK
  /\ unused \subseteq Tracks
  /\ waiting \in Seq(Lists)
  /\ batch \in BatchRecord
  /\ report \in ReportRecord
  /\ rtPC \in {"check", "loop", "read", "processed"} => batch.items # <<>>
  /\ rtPC = "read" => next <= Len(batch.items)

(* The first batch of a Run is numbered from 0.                            *)
IsFirst == batch.count = Len(batch.items)

Numbered ==
  IsFirst => \A i \in DOMAIN batch.items : batch.index[batch.items[i]] = i - 1

(* What has been reported when the tracks before next have been read, and  *)
(* the job of next has been started or not.                                *)
Progress ==
  LET nothing == next = 1 /\ job = "none"
      all     == next > Len(batch.items)
  IN  /\ report.started = IF nothing THEN 0 ELSE 1
      /\ report.ended = IF all THEN 1 ELSE 0
      /\ ~nothing /\ ~all => operation = "read"
      /\ \/ report.ripEnds = IF all THEN 1 ELSE 0
         \/ report.ripEnds = 0 /\ result = "failed"

(* Nothing was aborted, and reports keep up with the tracks.               *)
Reporting ==
  ~report.aborted =>
    /\ rtPC = "check" => report = NoReport
    /\ rtPC \in {"loop", "read", "processed"} => ~Stopping /\ job # "aborted"
    /\ rtPC \in {"loop", "read"} /\ IsFirst => Progress
    /\ rtPC = "processed" /\ IsFirst
         => /\ report.started = 1 /\ report.ended = 1
            /\ report.ripEnds = 1 \/ (report.ripEnds = 0 /\ result = "failed")

RipInv == TypeInv /\ Numbered /\ Reporting

(* c is the batch b with t added: every track is countable, and takes the  *)
(* next index.                                                             *)
Adds(c, b, t) ==
  /\ c \in BatchRecord
  /\ c.items = Append(b.items, t)
  /\ c.count = b.count + 1
  /\ c.index = [b.index EXCEPT ![t] = b.count]

LEMMA PushBackAdds ==
  ASSUME NEW b \in BatchRecord, NEW t \in Tracks
  PROVE  Adds(B!PushBack(b, t), b, t)
<1> DEFINE r == [items |-> Append(b.items, t), count |-> b.count + 1,
                 type |-> IF b.type \in {"unset"} THEN "read" ELSE b.type,
                 index |-> [b.index EXCEPT ![t] = b.count]]
<1>1. B!PushBack(b, t) = r
  BY DEF B!PushBack
<1>2. /\ b.items \in Seq(Tracks) /\ b.count \in Nat
      /\ b.type \in {"unset", "read"} /\ b.index \in [Tracks -> Nat]
  BY DEF BatchRecord
<1>3. r \in BatchRecord
  BY <1>2 DEF BatchRecord
<1>4. QED BY <1>1, <1>3 DEF Adds

(* clear leaves the count as it is.                                        *)
LEMMA ClearIs ==
  ASSUME NEW b \in BatchRecord
  PROVE  B!Clear(b) \in BatchRecord /\ B!Clear(b).items = <<>>
           /\ B!Clear(b).count = b.count
<1>1. b = [items |-> b.items, count |-> b.count, type |-> b.type,
           index |-> b.index]
  BY DEF BatchRecord
<1>2. B!Clear(b) = [items |-> <<>>, count |-> b.count, type |-> "unset",
                    index |-> b.index]
  <2> DEFINE c == [b EXCEPT !.items = <<>>]
  <2>1. B!Clear(b) = [c EXCEPT !.type = "unset"]
    BY DEF B!Clear
  <2>2. c = [items |-> <<>>, count |-> b.count, type |-> b.type,
             index |-> b.index]
    BY <1>1
  <2>3. QED
    <3> HIDE DEF c
    <3>1. QED BY <2>1, <2>2
<1>3. QED BY <1>2 DEF BatchRecord

(* A refilled batch has the requests in their order, and their indexes go  *)
(* on from the count the batch had.                                        *)
LEMMA Refilled ==
  ASSUME NEW b \in BatchRecord, NEW s \in Lists
  PROVE  /\ B!Refill(b, s) \in BatchRecord
         /\ B!Refill(b, s).items = s
         /\ B!Refill(b, s).count = b.count + Len(s)
         /\ \A i \in 1..Len(s) :
              B!Refill(b, s).index[s[i]] = b.count + i - 1
<1> DEFINE n == Len(s)
           step == [i \in 1..n |-> [x \in BatchRecord |-> B!PushBack(x, s[i])]]
           Fill(f) == [i \in 0..n |-> IF i = 0 THEN B!Clear(b)
                                      ELSE B!PushBack(f[i - 1], s[i])]
           filled == CHOOSE f : f = Fill(f)
<1>1. n \in Nat /\ s \in Seq(Tracks) /\ \A i \in 1..n : s[i] \in Tracks
  BY DEF Lists
<1>2. B!Clear(b) \in BatchRecord /\ B!Clear(b).items = <<>>
        /\ B!Clear(b).count = b.count
  BY ClearIs
<1>3. filled = Fill(filled)
  <2>1. step \in [1..n -> [BatchRecord -> BatchRecord]]
    BY <1>1, PushBackAdds DEF Adds
  <2>2. PICK g \in [0..n -> BatchRecord] :
          Iterates(g, n, B!Clear(b), step)
    <3> HIDE DEF step, n
    <3>1. QED BY <1>1, <1>2, <2>1, Iteration
  <2>3. ASSUME NEW i \in 1..n
        PROVE  step[i][g[i - 1]] = B!PushBack(g[i - 1], s[i])
    <3>1. i - 1 \in 0..n
      BY <1>1
    <3>2. g[i - 1] \in BatchRecord
      <4> HIDE DEF step, n
      <4>1. QED BY <2>2, <3>1
    <3>3. QED BY <3>2
  <2>4. g = Fill(g)
    <3> HIDE DEF step
    <3>1. QED BY <1>1, <2>2, <2>3 DEF Iterates
  <2>5. QED
    <3> HIDE DEF Fill
    <3>1. QED BY <2>4
<1>4. B!Refill(b, s) = filled[n]
  BY DEF B!Refill
<1> DEFINE Good(m) == /\ filled[m] \in BatchRecord
                      /\ filled[m].items = SubSeq(s, 1, m)
                      /\ filled[m].count = b.count + m
                      /\ \A i \in 1..m : filled[m].index[s[i]] = b.count + i - 1
           T == {m \in 0..n : Good(m)}
<1>5. 0 \in T
  <2> HIDE DEF filled
  <2>1. filled[0] = B!Clear(b)
    BY <1>1, <1>3
  <2>2. SubSeq(s, 1, 0) = <<>>
    BY <1>1
  <2>3. b.count \in Nat
    BY DEF BatchRecord
  <2>4. Good(0)
    <3>1. filled[0] \in BatchRecord /\ filled[0].items = SubSeq(s, 1, 0)
      BY <1>2, <2>1, <2>2
    <3>2. filled[0].count = b.count + 0
      BY <1>2, <2>1, <2>3
    <3>3. QED BY <3>1, <3>2
  <2>5. QED BY <1>1, <2>4
<1>6. ASSUME NEW m \in 1..n, m - 1 \in T PROVE m \in T
  <2> HIDE DEF filled
  <2> DEFINE before == filled[m - 1]
  <2>1. filled[m] = B!PushBack(before, s[m])
    BY <1>1, <1>3
  <2>2. before \in BatchRecord /\ Good(m - 1)
    BY <1>6
  <2>3. s[m] \in Tracks
    BY <1>1
  <2>4. Adds(filled[m], before, s[m])
    <3> HIDE DEF before
    <3>1. QED BY <2>1, <2>2, <2>3, PushBackAdds
  <2>5. Append(SubSeq(s, 1, m - 1), s[m]) = SubSeq(s, 1, m)
    BY <1>1, SubSeqGrows
  <2>6. b.count \in Nat /\ before.count = b.count + (m - 1)
        /\ before.index \in [Tracks -> Nat]
    BY <2>2 DEF BatchRecord
  <2>7. ASSUME NEW i \in 1..m
        PROVE  filled[m].index[s[i]] = b.count + i - 1
    <3>1. CASE i = m
      BY <2>3, <2>4, <2>6, <3>1 DEF Adds
    <3>2. CASE i # m
      <4>1. i \in 1..(m - 1) /\ s[i] # s[m]
        BY <1>1, <3>2 DEF Lists, Distinct
      <4>2. s[i] \in Tracks
        BY <1>1
      <4>3. QED BY <2>2, <2>4, <2>6, <4>1, <4>2 DEF Adds
    <3>3. QED BY <3>1, <3>2
  <2>8. Good(m)
    BY <2>2, <2>4, <2>5, <2>6, <2>7 DEF Adds
  <2>9. QED BY <1>1, <2>8
<1>7. n \in T
  <2> HIDE DEF T
  <2>1. 0..n \subseteq T
    BY <1>1, <1>5, <1>6, BoundedInduction
  <2>2. QED BY <1>1, <2>1
<1>8. SubSeq(s, 1, n) = s
  BY <1>1
<1>9. QED
  <2> HIDE DEF filled
  <2>1. QED BY <1>4, <1>7, <1>8

-----------------------------------------------------------------------------
(* Submit's list names each of its tracks once.                            *)
LEMMA SubmitTypes ==
  ASSUME TypeInv, NEW S \in (SUBSET unused) \ {{}}, Submit(S)
  PROVE  waiting' \in Seq(Lists) /\ unused' \subseteq Tracks
<1>1. IsFiniteSet(S) /\ S \subseteq Tracks
  <2>1. S \in SUBSET Tracks
    BY DEF TypeInv
  <2>2. QED BY <2>1, BoundAssumption, FS_Subset
<1>2. SetToSeq(S) \in Lists
  <2>1. /\ SetToSeq(S) \in Seq(S) /\ Len(SetToSeq(S)) = Cardinality(S)
        /\ Distinct(SetToSeq(S))
    BY <1>1, SetListed DEF Distinct
  <2>2. SetToSeq(S) \in Seq(Tracks)
    BY <1>1, <2>1, SeqMonotonic
  <2>3. Cardinality(S) # 0
    BY <1>1, FS_EmptySet
  <2>4. SetToSeq(S) # <<>>
    BY <2>1, <2>3
  <2>5. QED BY <2>1, <2>2, <2>4 DEF Lists
<1>3. QED BY <1>2 DEF Submit, TypeInv

(* The batches on the queue are sequences of tracks.                       *)
LEMMA WaitingType ==
  ASSUME NEW w \in Seq(Lists) PROVE w \in Seq(Seq(Tracks))
<1>1. Lists \subseteq Seq(Tracks)
  BY DEF Lists
<1>2. QED BY <1>1, SeqMonotonic

(* What SetState and ChangeState write are states.                         *)
LEMMA StateTypes ==
  ASSUME TypeInv, NEW s \in {"idle", "transcode", "cancel"}
  PROVE  /\ SetState(s) => device' \in {"idle", "transcode", "cancel"}
         /\ ChangeState(s) /\ s # "cancel"
              => /\ status' \in {"idle", "transcode", "cancel"}
                 /\ toSet' \in {"none", "idle", "transcode"}
<1>1. /\ device \in {"idle", "transcode", "cancel"}
      /\ status \in {"idle", "transcode", "cancel"}
      /\ toSet \in {"none", "idle", "transcode"}
  BY DEF TypeInv, TypeOK
<1>2. SetState(s) => device' \in {"idle", "transcode", "cancel"}
  BY <1>1 DEF SetState
<1>3. ASSUME ChangeState(s), s # "cancel"
      PROVE  /\ status' \in {"idle", "transcode", "cancel"}
             /\ toSet' \in {"none", "idle", "transcode"}
  <2> DEFINE state == IF status = "cancel" /\ s # "idle" THEN status ELSE s
  <2>1. CASE state = status
    BY <1>1, <1>3, <2>1 DEF ChangeState
  <2>2. CASE state # status
    BY <1>1, <1>3, <2>2 DEF ChangeState
  <2>3. QED BY <2>1, <2>2
<1>4. QED BY <1>2, <1>3

(* A step that touches neither batch, reads nor reports; it may leave the  *)
(* loop of the batches.                                                    *)
Beside ==
  /\ UNCHANGED <<waiting, unused, batch, next, result, job, operation, report>>
  /\ \/ UNCHANGED <<rtPC, aborting, stopping>>
     \/ rtPC' \in {"idle", "pop", "complete", "goIdle"}

BesideTypes ==
  /\ aborting' \in BOOLEAN /\ stopping' \in BOOLEAN /\ handling' \in BOOLEAN
  /\ profile' \in BOOLEAN
  /\ status' \in {"idle", "transcode", "cancel"}
  /\ device' \in {"idle", "transcode", "cancel"}
  /\ toSet' \in {"none", "idle", "transcode"}
  /\ cancelPC' \in {"none", "cancel", "idle", "status", "queue"}

LEMMA BesideKeeps ==
  ASSUME RipInv, Beside, BesideTypes
  PROVE  RipInv'
<1>1. TypeInv'
  BY DEF RipInv, TypeInv, TypeOK, Beside, BesideTypes
<1>2. Numbered'
  BY DEF RipInv, Numbered, IsFirst, Beside
<1>3. Reporting'
  BY DEF RipInv, Reporting, Progress, IsFirst, Stopping, Beside
<1>4. QED BY <1>1, <1>2, <1>3 DEF RipInv

(* The steps of the user but for Submit.                                   *)
LEMMA RipUser ==
  ASSUME RipInv, CancelBegin \/ CancelStep \/ StopDevice
  PROVE  RipInv'
<1>0. /\ aborting \in BOOLEAN /\ stopping \in BOOLEAN /\ handling \in BOOLEAN
      /\ profile \in BOOLEAN /\ report \in ReportRecord
      /\ {status, device} \subseteq {"idle", "transcode", "cancel"}
      /\ toSet \in {"none", "idle", "transcode"}
      /\ cancelPC \in {"none", "cancel", "idle", "status", "queue"}
  BY DEF RipInv, TypeInv, TypeOK
<1>1. CASE CancelBegin
  <2>1. Beside /\ BesideTypes
    BY <1>0, <1>1 DEF CancelBegin, Beside, BesideTypes, queueVars, threadVars,
                      stateVars, history
  <2>2. QED BY <2>1, BesideKeeps
<1>2. CASE CancelSetState
  <2>1. device' \in {"idle", "transcode", "cancel"}
    BY <1>2, StateTypes DEF CancelSetState, RipInv
  <2>2. Beside /\ BesideTypes
    BY <1>0, <1>2, <2>1 DEF CancelSetState, Beside, BesideTypes, queueVars,
                            threadVars, history
  <2>3. QED BY <2>2, BesideKeeps
<1>3. CASE CancelSetStatus
  <2>1. Beside /\ BesideTypes
    BY <1>0, <1>3 DEF CancelSetStatus, Beside, BesideTypes, queueVars,
                      threadVars, history
  <2>2. QED BY <2>1, BesideKeeps
<1>4. CASE CancelQueue
  <2>1. CASE aborting
    <3>1. Beside /\ BesideTypes
      BY <1>0, <1>4, <2>1 DEF CancelQueue, Beside, BesideTypes, threadVars,
                              stateVars
    <3>2. QED BY <3>1, BesideKeeps
  <2>2. CASE ~aborting
    <3>1. /\ UNCHANGED <<stopping, handling, threadVars, job, operation,
                         stateVars, unused>>
          /\ waiting' = <<>> /\ aborting' = handling
          /\ report' = [report EXCEPT !.aborted = TRUE]
          /\ cancelPC' = "none"
      BY <1>4, <2>2 DEF CancelQueue
    <3>2. report' \in ReportRecord /\ report'.aborted
      BY <1>0, <3>1 DEF ReportRecord
    <3>3. TypeInv'
      BY <1>0, <3>1, <3>2 DEF RipInv, TypeInv, TypeOK, threadVars, stateVars
    <3>4. Numbered' /\ Reporting'
      BY <3>1, <3>2 DEF RipInv, Numbered, IsFirst, Reporting, threadVars
    <3>5. QED BY <3>3, <3>4 DEF RipInv
  <2>3. QED BY <2>1, <2>2
<1>5. CASE StopDevice
  <2>1. /\ UNCHANGED <<waiting, aborting, handling, threadVars, job, operation,
                       stateVars, cancelVars, unused>>
        /\ stopping' = TRUE
        /\ report' = [report EXCEPT !.aborted = TRUE]
    BY <1>5 DEF StopDevice
  <2>2. report' \in ReportRecord /\ report'.aborted
    BY <1>0, <2>1 DEF ReportRecord
  <2>3. TypeInv'
    BY <1>0, <2>1, <2>2 DEF RipInv, TypeInv, TypeOK, threadVars, stateVars,
                            cancelVars
  <2>4. Numbered' /\ Reporting'
    BY <2>1, <2>2 DEF RipInv, Numbered, IsFirst, Reporting, threadVars
  <2>5. QED BY <2>3, <2>4 DEF RipInv
<1>6. QED BY <1>1, <1>2, <1>3, <1>4, <1>5 DEF CancelStep

LEMMA RipSubmit ==
  ASSUME RipInv, NEW S \in (SUBSET unused) \ {{}}, Submit(S)
  PROVE  RipInv'
<1>1. waiting' \in Seq(Lists) /\ unused' \subseteq Tracks
  BY SubmitTypes DEF RipInv
<1>2. UNCHANGED <<aborting, stopping, handling, threadVars, job, operation,
                  stateVars, cancelVars, report>>
  BY DEF Submit
<1>3. waiting' \in Seq(Seq(Tracks))
  BY <1>1, WaitingType
<1>4. TypeInv'
  BY <1>1, <1>2, <1>3 DEF RipInv, TypeInv, TypeOK, threadVars, stateVars,
                          cancelVars
<1>5. Numbered' /\ Reporting'
  BY <1>2 DEF RipInv, Numbered, IsFirst, Reporting, Progress, Stopping,
              threadVars
<1>6. QED BY <1>4, <1>5 DEF RipInv

-----------------------------------------------------------------------------
(* A Run starts with a new batch and ends with one.                        *)
LEMMA NewBatchIs ==
  /\ B!NewBatch \in BatchRecord
  /\ B!NewBatch.items = <<>>
BY DEF B!NewBatch, BatchRecord

LEMMA RipRun ==
  ASSUME RipInv, StartRun \/ CompleteRequests
  PROVE  RipInv'
<1>1. /\ batch' = B!NewBatch /\ rtPC' \in {"pop", "goIdle"}
      /\ handling' \in BOOLEAN /\ aborting' \in BOOLEAN
      /\ UNCHANGED <<waiting, stopping, next, result, profile, job, operation,
                     stateVars, cancelVars, unused, report>>
  BY DEF StartRun, CompleteRequests, history, RipInv, TypeInv, TypeOK
<1>2. batch' \in BatchRecord /\ batch'.items = <<>>
  BY <1>1, NewBatchIs
<1>3. TypeInv'
  BY <1>1, <1>2 DEF RipInv, TypeInv, TypeOK, stateVars, cancelVars
<1>4. Numbered' /\ Reporting'
  BY <1>1, <1>2 DEF RipInv, Numbered, Reporting
<1>5. QED BY <1>3, <1>4 DEF RipInv

(* A pop refills the batch from the head of the queue, or clears it.       *)
LEMMA RipPop ==
  ASSUME RipInv, PopBatch
  PROVE  RipInv'
<1>1. batch \in BatchRecord /\ waiting \in Seq(Lists)
  BY DEF RipInv, TypeInv
<1>2. /\ report' = NoReport
      /\ UNCHANGED <<aborting, stopping, handling, next, result, profile, job,
                     operation, stateVars, cancelVars, unused>>
  BY DEF PopBatch
<1>3. report' \in ReportRecord
  BY <1>2 DEF NoReport, ReportRecord
<1>4. CASE waiting = <<>>
  <2>1. batch' = B!Clear(batch) /\ rtPC' = "complete" /\ waiting' = waiting
    BY <1>4 DEF PopBatch
  <2>2. batch' \in BatchRecord /\ batch'.items = <<>>
    BY <1>1, <2>1, ClearIs
  <2>3. TypeInv'
    BY <1>2, <1>3, <2>1, <2>2 DEF RipInv, TypeInv, TypeOK, stateVars,
                                  cancelVars
  <2>4. Numbered' /\ Reporting'
    BY <2>1, <2>2 DEF RipInv, Numbered, Reporting
  <2>5. QED BY <2>3, <2>4 DEF RipInv
<1>5. CASE waiting # <<>>
  <2> DEFINE s == Head(waiting)
  <2>1. /\ batch' = B!Refill(batch, s) /\ rtPC' = "check"
        /\ waiting' = Tail(waiting)
    BY <1>5 DEF PopBatch
  <2>2. s \in Lists /\ waiting' \in Seq(Lists)
    BY <1>1, <1>5, <2>1
  <2>3. /\ batch' \in BatchRecord /\ batch'.items = s
        /\ batch'.count = batch.count + Len(s)
        /\ \A i \in 1..Len(s) : batch'.index[s[i]] = batch.count + i - 1
    <3> HIDE DEF s
    <3>1. QED BY <1>1, <2>1, <2>2, Refilled
  <2>4. s \in Seq(Tracks) /\ s # <<>> /\ batch.count \in Nat
    BY <1>1, <2>2 DEF Lists, BatchRecord
  <2>5. waiting' \in Seq(Seq(Tracks))
    BY <2>2, WaitingType
  <2>6. TypeInv'
    <3> HIDE DEF s
    <3>1. QED BY <1>2, <1>3, <2>1, <2>2, <2>3, <2>4, <2>5
              DEF RipInv, TypeInv, TypeOK, stateVars, cancelVars
  <2>7. Numbered'
    <3> HIDE DEF s
    <3>1. SUFFICES ASSUME IsFirst', NEW i \in DOMAIN batch'.items
                   PROVE  batch'.index[batch'.items[i]] = i - 1
      BY DEF Numbered
    <3>2. i \in 1..Len(s) /\ Len(s) \in Nat /\ batch'.items[i] = s[i]
      BY <2>3, <2>4
    <3>3. batch.count = 0
      BY <2>3, <2>4, <3>1, <3>2 DEF IsFirst
    <3>4. batch'.index[s[i]] = batch.count + i - 1
      BY <2>3, <3>2
    <3>5. QED BY <3>2, <3>3, <3>4
  <2>8. Reporting'
    BY <1>2, <2>1 DEF Reporting
  <2>9. QED BY <2>6, <2>7, <2>8 DEF RipInv
<1>6. QED BY <1>4, <1>5

(* The steps that leave a batch without having read anything of it.        *)
LEMMA RipAside ==
  ASSUME RipInv, AbortBatch \/ Processed \/ GoIdle \/ FinishChangeState
  PROVE  RipInv'
<1>1. /\ aborting \in BOOLEAN /\ stopping \in BOOLEAN /\ handling \in BOOLEAN
      /\ profile \in BOOLEAN
      /\ {status, device} \subseteq {"idle", "transcode", "cancel"}
      /\ toSet \in {"none", "idle", "transcode"}
      /\ cancelPC \in {"none", "cancel", "idle", "status", "queue"}
  BY DEF RipInv, TypeInv, TypeOK
<1>2. CASE AbortBatch
  BY <1>1, <1>2, BesideKeeps DEF AbortBatch, Beside, BesideTypes, stateVars,
                                 cancelVars, history
<1>3. CASE Processed
  BY <1>1, <1>3, BesideKeeps DEF Processed, Beside, BesideTypes, queueVars,
                                 stateVars, cancelVars, history
<1>4. CASE GoIdle
  <2>1. /\ status' \in {"idle", "transcode", "cancel"}
        /\ toSet' \in {"none", "idle", "transcode"}
    BY <1>1, <1>4, StateTypes DEF GoIdle, RipInv
  <2>2. QED BY <1>1, <1>4, <2>1, BesideKeeps
            DEF GoIdle, Beside, BesideTypes, queueVars, cancelVars, history
<1>5. CASE FinishChangeState
  <2>1. device' \in {"idle", "transcode", "cancel"}
    BY <1>1, <1>5, StateTypes DEF FinishChangeState, RipInv
  <2>2. QED BY <1>1, <1>5, <2>1, BesideKeeps
            DEF FinishChangeState, Beside, BesideTypes, queueVars, threadVars,
                cancelVars, history
<1>6. QED BY <1>2, <1>3, <1>4, <1>5

(* The request thread at the tracks of a batch.                            *)
LEMMA RipLoop ==
  ASSUME RipInv, IInv, BeginBatch \/ AbortLoop \/ NextTrack \/ EndLoop
  PROVE  RipInv'
<1>1. /\ UNCHANGED <<waiting, stopping, handling, batch, job, operation, device,
                     cancelVars, unused, report>>
      /\ toSet = "none" /\ rtPC \in {"check", "loop"} /\ job = "none"
  BY NoJob DEF BeginBatch, AbortLoop, NextTrack, EndLoop, At, queueVars,
               stateVars, history
<1>2. /\ status' \in {"idle", "transcode", "cancel"}
      /\ toSet' \in {"none", "idle", "transcode"}
  <2>1. \/ UNCHANGED <<status, toSet>>
        \/ ChangeState("idle") \/ ChangeState("transcode")
    BY DEF BeginBatch, AbortLoop, NextTrack, EndLoop, stateVars
  <2>2. /\ status \in {"idle", "transcode", "cancel"}
        /\ toSet \in {"none", "idle", "transcode"}
    BY DEF RipInv, TypeInv, TypeOK
  <2>3. QED BY <2>1, <2>2, StateTypes DEF RipInv
<1>3. /\ aborting' \in BOOLEAN /\ profile' \in BOOLEAN
      /\ result' \in {"ok", "failed", "abort"}
  BY DEF BeginBatch, AbortLoop, NextTrack, EndLoop, queueVars, ProfileAtEnd,
         RipInv, TypeInv, TypeOK
<1>4. batch \in BatchRecord /\ batch.items # <<>> /\ Len(batch.items) \in Nat \ {0}
  <2>1. batch \in BatchRecord /\ batch.items # <<>>
    BY <1>1 DEF RipInv, TypeInv
  <2>2. batch.items \in Seq(Tracks)
    BY <2>1 DEF BatchRecord
  <2>3. QED BY <2>1, <2>2
<1>5. /\ next' \in Nat \ {0} /\ rtPC' \in {"loop", "read", "processed"}
      /\ rtPC' \in {"loop", "read"} => next' <= Len(batch.items) + 1
      /\ rtPC' = "read" => next' <= Len(batch.items)
  BY <1>4 DEF BeginBatch, AbortLoop, NextTrack, EndLoop, At, RipInv, TypeInv,
              TypeOK
<1>6. TypeInv'
  BY <1>1, <1>2, <1>3, <1>4, <1>5 DEF RipInv, TypeInv, TypeOK, cancelVars
<1>7. Numbered'
  BY <1>1 DEF RipInv, Numbered, IsFirst
<1>8. Reporting'
  <2> SUFFICES ASSUME ~report.aborted PROVE Reporting'
    BY <1>1 DEF Reporting
  <2>1. CASE BeginBatch
    <3>1. /\ report = NoReport /\ next' = 1 /\ rtPC' = "loop"
          /\ ~Stopping /\ UNCHANGED <<aborting, stopping>>
      BY <2>1 DEF BeginBatch, At, RipInv, Reporting, queueVars
    <3>2. Progress'
      BY <1>1, <1>4, <3>1 DEF Progress, NoReport
    <3>3. QED BY <1>1, <3>1, <3>2 DEF Reporting, Stopping
  <2>2. CASE AbortLoop
    BY <2>2 DEF AbortLoop, At, RipInv, Reporting
  <2>3. CASE NextTrack
    <3>1. /\ rtPC = "loop" /\ rtPC' = "read"
          /\ ~Stopping /\ UNCHANGED <<aborting, stopping, next, result>>
      BY <2>3 DEF NextTrack, At, queueVars
    <3>2. IsFirst => Progress'
      BY <1>1, <3>1 DEF RipInv, Reporting, Progress
    <3>3. QED BY <1>1, <3>1, <3>2 DEF Reporting, Stopping, IsFirst
  <2>4. CASE EndLoop
    <3>1. /\ rtPC = "loop" /\ rtPC' = "processed" /\ next > Len(batch.items)
          /\ UNCHANGED <<aborting, stopping, next, result>>
      BY <2>4 DEF EndLoop, At, queueVars
    <3>2. next # 1
      BY <1>4, <3>1
    <3>3. IsFirst => /\ report.started = 1 /\ report.ended = 1
                     /\ \/ report.ripEnds = 1
                        \/ report.ripEnds = 0 /\ result = "failed"
      BY <3>1, <3>2 DEF RipInv, Reporting, Progress
    <3>4. ~Stopping
      BY <3>1 DEF RipInv, Reporting
    <3>5. QED BY <1>1, <3>1, <3>3, <3>4 DEF Reporting, Stopping, IsFirst
  <2>5. QED BY <2>1, <2>2, <2>3, <2>4
<1>9. QED BY <1>6, <1>7, <1>8 DEF RipInv

(* While a batch is read, the index of a track of a first batch tells its  *)
(* place.                                                                  *)
LEMMA PlaceOfTrack ==
  ASSUME RipInv, rtPC = "read"
  PROVE  /\ next \in 1..Len(batch.items) /\ Len(batch.items) \in Nat
         /\ IsFirst => /\ batch.index[Track] = 0 <=> next = 1
                       /\ IsLast(Track) <=> next = Len(batch.items)
<1>1. batch \in BatchRecord /\ next \in Nat \ {0} /\ next <= Len(batch.items)
  BY DEF RipInv, TypeInv, TypeOK
<1>2. batch.items \in Seq(Tracks)
  BY <1>1 DEF BatchRecord
<1>3. next \in DOMAIN batch.items /\ next \in 1..Len(batch.items)
        /\ Len(batch.items) \in Nat
  BY <1>1, <1>2
<1>4. IsFirst => batch.index[Track] = next - 1
  BY <1>3 DEF RipInv, Numbered, Track
<1>5. QED BY <1>3, <1>4 DEF IsFirst, IsLast

LEMMA RipStart ==
  ASSUME RipInv, StartRead
  PROVE  RipInv'
<1>1. /\ rtPC = "read" /\ job = "none" /\ job' = "running" /\ profile' = TRUE
      /\ UNCHANGED <<queueVars, rtPC, batch, next, result, stateVars,
                     cancelVars, unused>>
      /\ Started
  BY DEF StartRead, At
<1>2. report \in ReportRecord /\ operation \in {"none", "read"}
  BY DEF RipInv, TypeInv, TypeOK
<1>3. /\ operation' \in {"none", "read"} /\ report' \in ReportRecord
      /\ UNCHANGED <<report.ended, report.ripEnds, report.aborted>>
      /\ batch.index[Track] = 0
           => operation' = "read" /\ report'.started = report.started + 1
      /\ batch.index[Track] # 0
           => operation' = operation /\ report'.started = report.started
  BY <1>1, <1>2 DEF Started, ReportRecord
<1>4. TypeInv'
  BY <1>1, <1>3 DEF RipInv, TypeInv, TypeOK, queueVars, stateVars, cancelVars
<1>5. Numbered'
  BY <1>1 DEF RipInv, Numbered, IsFirst
<1>6. Reporting'
  <2> SUFFICES ASSUME ~report.aborted PROVE Reporting'
    BY <1>3 DEF Reporting
  <2>1. ~Stopping /\ (IsFirst => Progress)
    BY <1>1 DEF RipInv, Reporting
  <2>2. ASSUME IsFirst PROVE Progress'
    <3>1. next \in 1..Len(batch.items) /\ (batch.index[Track] = 0 <=> next = 1)
      BY <1>1, <2>2, PlaceOfTrack
    <3>2. ~(next > Len(batch.items))
      BY <3>1
    <3>3. Progress
      BY <2>1, <2>2
    <3>4. report.ended = 0 /\ report.ripEnds = 0
      BY <3>2, <3>3 DEF Progress
    <3>5. report.started + 1 = 1 \/ next # 1
      BY <1>1, <3>3 DEF Progress
    <3>6. next # 1 => report.started = 1 /\ operation = "read"
      BY <3>2, <3>3 DEF Progress
    <3>7. report'.started = 1 /\ operation' = "read"
      BY <1>3, <3>1, <3>5, <3>6
    <3>8. QED BY <1>1, <1>3, <3>2, <3>4, <3>7 DEF Progress
  <2>3. QED BY <1>1, <1>3, <2>1, <2>2 DEF Reporting, Stopping, IsFirst, queueVars
<1>7. QED BY <1>4, <1>5, <1>6 DEF RipInv

(* A read completes: the report and the operation, given those at hand.    *)
LEMMA Completes ==
  ASSUME RipInv, rtPC = "read", NEW op \in {"none", "read"},
         NEW rep \in ReportRecord, NEW ends \in Nat, Completed(op, rep, ends)
  PROVE  /\ operation' \in {"none", "read"} /\ report' \in ReportRecord
         /\ operation' = IF IsLast(Track) THEN "none" ELSE op
         /\ report'.started = rep.started
         /\ report'.ended = IF IsLast(Track) /\ op = "read" THEN rep.ended + 1
                            ELSE rep.ended
         /\ report'.ripEnds = rep.ripEnds + ends
         /\ report'.aborted = rep.aborted
<1>1. operation' = IF IsLast(Track) THEN "none" ELSE op
  BY DEF Completed
<1> DEFINE e == IF IsLast(Track) /\ op = "read" THEN rep.ended + 1 ELSE rep.ended
           r == [rep EXCEPT !.ended = e]
<1>2. e \in Nat /\ rep.ripEnds \in Nat
  BY DEF ReportRecord
<1>3. /\ r \in ReportRecord /\ r.ended = e /\ r.ripEnds = rep.ripEnds
      /\ r.started = rep.started /\ r.aborted = rep.aborted
  <2> HIDE DEF e
  <2>1. QED BY <1>2 DEF ReportRecord
<1>4. report' = [r EXCEPT !.ripEnds = rep.ripEnds + ends]
  BY DEF Completed
<1>5. QED
  <2> HIDE DEF r
  <2>1. QED BY <1>1, <1>2, <1>3, <1>4 DEF ReportRecord

(* What both ways to complete a read have in common.                       *)
LEMMA RipCompletes ==
  ASSUME RipInv, rtPC = "read", toSet = "none",
         NEW op \in {"none", "read"}, NEW rep \in ReportRecord,
         NEW ends \in 0..1, Completed(op, rep, ends),
         UNCHANGED <<queueVars, batch, stateVars, cancelVars, unused>>,
         profile' \in BOOLEAN, result' \in {"ok", "failed"} \/ job = "aborted",
         result' \in {"ok", "failed", "abort"}, job' = "none",
         rep.aborted = report.aborted,
         ~report.aborted /\ IsFirst
           => /\ rep.started = 1 /\ rep.ended = 0 /\ rep.ripEnds = 0
              /\ op = "read"
              /\ IF IsLast(Track) THEN ends = 1 \/ result' = "failed"
                 ELSE ends = 0
  PROVE  RipInv'
<1>1. /\ next' = next + 1 /\ rtPC' = "loop"
      /\ UNCHANGED <<queueVars, batch, stateVars, cancelVars, unused>>
  BY DEF Completed
<1>2. ends \in Nat
  OBVIOUS
<1>3. /\ operation' \in {"none", "read"} /\ report' \in ReportRecord
      /\ operation' = IF IsLast(Track) THEN "none" ELSE op
      /\ report'.started = rep.started
      /\ report'.ended = IF IsLast(Track) /\ op = "read" THEN rep.ended + 1
                         ELSE rep.ended
      /\ report'.ripEnds = rep.ripEnds + ends
      /\ report'.aborted = rep.aborted
  BY <1>2, Completes
<1>4. next \in 1..Len(batch.items) /\ Len(batch.items) \in Nat
  BY PlaceOfTrack
<1>5. TypeInv'
  BY <1>1, <1>3, <1>4 DEF RipInv, TypeInv, TypeOK, queueVars, stateVars,
                          cancelVars
<1>6. Numbered'
  BY <1>1 DEF RipInv, Numbered, IsFirst
<1>7. Reporting'
  <2> SUFFICES ASSUME ~report.aborted PROVE Reporting'
    BY <1>3 DEF Reporting
  <2>1. ~Stopping
    BY DEF RipInv, Reporting
  <2>2. ASSUME IsFirst PROVE Progress'
    <3>1. IsLast(Track) <=> next = Len(batch.items)
      BY <2>2, PlaceOfTrack
    <3>2. next' # 1 /\ (next' > Len(batch.items) <=> next = Len(batch.items))
      BY <1>1, <1>4
    <3>3. /\ report'.started = 1
          /\ report'.ended = IF IsLast(Track) THEN 1 ELSE 0
          /\ report'.ripEnds = ends
      BY <1>3, <2>2
    <3>4. QED BY <1>1, <1>3, <2>2, <3>1, <3>2, <3>3 DEF Progress
  <2>3. QED BY <1>1, <2>1, <2>2 DEF Reporting, Stopping, IsFirst, queueVars
<1>8. QED BY <1>5, <1>6, <1>7 DEF RipInv

LEMMA RipFail ==
  ASSUME RipInv, FailRead
  PROVE  RipInv'
<1> DEFINE op  == IF batch.index[Track] = 0 THEN "read" ELSE operation
           rep == IF batch.index[Track] = 0
                  THEN [report EXCEPT !.started = @ + 1] ELSE report
<1>1. /\ rtPC = "read" /\ toSet = "none" /\ job = "none" /\ job' = "none"
      /\ result' = "failed" /\ profile' \in {profile, TRUE}
      /\ Completed(op, rep, 0)
      /\ UNCHANGED <<queueVars, batch, stateVars, cancelVars, unused>>
  BY DEF FailRead, At
<1>2. report \in ReportRecord /\ operation \in {"none", "read"}
        /\ profile \in BOOLEAN
  BY DEF RipInv, TypeInv, TypeOK
<1>3. /\ op \in {"none", "read"} /\ rep \in ReportRecord
      /\ rep.aborted = report.aborted /\ rep.ended = report.ended
      /\ rep.ripEnds = report.ripEnds
      /\ rep.started = IF batch.index[Track] = 0 THEN report.started + 1
                       ELSE report.started
  BY <1>2 DEF ReportRecord
<1>4. ASSUME ~report.aborted, IsFirst
      PROVE  /\ rep.started = 1 /\ rep.ended = 0 /\ rep.ripEnds = 0
             /\ op = "read"
  <2>1. Progress
    BY <1>1, <1>4 DEF RipInv, Reporting
  <2>2. next \in 1..Len(batch.items) /\ (batch.index[Track] = 0 <=> next = 1)
    BY <1>1, <1>4, PlaceOfTrack
  <2>3. ~(next > Len(batch.items))
    BY <2>2
  <2>4. report.ended = 0 /\ report.ripEnds = 0
    BY <2>1, <2>3 DEF Progress
  <2>5. report.started + 1 = 1 \/ next # 1
    BY <1>1, <2>1 DEF Progress
  <2>6. next # 1 => report.started = 1 /\ operation = "read"
    BY <2>1, <2>3 DEF Progress
  <2>7. QED BY <1>3, <2>2, <2>4, <2>5, <2>6
<1>5. QED
  <2> HIDE DEF op, rep
  <2>1. /\ profile' \in BOOLEAN /\ 0 \in 0..1
        /\ result' \in {"ok", "failed"} /\ result' \in {"ok", "failed", "abort"}
    <3>1. profile' = profile \/ profile' = TRUE
      BY <1>1
    <3>2. profile' \in BOOLEAN
      BY <1>2, <3>1
    <3>3. QED BY <1>1, <3>2
  <2>2. ~report.aborted /\ IsFirst
          => /\ rep.started = 1 /\ rep.ended = 0 /\ rep.ripEnds = 0
             /\ op = "read"
             /\ IF IsLast(Track) THEN 0 = 1 \/ result' = "failed" ELSE 0 = 0
    BY <1>1, <1>4
  <2>3. QED BY <1>1, <1>3, <2>1, <2>2, RipCompletes

LEMMA RipFinish ==
  ASSUME RipInv, FinishRead
  PROVE  RipInv'
<1> DEFINE ends == IF job = "aborted" \/ IsLast(Track) THEN 1 ELSE 0
<1>1. /\ rtPC = "read" /\ toSet = "none" /\ JobIsOver /\ job' = "none"
      /\ Completed(operation, report, ends)
      /\ UNCHANGED <<queueVars, batch, stateVars, cancelVars, unused>>
      /\ profile' = ProfileAfterRead
  BY DEF FinishRead, At
<1>2. /\ result' \in {"ok", "failed", "abort"}
      /\ result' \in {"ok", "failed"} \/ job = "aborted"
  BY DEF FinishRead, JobIsOver
<1>3. report \in ReportRecord /\ operation \in {"none", "read"}
        /\ profile' \in BOOLEAN /\ ends \in 0..1
  BY <1>1 DEF RipInv, TypeInv, TypeOK, ProfileAfterRead
<1>4. ASSUME ~report.aborted, IsFirst
      PROVE  /\ report.started = 1 /\ report.ended = 0 /\ report.ripEnds = 0
             /\ operation = "read"
             /\ IF IsLast(Track) THEN ends = 1 ELSE ends = 0
  <2>1. Progress /\ job # "aborted" /\ job # "none"
    BY <1>1, <1>4 DEF RipInv, Reporting, JobIsOver
  <2>2. next \in 1..Len(batch.items)
    BY <1>1, PlaceOfTrack
  <2>3. ~(next > Len(batch.items))
    BY <2>2
  <2>4. QED BY <2>1, <2>3 DEF Progress
<1>5. QED
  <2> HIDE DEF ends
  <2>1. QED BY <1>1, <1>2, <1>3, <1>4, RipCompletes

(* The transcode job: an abort is only noticed when there is one.          *)
LEMMA RipJob ==
  ASSUME RipInv, IInv, JobAborted \/ JobEnds
  PROVE  RipInv'
<1>1. /\ rtPC = "read" /\ job = "running"
      /\ UNCHANGED <<waiting, stopping, handling, threadVars, operation,
                     stateVars, cancelVars, unused, report>>
  BY DEF JobAborted, JobEnds, IInv, JobIsRead, queueVars, history
<1>2. aborting' \in BOOLEAN /\ job' \in {"aborted", "succeeded", "failed"}
  BY DEF JobAborted, JobEnds, RipInv, TypeInv, TypeOK, queueVars
<1>3. TypeInv'
  BY <1>1, <1>2 DEF RipInv, TypeInv, TypeOK, threadVars, stateVars, cancelVars
<1>4. Numbered'
  BY <1>1 DEF RipInv, Numbered, IsFirst, threadVars
<1>5. CASE JobAborted
  <2>1. report.aborted
    BY <1>1, <1>5 DEF JobAborted, RipInv, Reporting
  <2>2. QED BY <1>1, <1>3, <1>4, <2>1 DEF RipInv, Reporting
<1>6. CASE JobEnds
  <2>1. aborting' = aborting /\ job' \in {"succeeded", "failed"}
    BY <1>6 DEF JobEnds, queueVars
  <2>2. Reporting'
    BY <1>1, <2>1 DEF RipInv, Reporting, Progress, IsFirst, Stopping,
                      threadVars
  <2>3. QED BY <1>3, <1>4, <2>2 DEF RipInv
<1>7. QED BY <1>5, <1>6

-----------------------------------------------------------------------------
LEMMA RipInit == Init => RipInv
<1> SUFFICES ASSUME Init PROVE RipInv
  OBVIOUS
<1>1. batch \in BatchRecord /\ batch.items = <<>>
  BY NewBatchIs DEF Init
<1>2. report \in ReportRecord
  BY DEF Init, NoReport, ReportRecord
<1>3. TypeOK
  <2>1. waiting \in Seq(Seq(Tracks)) /\ next \in Nat \ {0}
    BY DEF Init
  <2>2. QED BY <2>1 DEF Init, TypeOK
<1>4. TypeInv
  BY <1>1, <1>2, <1>3 DEF Init, TypeInv
<1>5. Numbered /\ Reporting
  BY <1>1 DEF Init, Numbered, Reporting
<1>6. QED BY <1>4, <1>5 DEF RipInv

(* Batches, reads and reports keep together.                               *)
THEOREM RipInvariance == Spec => []RipInv
<1>1. Init => RipInv
  BY RipInit
<1>2. IInv /\ RipInv /\ [Next]_vars => RipInv'
  <2> SUFFICES ASSUME IInv, RipInv, [Next]_vars PROVE RipInv'
    OBVIOUS
  <2>1. CASE \E S \in (SUBSET unused) \ {{}} : Submit(S)
    BY <2>1, RipSubmit
  <2>2. CASE CancelBegin \/ CancelStep \/ StopDevice
    BY <2>2, RipUser
  <2>3. CASE RequestThreadStep
    <3>1. CASE StartRun \/ CompleteRequests
      BY <3>1, RipRun
    <3>2. CASE PopBatch
      BY <3>2, RipPop
    <3>3. CASE AbortBatch \/ Processed \/ GoIdle \/ FinishChangeState
      BY <3>3, RipAside
    <3>4. CASE BeginBatch \/ AbortLoop \/ NextTrack \/ EndLoop
      BY <3>4, RipLoop
    <3>5. CASE StartRead
      BY <3>5, RipStart
    <3>6. CASE FailRead
      BY <3>6, RipFail
    <3>7. CASE FinishRead
      BY <3>7, RipFinish
    <3>8. QED BY <2>3, <3>1, <3>2, <3>3, <3>4, <3>5, <3>6, <3>7
              DEF RequestThreadStep
  <2>4. CASE JobStep
    BY <2>4, RipJob DEF JobStep
  <2>5. CASE UNCHANGED vars
    <3>1. UNCHANGED <<waiting, aborting, stopping, handling, rtPC, batch, next,
                      result, profile, job, operation, status, device, toSet,
                      cancelPC, unused, report>>
      BY <2>5 DEF vars, queueVars, threadVars, stateVars, cancelVars, history
    <3>2. TypeInv'
      BY <3>1 DEF RipInv, TypeInv, TypeOK
    <3>3. Numbered' /\ Reporting'
      BY <3>1 DEF RipInv, Numbered, Reporting, Progress, IsFirst, Stopping
    <3>4. QED BY <3>2, <3>3 DEF RipInv
  <2>6. QED BY <2>1, <2>2, <2>3, <2>4, <2>5 DEF Next
<1>3. QED BY <1>1, <1>2, Invariance, PTL DEF Spec

(* Every variable keeps its type; the request thread never looks past the  *)
(* end of its batch by more than one place.                                *)
THEOREM TypeCorrect == Spec => []TypeOK
<1>1. RipInv => TypeOK
  BY DEF RipInv, TypeInv
<1>2. QED BY <1>1, RipInvariance, PTL

(* A first batch that nobody aborted is bracketed by one start and one end *)
(* event, and followed by one HandleRipEnd unless its last track failed    *)
(* before it was transcoded; however long it is, and whichever of its      *)
(* tracks fail.                                                            *)
THEOREM RipReported == Spec => []BatchReported
<1>1. RipInv => BatchReported
  BY DEF RipInv, Reporting, IsFirst, BatchReported, At
<1>2. QED BY <1>1, RipInvariance, PTL

=============================================================================
