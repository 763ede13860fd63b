------------------------ MODULE MetadataCrashProofs -------------------------
(***************************************************************************)
(* Proofs about the crash tracker within MetadataService, for any number   *)
(* of jobs, files, slots and deaths of the process. CrashInv is inductive: *)
(* a group of lemmas says what each kind of step does to the log and to    *)
(* the items in handlers, each action has a lemma on CrashInv, NextCrash   *)
(* puts them together, and the theorems at the end read type correctness   *)
(* and CrashersAreAvoided off CrashInv.                                    *)
(***************************************************************************)
EXTENDS MetadataService, TLAPS, FiniteSetTheorems

(* A handler is of one of the two processors.                              *)
LEMMA HandlersType ==
  ASSUME NEW f \in Files, NEW n \in Nat \ {0}, n <= Len(HandlersOf[f])
  PROVE  HandlersOf[f][n] \in {"main", "background"}
BY MetadataAssumption

(* Putting an item into a list keeps a job a job.                          *)
LEMMA ListedType ==
  ASSUME NEW job \in JobRecord, NEW f \in Files
  PROVE  Listed(job, f) \in JobRecord
BY DEF JobRecord, Listed

(* Queueing an item again keeps a job a job.                               *)
LEMMA AgainType ==
  ASSUME NEW job \in JobRecord, NEW f \in Files
  PROVE  Again(job, f) \in JobRecord
<1>1. [job EXCEPT !.attempt[f] = @ + 1] \in JobRecord
  BY DEF JobRecord
<1>2. Listed([job EXCEPT !.attempt[f] = @ + 1], f) \in JobRecord
  BY <1>1, ListedType
<1>3. ASSUME NEW r \in JobRecord
      PROVE [r EXCEPT !.total = @ + 1] \in JobRecord
  BY DEF JobRecord
<1>4. QED BY <1>2, <1>3 DEF Again

(* Handling a processed item keeps a job a job.                            *)
LEMMA HandledType ==
  ASSUME NEW j \in Jobs, NEW job \in JobRecord, NEW f \in Files,
         NEW result \in Results \cup {"none"}, NEW restarted \in BOOLEAN
  PROVE  Handled(j, job, f, result, restarted) \in JobRecord
<1> DEFINE counted == [job EXCEPT !.completed = @ + 1]
<1>1. counted \in JobRecord
  BY DEF JobRecord
<1>2. [counted EXCEPT !.done = @ \cup {f}] \in JobRecord
  BY <1>1 DEF JobRecord
<1>3. Failed(counted, f) \in JobRecord
  BY <1>1 DEF JobRecord, Failed
<1>4. Again(counted, f) \in JobRecord
  BY <1>1, AgainType
<1>5. Failed(Again(counted, f), f) \in JobRecord
  BY <1>4 DEF JobRecord, Failed
<1>6. QED BY <1>2, <1>3, <1>4, <1>5 DEF Handled

(* Ending a job keeps it a job.                                            *)
LEMMA ProgressedType ==
  ASSUME NEW job \in JobRecord
  PROVE  Progressed(job) \in JobRecord
BY DEF JobRecord, Progressed, Statuses

(* Cancelling a job keeps it a job.                                        *)
LEMMA CancelledType ==
  ASSUME NEW job \in JobRecord
  PROVE  Cancelled(job) \in JobRecord
<1>1. [job EXCEPT !.main = {}, !.background = {}, !.processed = {},
                  !.status = "failed"] \in JobRecord
  BY DEF JobRecord, Statuses
<1>2. QED BY <1>1, ProgressedType DEF Cancelled

(* A job that is not started yet is a job.                                 *)
LEMMA NewJobType == NewJob \in JobRecord
BY DEF NewJob, JobRecord, Statuses

(* A job that has been given media items is a job.                         *)
LEMMA MediaItemsType ==
  ASSUME NEW fs \in SUBSET Files
  PROVE  MediaItems(fs) \in JobRecord
<1> DEFINE bad == {f \in fs : ~HasHandler(f)}
           on(where) == {f \in fs \ bad : HandlersOf[f][1] = where}
<1>1. Cardinality(fs) \in Nat /\ Cardinality(bad) \in Nat
  BY MetadataAssumption, FS_Subset, FS_CardinalityType
<1>2. [NewJob EXCEPT !.status = "running",
                    !.main = on("main"), !.background = on("background"),
                    !.total = Cardinality(fs),
                    !.completed = Cardinality(bad),
                    !.errors = bad] \in JobRecord
  BY <1>1, NewJobType DEF JobRecord, Statuses
<1>3. QED BY <1>2 DEF MediaItems

(* ReadTracker blacklists the suspects of the last session; a blacklist on *)
(* the disk that is to be rewritten is empty at first.                     *)
LEMMA ReadEffect ==
  ASSUME NEW t \in Tracker
  PROVE  LET r == ReadTracker(t) IN
         /\ r \in Tracker
         /\ r.ready = t.ready /\ r.open = t.open /\ r.known = t.known
         /\ r.log = t.log
         /\ r.blacklist = t.blacklistFile \cup Suspects(t)
BY DEF Tracker, ReadTracker, Suspects

(* Writing a URL to the blacklist on the disk does that alone.             *)
LEMMA WriteEffect ==
  ASSUME NEW t \in Tracker, NEW f \in Files
  PROVE  LET r == WriteBlacklistURL(t, f) IN
         /\ r \in Tracker
         /\ r.ready = t.ready /\ r.open = t.open /\ r.known = t.known
         /\ r.log = t.log /\ r.blacklist = t.blacklist
BY DEF Tracker, WriteBlacklistURL

(* At the end of its Init the tracker is ready, and the old log is gone.   *)
LEMMA ProcessedEffect ==
  ASSUME NEW t \in Tracker
  PROVE  LET r == LogProcessed(t) IN
         /\ r \in Tracker
         /\ r.ready /\ r.open = t.open /\ r.known = t.known
         /\ r.blacklist = t.blacklist /\ r.blacklistFile = t.blacklistFile
BY DEF Tracker, LogProcessed, EmptyLog

(* LogURLBegin when the log is open.                                       *)
LEMMA BeginOpen ==
  ASSUME NEW s \in Tracker, NEW f \in Files
  PROVE  LET r == [s EXCEPT !.log[f] = @ + 1, !.known = @ \cup {f}] IN
         /\ r \in Tracker
         /\ r.ready = s.ready /\ r.open = s.open
         /\ r.known = s.known \cup {f}
         /\ r.blacklist = s.blacklist
         /\ r.blacklistFile = s.blacklistFile
         /\ r.log[f] = s.log[f] + 1
         /\ \A g \in Files \ {f} : r.log[g] = s.log[g]
<1>1. [s.log EXCEPT ![f] = @ + 1] \in [Files -> Nat]
  BY DEF Tracker
<1>2. QED BY <1>1 DEF Tracker

(* LogURLBegin opens the log, if need be, and adds a begin of f; the       *)
(* blacklist stays.                                                        *)
LEMMA BeginEffect ==
  ASSUME NEW t \in Tracker, NEW f \in Files
  PROVE  LET r == LogURLBegin(t, f) IN
         /\ r \in Tracker
         /\ r.ready = t.ready /\ r.open /\ r.known = t.known \cup {f}
         /\ r.blacklist = t.blacklist /\ r.blacklistFile = t.blacklistFile
         /\ r.log[f] = (IF t.open THEN t.log[f] ELSE 0) + 1
         /\ \A g \in Files \ {f} :
              r.log[g] = IF t.open THEN t.log[g] ELSE 0
<1>2. LET s == StartLog(t) IN
      /\ s \in Tracker
      /\ s.ready = t.ready /\ s.open /\ s.known = t.known
      /\ s.blacklist = t.blacklist /\ s.blacklistFile = t.blacklistFile
      /\ \A g \in Files : s.log[g] = 0
  BY DEF Tracker, StartLog, EmptyLog
<1>3. CASE t.open
  <2> DEFINE r == [t EXCEPT !.log[f] = @ + 1, !.known = @ \cup {f}]
  <2>1. /\ r \in Tracker
        /\ r.ready = t.ready /\ r.open = t.open
        /\ r.known = t.known \cup {f}
        /\ r.blacklist = t.blacklist /\ r.blacklistFile = t.blacklistFile
        /\ r.log[f] = t.log[f] + 1
        /\ \A g \in Files \ {f} : r.log[g] = t.log[g]
    BY BeginOpen
  <2>2. r = LogURLBegin(t, f)
    BY <1>3 DEF LogURLBegin
  <2> HIDE DEF r
  <2>3. QED BY <1>3, <2>1, <2>2
<1>4. CASE ~t.open
  <2> DEFINE s == StartLog(t)
  <2>1. /\ s \in Tracker
        /\ s.ready = t.ready /\ s.open /\ s.known = t.known
        /\ s.blacklist = t.blacklist /\ s.blacklistFile = t.blacklistFile
        /\ \A g \in Files : s.log[g] = 0
    BY <1>2
  <2>2. LogURLBegin(t, f) = [s EXCEPT !.log[f] = @ + 1, !.known = @ \cup {f}]
    BY <1>4 DEF LogURLBegin
  <2> HIDE DEF s
  <2> DEFINE r == [s EXCEPT !.log[f] = @ + 1, !.known = @ \cup {f}]
  <2>3. /\ r \in Tracker
        /\ r.ready = s.ready /\ r.open = s.open
        /\ r.known = s.known \cup {f}
        /\ r.blacklist = s.blacklist /\ r.blacklistFile = s.blacklistFile
        /\ r.log[f] = s.log[f] + 1
        /\ \A g \in Files \ {f} : r.log[g] = s.log[g]
    BY ZenonT(40), <2>1, BeginOpen
  <2>4. r = LogURLBegin(t, f)
    BY <2>2
  <2> HIDE DEF r
  <2>5. QED BY <1>4, <2>1, <2>3, <2>4
<1>5. QED BY <1>3, <1>4

(* LogURLEnd adds an end of a file that is known, and no more.             *)
LEMMA EndEffect ==
  ASSUME NEW t \in Tracker, NEW f \in Files, t.known \subseteq Suspects(t)
  PROVE  LET r == LogURLEnd(t, f) IN
         /\ r \in Tracker
         /\ r.ready = t.ready /\ r.open = t.open
         /\ r.known = IF t.open THEN t.known \ {f} ELSE t.known
         /\ r.blacklist = t.blacklist /\ r.blacklistFile = t.blacklistFile
         /\ \A g \in Files \ {f} : r.log[g] = t.log[g]
         /\ r.log[f] = IF t.open /\ f \in t.known THEN t.log[f] - 1
                                                  ELSE t.log[f]
<1>1. CASE t.open /\ f \in t.known
  <2>1. t.log[f] - 1 \in Nat /\ t.log \in [Files -> Nat]
    BY <1>1 DEF Suspects, Tracker
  <2>2. [t.log EXCEPT ![f] = @ - 1] \in [Files -> Nat]
    BY <2>1
  <2>3. QED BY <1>1, <2>1, <2>2 DEF LogURLEnd, Tracker
<1>2. CASE ~(t.open /\ f \in t.known)
  BY <1>2 DEF LogURLEnd, Tracker
<1>3. QED BY <1>1, <1>2

(* ResetLog empties the log and forgets every URL.                         *)
LEMMA ResetEffect ==
  ASSUME NEW t \in Tracker
  PROVE  LET r == ResetLog(t) IN
         /\ r \in Tracker
         /\ r.ready = t.ready /\ ~r.open /\ r.known = {}
         /\ r.blacklist = t.blacklist /\ r.blacklistFile = t.blacklistFile
BY DEF Tracker, ResetLog, EmptyLog

(* What a new process finds of the tracker: its two files.                 *)
LEMMA OnDiskEffect ==
  ASSUME NEW t \in Tracker
  PROVE  LET r == OnDisk(t) IN
         /\ r \in Tracker
         /\ ~r.ready /\ ~r.open /\ r.known = {}
         /\ r.log = t.log /\ r.blacklistFile = t.blacklistFile
BY DEF Tracker, OnDisk, NewTracker, EmptyLog

(* A file is in a handler when an item at some place is its.               *)
LEMMA InHandlerFiles ==
  \A f : f \in FilesInHandler <=>
    \E p \in Places : At(p) # None /\ At(p).file = f
BY DEF FilesInHandler, InHandler

(* InHandlerFiles, after the step.                                         *)
LEMMA InHandlerFilesNext ==
  \A f : f \in FilesInHandler' <=>
    \E p \in Places : At(p)' # None /\ At(p)'.file = f
BY DEF FilesInHandler, InHandler

(* What is at a place is an item.                                          *)
LEMMA AtType ==
  ASSUME TypeOK, NEW p \in Places, At(p) # None
  PROVE  At(p) \in Items /\ At(p).file \in Files
BY DEF TypeOK, MainType, ThreadType, ThreadRecord, Items, At

(* While something runs, the tracker is ready or the service shut down.    *)
LEMMA Working ==
  ASSUME CrashInv,
         \/ tracker.ready \/ main.notify # 0 \/ main.start = "thread"
         \/ thread.pc # "none" \/ processor.running \/ processor.exists
         \/ processor.events # 0 \/ \E k \in Slots : slots[k] # None
  PROVE  /\ tracker.ready \/ service.shutdown = "done"
         /\ main.start # "tracker"
BY DEF CrashInv, Unready

(* A step that starts nothing while the tracker is not ready keeps         *)
(* Unready.                                                                *)
LEMMA UnreadyKept ==
  ASSUME CrashInv, tracker'.ready = tracker.ready,
         service'.shutdown = service.shutdown,
         main'.start = main.start \/ main'.start = "no",
         \/ tracker.ready \/ service.shutdown = "done"
         \/ /\ UNCHANGED <<thread, slots, processor>>
            /\ main'.notify = main.notify
  PROVE  Unready'
BY DEF CrashInv, Unready

(* A step that begins no file and leaves the tracker alone keeps the crash *)
(* part of the invariant.                                                  *)
LEMMA SameHandlers ==
  ASSUME CrashInv, UNCHANGED <<tracker, crashed, forgotten>>,
         main'.start = "tracker" <=> main.start = "tracker",
         \A p \in Places :
           /\ At(p)' # None => At(p) # None /\ At(p)'.file = At(p).file
  PROVE  LogAgrees' /\ Logged' /\ Remembered' /\ CrashersAreAvoided'
<1>. USE DEF CrashInv
<1>1. LogAgrees'
  BY DEF LogAgrees, Suspects
<1>2. Logged'
  BY DEF Logged, Suspects
<1>3. Remembered'
  BY DEF Remembered, Suspects
<1>4. CrashersAreAvoided'
  BY InHandlerFiles, InHandlerFilesNext DEF CrashersAreAvoided
<1>5. QED BY <1>1, <1>2, <1>3, <1>4

(* So does a step that logs the begin of a file and puts it at a place     *)
(* that was free.                                                          *)
LEMMA HandlerBegins ==
  ASSUME CrashInv, UNCHANGED <<crashed, forgotten>>,
         main'.start = "tracker" <=> main.start = "tracker",
         NEW p \in Places, NEW f \in Files \ tracker.blacklist,
         tracker.ready, tracker' = LogURLBegin(tracker, f),
         At(p)' # None, At(p)'.file = f,
         \A q \in Places \ {p} :
           At(q)' # None => At(q) # None /\ At(q)'.file = At(q).file
  PROVE  LogAgrees' /\ Logged' /\ Remembered' /\ CrashersAreAvoided'
<1>. USE DEF CrashInv
<1>1. tracker \in Tracker
  BY DEF TypeOK, ServiceType
<1>2. /\ tracker' \in Tracker
      /\ tracker'.ready /\ tracker'.open /\ tracker'.known = tracker.known
            \cup {f}
      /\ tracker'.blacklist = tracker.blacklist
      /\ tracker'.blacklistFile = tracker.blacklistFile
      /\ tracker'.log[f] = (IF tracker.open THEN tracker.log[f] ELSE 0) + 1
      /\ \A g \in Files \ {f} :
           tracker'.log[g] = IF tracker.open THEN tracker.log[g] ELSE 0
  BY <1>1, BeginEffect
<1>3. tracker.log \in [Files -> Nat] /\ tracker.known \subseteq Files
  BY <1>1 DEF Tracker
<1>4. LogAgrees'
  BY <1>2, <1>3 DEF LogAgrees, Suspects
<1>5. Logged'
  <2>1. \A q \in Places : At(q) # None => At(q).file \in Files
    BY AtType
  <2>2. \A q \in Places : At(q)' # None /\ At(q)'.file \notin forgotten =>
          /\ At(q)'.file \in Files /\ At(q)'.file \notin tracker.blacklist
          /\ tracker'.log[At(q)'.file] > 0
    BY <1>2, <1>3, <2>1 DEF Logged, Suspects
  <2>3. ASSUME NEW q \in Places, NEW r \in Places \ {q},
               At(q)' # None, At(q)'.file \notin forgotten,
               At(r)' # None, At(r)'.file = At(q)'.file,
               At(q)'.file \in tracker'.known
        PROVE  tracker'.log[At(q)'.file] >= 2
    <3>1. CASE At(q)'.file = f
      <4>1. PICK s \in Places \ {p} : s = q \/ s = r
        OBVIOUS
      <4>2. At(s) # None /\ At(s).file = f
        BY <2>3, <3>1, <4>1
      <4>3. tracker.open /\ tracker.log[f] > 0
        BY <2>3, <3>1, <4>2 DEF Logged, Suspects
      <4>4. QED BY <1>2, <1>3, <3>1, <4>3
    <3>2. CASE At(q)'.file # f
      BY <1>2, <1>3, <2>1, <2>3, <3>2 DEF Logged
    <3>3. QED BY <3>1, <3>2
  <2>4. QED BY <1>2, <2>2, <2>3 DEF Logged, Suspects
<1>6. Remembered'
  BY <1>2 DEF Remembered
<1>7. CrashersAreAvoided'
  BY <1>2, InHandlerFiles, InHandlerFilesNext
    DEF CrashersAreAvoided, Remembered
<1>8. QED BY <1>4, <1>5, <1>6, <1>7

(* So does a step that logs the end of the file at a place and frees it.   *)
LEMMA HandlerEnds ==
  ASSUME CrashInv, UNCHANGED <<crashed, forgotten>>,
         main'.start = "tracker" <=> main.start = "tracker",
         NEW p \in Places, At(p) # None, At(p)' = None,
         tracker' = Ended(At(p).file),
         \A q \in Places \ {p} :
           At(q)' # None => At(q) # None /\ At(q)'.file = At(q).file
  PROVE  /\ LogAgrees' /\ Logged' /\ Remembered' /\ CrashersAreAvoided'
         /\ tracker' \in Tracker /\ tracker'.ready = tracker.ready
<1>. USE DEF CrashInv
<1> DEFINE f == At(p).file
<1>1. tracker \in Tracker /\ f \in Files
  BY AtType DEF TypeOK, ServiceType
<1>a. CASE ~tracker.ready
  <2>1. tracker' = tracker
    BY <1>a DEF Ended
  <2>2. \A q \in Places :
          At(q)' # None => At(q) # None /\ At(q)'.file = At(q).file
    OBVIOUS
  <2>3. QED BY <1>1, <2>1, <2>2, SameHandlers
<1>b. CASE tracker.ready
  <2>1. tracker.known \subseteq Suspects(tracker)
    BY DEF LogAgrees
  <2>2. /\ tracker' \in Tracker
        /\ tracker'.ready = tracker.ready /\ tracker'.open = tracker.open
        /\ tracker'.known = IF tracker.open THEN tracker.known \ {f}
                                            ELSE tracker.known
        /\ tracker'.blacklist = tracker.blacklist
        /\ tracker'.blacklistFile = tracker.blacklistFile
        /\ \A g \in Files \ {f} : tracker'.log[g] = tracker.log[g]
        /\ tracker'.log[f] = IF tracker.open /\ f \in tracker.known
                               THEN tracker.log[f] - 1 ELSE tracker.log[f]
    BY ZenonT(40), <1>1, <1>b, <2>1, EndEffect DEF Ended
  <2>3. tracker.log \in [Files -> Nat] /\ tracker.known \subseteq Files
    BY <1>1 DEF Tracker
  <2>4. LogAgrees'
    BY <1>b, <2>2, <2>3 DEF LogAgrees, Suspects
  <2>5. Logged'
    <3>1. \A q \in Places : At(q) # None => At(q).file \in Files
      BY AtType
    <3>2. ASSUME NEW q \in Places, At(q)' # None,
                 At(q)'.file \notin forgotten
          PROVE  /\ At(q)'.file \in Files
                 /\ At(q)'.file \notin tracker.blacklist
                 /\ tracker'.log[At(q)'.file] > 0 /\ tracker.open
      <4>1. q # p /\ At(q) # None /\ At(q).file = At(q)'.file
        BY <3>2
      <4>2. CASE At(q).file = f
        BY <1>1, <2>2, <2>3, <3>1, <3>2, <4>1, <4>2 DEF Logged, Suspects
      <4>3. CASE At(q).file # f
        BY <1>1, <2>2, <2>3, <3>1, <3>2, <4>1, <4>3 DEF Logged, Suspects
      <4>4. QED BY <4>2, <4>3
    <3>3. ASSUME NEW q \in Places, NEW r \in Places \ {q},
                 At(q)' # None, At(q)'.file \notin forgotten,
                 At(r)' # None, At(r)'.file = At(q)'.file,
                 At(q)'.file \in tracker'.known
          PROVE  tracker'.log[At(q)'.file] >= 2
      <4>1. /\ q # p /\ At(q) # None /\ At(q).file = At(q)'.file
            /\ r # p /\ At(r) # None /\ At(r).file = At(r)'.file
        BY <3>3
      <4>2. tracker.open /\ At(q).file # f
        BY <1>1, <2>2, <3>3, <4>1 DEF Logged
      <4>3. QED BY <2>2, <2>3, <3>1, <3>3, <4>1, <4>2 DEF Logged
    <3>4. QED BY <2>2, <3>2, <3>3 DEF Logged, Suspects
  <2>6. Remembered'
    BY <1>b, <2>2 DEF Remembered
  <2>7. CrashersAreAvoided'
    BY InHandlerFiles, InHandlerFilesNext DEF CrashersAreAvoided
  <2>8. QED BY <2>2, <2>4, <2>5, <2>6, <2>7
<1>c. QED BY <1>a, <1>b

(* So does a step that logs the end of a blacklisted file, which is in no  *)
(* handler.                                                                *)
LEMMA HandlerSkips ==
  ASSUME CrashInv, UNCHANGED <<crashed, forgotten>>,
         main'.start = "tracker" <=> main.start = "tracker",
         NEW f \in Files, f \in tracker.blacklist, tracker' = Ended(f),
         \A q \in Places :
           At(q)' # None => At(q) # None /\ At(q)'.file = At(q).file
  PROVE  /\ LogAgrees' /\ Logged' /\ Remembered' /\ CrashersAreAvoided'
         /\ tracker' \in Tracker /\ tracker'.ready = tracker.ready
<1>. USE DEF CrashInv
<1>1. tracker \in Tracker
  BY DEF TypeOK, ServiceType
<1>2. CASE ~tracker.ready
  <2>1. tracker' = tracker
    BY <1>2 DEF Ended
  <2>2. QED BY <1>1, <2>1, SameHandlers
<1>3. CASE tracker.ready
  <2>1. tracker.known \subseteq Suspects(tracker)
    BY DEF LogAgrees
  <2>2. /\ tracker' \in Tracker
        /\ tracker'.ready = tracker.ready /\ tracker'.open = tracker.open
        /\ tracker'.known = IF tracker.open THEN tracker.known \ {f}
                                            ELSE tracker.known
        /\ tracker'.blacklist = tracker.blacklist
        /\ tracker'.blacklistFile = tracker.blacklistFile
        /\ \A g \in Files \ {f} : tracker'.log[g] = tracker.log[g]
        /\ tracker'.log[f] = IF tracker.open /\ f \in tracker.known
                               THEN tracker.log[f] - 1 ELSE tracker.log[f]
    BY ZenonT(40), <1>1, <1>3, <2>1, EndEffect DEF Ended
  <2>3. tracker.log \in [Files -> Nat] /\ tracker.known \subseteq Files
    BY <1>1 DEF Tracker
  <2>4. LogAgrees'
    BY <1>3, <2>2, <2>3 DEF LogAgrees, Suspects
  <2>5. Logged'
    <3>1. \A q \in Places : At(q) # None => At(q).file \in Files
      BY AtType
    <3>2. \A q \in Places : At(q) # None /\ At(q).file \notin forgotten
            => At(q).file # f
      BY DEF Logged
    <3>3. QED BY <2>2, <2>3, <3>1, <3>2 DEF Logged, Suspects
  <2>6. Remembered'
    BY <1>3, <2>2 DEF Remembered
  <2>7. CrashersAreAvoided'
    BY InHandlerFiles, InHandlerFilesNext DEF CrashersAreAvoided
  <2>8. QED BY <2>2, <2>4, <2>5, <2>6, <2>7
<1>4. QED BY <1>2, <1>3

(* So does a step that logs the begin and the end of a file that no        *)
(* handler takes.                                                          *)
LEMMA HandlerRefused ==
  ASSUME CrashInv, UNCHANGED <<crashed, forgotten>>,
         main'.start = "tracker" <=> main.start = "tracker",
         NEW f \in Files \ tracker.blacklist, tracker.ready,
         tracker' = LogURLEnd(LogURLBegin(tracker, f), f),
         \A q \in Places :
           At(q)' # None => At(q) # None /\ At(q)'.file = At(q).file
  PROVE  /\ LogAgrees' /\ Logged' /\ Remembered' /\ CrashersAreAvoided'
         /\ tracker' \in Tracker /\ tracker'.ready
<1>. USE DEF CrashInv
<1> DEFINE b == LogURLBegin(tracker, f)
<1>1. tracker \in Tracker
  BY DEF TypeOK, ServiceType
<1>2. tracker.log \in [Files -> Nat] /\ tracker.known \subseteq Files
  BY <1>1 DEF Tracker
<1>3. /\ b \in Tracker
      /\ b.ready /\ b.open /\ b.known = tracker.known \cup {f}
      /\ b.blacklist = tracker.blacklist
      /\ b.blacklistFile = tracker.blacklistFile
      /\ b.log[f] = (IF tracker.open THEN tracker.log[f] ELSE 0) + 1
      /\ \A g \in Files \ {f} :
           b.log[g] = IF tracker.open THEN tracker.log[g] ELSE 0
  BY <1>1, BeginEffect
<1> HIDE DEF b
<1>4. b.known \subseteq Suspects(b)
  BY <1>2, <1>3 DEF LogAgrees, Suspects
<1>5. /\ tracker' \in Tracker
      /\ tracker'.ready /\ tracker'.open
      /\ tracker'.known = b.known \ {f}
      /\ tracker'.blacklist = b.blacklist
      /\ tracker'.blacklistFile = b.blacklistFile
      /\ \A g \in Files \ {f} : tracker'.log[g] = b.log[g]
      /\ tracker'.log[f] = b.log[f] - 1
  <2>1. tracker' = LogURLEnd(b, f)
    BY DEF b
  <2>2. LET r == LogURLEnd(b, f) IN
        /\ r \in Tracker
        /\ r.ready = b.ready /\ r.open = b.open
        /\ r.known = IF b.open THEN b.known \ {f} ELSE b.known
        /\ r.blacklist = b.blacklist /\ r.blacklistFile = b.blacklistFile
        /\ \A g \in Files \ {f} : r.log[g] = b.log[g]
        /\ r.log[f] = IF b.open /\ f \in b.known THEN b.log[f] - 1
                                                 ELSE b.log[f]
    BY <1>3, <1>4, EndEffect
  <2>3. b.open /\ f \in b.known
    BY <1>3
  <2>4. QED BY <1>3, <2>1, <2>2, <2>3
<1>6. LogAgrees'
  BY <1>2, <1>3, <1>5 DEF LogAgrees, Suspects
<1>7. \A q \in Places : At(q) # None => At(q).file \in Files
  BY AtType
<1>8. Logged'
  <2>1. ASSUME NEW q \in Places, At(q)' # None, At(q)'.file \notin forgotten
        PROVE  /\ At(q)'.file \in Files
               /\ At(q)'.file \notin tracker.blacklist
               /\ tracker'.log[At(q)'.file] = tracker.log[At(q).file]
               /\ tracker.log[At(q).file] > 0
               /\ At(q)'.file \in tracker'.known
                     => At(q).file \in tracker.known
    BY <1>2, <1>3, <1>5, <1>7, <2>1 DEF Logged, Suspects
  <2>2. ASSUME NEW q \in Places, NEW r \in Places \ {q},
               At(q)' # None, At(q)'.file \notin forgotten,
               At(r)' # None, At(r)'.file = At(q)'.file,
               At(q)'.file \in tracker'.known
        PROVE  tracker'.log[At(q)'.file] >= 2
    BY <2>1, <2>2 DEF Logged
  <2>3. QED BY <1>3, <1>5, <2>1, <2>2 DEF Logged, Suspects
<1>9. Remembered'
  BY <1>3, <1>5 DEF Remembered
<1>10. CrashersAreAvoided'
  BY InHandlerFiles, InHandlerFilesNext DEF CrashersAreAvoided
<1>11. QED BY <1>5, <1>6, <1>8, <1>9, <1>10

(* So does a step that resets the log: every file that is in a handler is  *)
(* forgotten from then on.                                                 *)
LEMMA LogIsReset ==
  ASSUME CrashInv, UNCHANGED crashed, NEW ready \in BOOLEAN, tracker.ready,
         main.start # "tracker", main'.start # "tracker",
         tracker' = [ResetLog(tracker) EXCEPT !.ready = ready],
         forgotten' = forgotten \cup FilesInHandler,
         \A q \in Places :
           At(q)' # None => At(q) # None /\ At(q)'.file = At(q).file
  PROVE  /\ LogAgrees' /\ Logged' /\ Remembered' /\ CrashersAreAvoided'
         /\ tracker' \in Tracker
<1>. USE DEF CrashInv
<1>1. tracker \in Tracker
  BY DEF TypeOK, ServiceType
<1>2. /\ tracker' \in Tracker
      /\ tracker'.ready = ready /\ ~tracker'.open /\ tracker'.known = {}
      /\ tracker'.blacklist = tracker.blacklist
      /\ tracker'.blacklistFile = tracker.blacklistFile
  <2>1. ASSUME NEW t \in Tracker
        PROVE  LET r == [t EXCEPT !.ready = ready] IN
               /\ r \in Tracker
               /\ r.ready = ready /\ r.open = t.open /\ r.known = t.known
               /\ r.blacklist = t.blacklist
               /\ r.blacklistFile = t.blacklistFile
    BY DEF Tracker
  <2>2. QED BY <1>1, <2>1, ResetEffect
<1>3. LogAgrees'
  BY <1>2 DEF LogAgrees
<1>4. Logged'
  BY InHandlerFiles DEF Logged
<1>5. Remembered'
  BY <1>2 DEF Remembered
<1>6. CrashersAreAvoided'
  BY InHandlerFiles, InHandlerFilesNext DEF CrashersAreAvoided
<1>7. QED BY <1>2, <1>3, <1>4, <1>5, <1>6

(* Putting a processed item keeps the types of what it changes.            *)
LEMMA PutOnMainType ==
  ASSUME TypeOK, NEW given \in [Jobs -> JobRecord], NEW j \in Jobs,
         NEW f \in Files, NEW result \in Results, NEW m \in MainRecord,
         PutOnMain(given, j, f, result, m)
  PROVE  /\ jobs' \in [Jobs -> JobRecord]
         /\ processor' \in ProcessorRecord /\ main' \in MainRecord
         /\ main'.job = m.job /\ main'.items = m.items
         /\ main'.start = m.start
         /\ ~processor.exists => main' = m /\ UNCHANGED processor
<1> DEFINE again == result # "ok" /\ Retried(j, given[j], f)
           starts == again /\ processor.exists
<1>1. starts \in BOOLEAN /\ result \in Results \cup {"none"}
  BY DEF TypeOK, MainType, ProcessorRecord
<1>2. Handled(j, given[j], f, result, starts) \in JobRecord
  BY <1>1, HandledType
<1>3. jobs' = given
        \/ jobs' = [given EXCEPT ![j] = Handled(j, @, f, result, starts)]
  BY DEF PutOnMain
<1>4. jobs' \in [Jobs -> JobRecord]
  BY <1>2, <1>3
<1>5. processor' = processor
        \/ processor' = [processor EXCEPT !.running = TRUE, !.events = @ + 1]
  BY DEF PutOnMain
<1>6. processor' \in ProcessorRecord
  <2>1. processor \in ProcessorRecord
    BY DEF TypeOK, MainType
  <2>2. [processor EXCEPT !.running = TRUE, !.events = @ + 1]
          \in ProcessorRecord
    <3> DEFINE n == processor.events + 1
    <3>1. n \in Nat
      BY <2>1 DEF ProcessorRecord
    <3> HIDE DEF n
    <3>2. [[processor EXCEPT !.running = TRUE] EXCEPT !.events = n]
            \in ProcessorRecord
      BY <2>1, <3>1 DEF ProcessorRecord
    <3>3. QED BY <3>2 DEF n
  <2>3. QED BY <1>5, <2>1, <2>2
<1>7. main' = m \/ main' = [m EXCEPT !.notify = 1, !.finished = TRUE]
  BY DEF PutOnMain
<1>8. main' \in MainRecord
  <2>1. 1 \in 0..(ActiveHandlers + 1)
    BY MetadataAssumption
  <2>2. [m EXCEPT !.notify = 1, !.finished = TRUE] \in MainRecord
    BY <2>1 DEF MainRecord
  <2>3. QED BY <1>7, <2>2
<1>9. main'.job = m.job /\ main'.items = m.items /\ main'.start = m.start
  BY <1>7 DEF MainRecord
<1>10. ~processor.exists => main' = m /\ UNCHANGED processor
  BY DEF PutOnMain
<1>11. QED BY <1>4, <1>6, <1>8, <1>9, <1>10

(* Taking an item from its list keeps jobs jobs.                           *)
LEMMA TakenType ==
  ASSUME TypeOK, NEW list \in {"main", "background"}, NEW j \in Jobs,
         NEW f \in Files
  PROVE  TakenFrom(list, j, f) \in [Jobs -> JobRecord]
<1>1. [jobs[j] EXCEPT ![list] = @ \ {f}] \in JobRecord
  <2>1. jobs[j] \in JobRecord
    BY DEF TypeOK
  <2>2. CASE list = "main"
    BY <2>1, <2>2 DEF JobRecord
  <2>3. CASE list = "background"
    BY <2>1, <2>3 DEF JobRecord
  <2>4. QED BY <2>2, <2>3
<1>2. jobs \in [Jobs -> JobRecord]
  BY DEF TypeOK
<1> DEFINE r == [jobs[j] EXCEPT ![list] = @ \ {f}]
<1>3. TakenFrom(list, j, f) = [jobs EXCEPT ![j] = r]
  BY DEF TakenFrom
<1>4. r \in JobRecord
  BY <1>1
<1> HIDE DEF r
<1>5. QED BY <1>2, <1>3, <1>4

(* The places and slots are in range.                                      *)
LEMMA Ranges ==
  /\ 0 \in 0..(ActiveHandlers + 1) /\ 1 \in 0..(ActiveHandlers + 1)
  /\ ActiveHandlers + 1 \in 0..(ActiveHandlers + 1)
  /\ \A k \in Slots : k \in 0..(ActiveHandlers + 1)
                     /\ k + 1 \in 0..(ActiveHandlers + 1)
  /\ 0 \in Places /\ 0 \notin Slots /\ Slots \subseteq Places
BY MetadataAssumption DEF Slots, Places

(* Putting an item on the processed list keeps a job a job.                *)
LEMMA DeferredType ==
  ASSUME NEW job \in JobRecord, NEW item \in Items, item.result \in Results
  PROVE  Deferred(job, item) \in JobRecord
<1>1. <<item.file, item.result>> \in Files \X Results
  BY DEF Items
<1>2. QED BY <1>1 DEF Deferred, JobRecord

(* No item is None.                                                        *)
LEMMA NotNone == \A i \in Items : i # None
BY MetadataAssumption

(* An item that has just been taken is an item.                            *)
LEMMA ItemType ==
  ASSUME NEW j \in Jobs, NEW f \in Files
  PROVE  /\ Item(j, f) \in Items /\ Item(j, f) # None
         /\ Item(j, f).job = j /\ Item(j, f).file = f
         /\ Item(j, f).result = "none"
BY MetadataAssumption DEF Item, Items

(* StartThread preserves CrashInv.                                         *)
LEMMA StartThreadCrash ==
  ASSUME CrashInv, StartThread
  PROVE  CrashInv'
<1>. USE DEF CrashInv, TypeOK, StartThread
<1>w. /\ tracker.ready \/ service.shutdown = "done"
      /\ main.start # "tracker"
  BY Working, MetadataAssumption DEF InSlot, Slots
<1>1. jobs' \in [Jobs -> JobRecord]
  OBVIOUS
<1>2. ServiceType'
  BY DEF ServiceType
<1>3. MainType'
  BY MetadataAssumption DEF MainType, MainRecord
<1>4. ThreadType'
  BY DEF ThreadType, ThreadRecord, StartedThread
<1>5. Attached'
  BY DEF Attached, StartedThread
<1>6. LogAgrees' /\ Logged' /\ Remembered' /\ CrashersAreAvoided'
  <2>1. \A p \in Places : At(p)' = At(p)
    BY DEF At, StartedThread
  <2>2. QED BY <2>1, SameHandlers
<1>7. Unready'
  BY <1>w, UnreadyKept DEF MainType, MainRecord
<1>8. QED BY <1>1, <1>2, <1>3, <1>4, <1>5, <1>6, <1>7

(* StartEvent preserves CrashInv.                                          *)
LEMMA StartEventCrash ==
  ASSUME CrashInv, StartEvent
  PROVE  CrashInv'
<1>. USE DEF CrashInv, TypeOK, StartEvent
<1>w. /\ tracker.ready \/ service.shutdown = "done"
      /\ main.start # "tracker"
  BY Working, MetadataAssumption DEF InSlot, Slots
<1>1. jobs' \in [Jobs -> JobRecord]
  OBVIOUS
<1>2. ServiceType'
  BY DEF ServiceType
<1>3. MainType'
  BY DEF MainType, ProcessorRecord
<1>4. ThreadType'
  BY DEF ThreadType, ThreadRecord, StartedThread
<1>5. Attached'
  BY DEF Attached, StartedThread
<1>6. LogAgrees' /\ Logged' /\ Remembered' /\ CrashersAreAvoided'
  <2>1. \A p \in Places : At(p)' = At(p)
    BY DEF At, StartedThread
  <2>2. QED BY <2>1, SameHandlers
<1>7. Unready'
  BY <1>w, UnreadyKept DEF MainType, MainRecord
<1>8. QED BY <1>1, <1>2, <1>3, <1>4, <1>5, <1>6, <1>7

(* Cancel preserves CrashInv.                                              *)
LEMMA CancelCrash ==
  ASSUME CrashInv, NEW j \in Jobs, Cancel(j)
  PROVE  CrashInv'
<1>. USE DEF CrashInv, TypeOK, Cancel
<1>1. jobs' \in [Jobs -> JobRecord]
  BY CancelledType
<1>2. ServiceType'
  BY DEF ServiceType, Interruption
<1>3. MainType'
  BY DEF MainType
<1>4. ThreadType'
  BY DEF ThreadType, ThreadRecord
<1>5. Attached'
  BY DEF Attached
<1>6. LogAgrees' /\ Logged' /\ Remembered' /\ CrashersAreAvoided'
  <2>1. \A p \in Places : At(p)' = At(p)
    BY DEF At
  <2>2. QED BY <2>1, SameHandlers
<1>7. Unready'
  BY UnreadyKept DEF MainType, MainRecord
<1>8. QED BY <1>1, <1>2, <1>3, <1>4, <1>5, <1>6, <1>7

(* NotifyTimer preserves CrashInv.                                         *)
LEMMA NotifyTimerCrash ==
  ASSUME CrashInv, NotifyTimer
  PROVE  CrashInv'
<1>. USE DEF CrashInv, TypeOK, NotifyTimer
<1>w. /\ tracker.ready \/ service.shutdown = "done"
      /\ main.start # "tracker"
  BY Working, MetadataAssumption DEF InSlot, Slots
<1>1. jobs' \in [Jobs -> JobRecord]
  OBVIOUS
<1>2. ServiceType'
  BY DEF ServiceType
<1>3. MainType'
  <2>1. main \in MainRecord /\ processor \in ProcessorRecord
            /\ slots \in [Slots -> Items \cup {None}]
    BY DEF MainType
  <2>2. [main EXCEPT !.notify = 1, !.finished = TRUE] \in MainRecord
    BY <2>1, Ranges DEF MainRecord
  <2>3. QED BY <2>1, <2>2 DEF MainType
<1>4. ThreadType'
  BY DEF ThreadType, ThreadRecord
<1>5. Attached'
  BY DEF Attached
<1>6. LogAgrees' /\ Logged' /\ Remembered' /\ CrashersAreAvoided'
  <2>1. \A p \in Places : At(p)' = At(p)
    BY DEF At
  <2>2. QED BY <2>1, SameHandlers
<1>7. Unready'
  BY <1>w, UnreadyKept DEF MainType, MainRecord
<1>8. QED BY <1>1, <1>2, <1>3, <1>4, <1>5, <1>6, <1>7

(* SlotBusy preserves CrashInv.                                            *)
LEMMA SlotBusyCrash ==
  ASSUME CrashInv, NEW k \in Slots, SlotBusy(k)
  PROVE  CrashInv'
<1>. USE DEF CrashInv, TypeOK, SlotBusy
<1>w. /\ tracker.ready \/ service.shutdown = "done"
      /\ main.start # "tracker"
  BY Working, MetadataAssumption DEF InSlot, Slots
<1>v. main'.start = main.start
  BY DEF MainType, MainRecord, NextSlot
<1>1. jobs' \in [Jobs -> JobRecord]
  OBVIOUS
<1>2. ServiceType'
  BY DEF ServiceType
<1>3. MainType'
  <2>1. main \in MainRecord /\ processor \in ProcessorRecord
            /\ slots \in [Slots -> Items \cup {None}]
    BY DEF MainType
  <2>2. NextSlot(FALSE) \in MainRecord
    BY <2>1, Ranges DEF MainRecord, InSlot, NextSlot
  <2>3. QED BY <2>1, <2>2 DEF MainType
<1>4. ThreadType'
  BY DEF ThreadType, ThreadRecord
<1>5. Attached'
  BY DEF Attached, NextSlot, MainType, MainRecord
<1>6. LogAgrees' /\ Logged' /\ Remembered' /\ CrashersAreAvoided'
  <2>1. \A p \in Places : At(p)' = At(p)
    BY DEF At
  <2>2. QED BY <1>v, <2>1, SameHandlers
<1>7. Unready'
  BY <1>v, <1>w, UnreadyKept
<1>8. QED BY <1>1, <1>2, <1>3, <1>4, <1>5, <1>6, <1>7

(* SlotEmpty preserves CrashInv.                                           *)
LEMMA SlotEmptyCrash ==
  ASSUME CrashInv, NEW k \in Slots, SlotEmpty(k)
  PROVE  CrashInv'
<1>. USE DEF CrashInv, TypeOK, SlotEmpty
<1>w. /\ tracker.ready \/ service.shutdown = "done"
      /\ main.start # "tracker"
  BY Working, MetadataAssumption DEF InSlot, Slots
<1>v. main'.start = main.start
  BY DEF MainType, MainRecord, NextSlot
<1>1. jobs' \in [Jobs -> JobRecord]
  OBVIOUS
<1>2. ServiceType'
  BY DEF ServiceType
<1>3. MainType'
  <2>1. main \in MainRecord /\ processor \in ProcessorRecord
            /\ slots \in [Slots -> Items \cup {None}]
    BY DEF MainType
  <2>2. NextSlot(TRUE) \in MainRecord
    BY <2>1, Ranges DEF MainRecord, InSlot, NextSlot
  <2>3. QED BY <2>1, <2>2 DEF MainType
<1>4. ThreadType'
  BY DEF ThreadType, ThreadRecord
<1>5. Attached'
  BY DEF Attached, NextSlot, MainType, MainRecord
<1>6. LogAgrees' /\ Logged' /\ Remembered' /\ CrashersAreAvoided'
  <2>1. \A p \in Places : At(p)' = At(p)
    BY DEF At
  <2>2. QED BY <1>v, <2>1, SameHandlers
<1>7. Unready'
  BY <1>v, <1>w, UnreadyKept
<1>8. QED BY <1>1, <1>2, <1>3, <1>4, <1>5, <1>6, <1>7

(* NotifyEnd preserves CrashInv.                                           *)
LEMMA NotifyEndCrash ==
  ASSUME CrashInv, NotifyEnd
  PROVE  CrashInv'
<1>. USE DEF CrashInv, TypeOK, NotifyEnd
<1>w. /\ tracker.ready \/ service.shutdown = "done"
      /\ main.start # "tracker"
  BY Working, MetadataAssumption DEF InSlot, Slots
<1>1. jobs' \in [Jobs -> JobRecord]
  OBVIOUS
<1>2. ServiceType'
  BY DEF ServiceType
<1>3. MainType'
  <2>1. main \in MainRecord /\ processor \in ProcessorRecord
            /\ slots \in [Slots -> Items \cup {None}]
    BY DEF MainType
  <2>2. [main EXCEPT !.notify = 0] \in MainRecord
    BY <2>1, Ranges DEF MainRecord
  <2>3. QED BY <2>1, <2>2 DEF MainType, ProcessorRecord, MainRecord
<1>4. ThreadType'
  BY DEF ThreadType, ThreadRecord
<1>5. Attached'
  BY DEF Attached
<1>6. LogAgrees' /\ Logged' /\ Remembered' /\ CrashersAreAvoided'
  <2>1. \A p \in Places : At(p)' = At(p)
    BY DEF At
  <2>2. QED BY <2>1, SameHandlers
<1>7. Unready'
  BY <1>w, UnreadyKept DEF MainType, MainRecord
<1>8. QED BY <1>1, <1>2, <1>3, <1>4, <1>5, <1>6, <1>7

(* Observe preserves CrashInv.                                             *)
LEMMA ObserveCrash ==
  ASSUME CrashInv, Observe
  PROVE  CrashInv'
<1>. USE DEF CrashInv, TypeOK, Observe
<1>1. jobs' \in [Jobs -> JobRecord]
  OBVIOUS
<1>2. ServiceType'
  BY DEF ServiceType
<1>3. MainType'
  BY MetadataAssumption DEF MainType, MainRecord, ServiceType
<1>4. ThreadType'
  BY DEF ThreadType, ThreadRecord
<1>5. Attached'
  BY DEF Attached
<1>6. LogAgrees' /\ Logged' /\ Remembered' /\ CrashersAreAvoided'
  <2>1. \A p \in Places : At(p)' = At(p)
    BY DEF At
  <2>2. QED BY <2>1, SameHandlers
<1>7. Unready'
  BY UnreadyKept DEF MainType, MainRecord
<1>8. QED BY <1>1, <1>2, <1>3, <1>4, <1>5, <1>6, <1>7

(* OnJobProgress preserves CrashInv.                                       *)
LEMMA OnJobProgressCrash ==
  ASSUME CrashInv, NEW j \in Jobs, OnJobProgress(j)
  PROVE  CrashInv'
<1>. USE DEF CrashInv, TypeOK, OnJobProgress
<1>1. jobs' \in [Jobs -> JobRecord]
  <2>1. [jobs[j] EXCEPT !.processed = {}] \in JobRecord
    BY SMTT(30) DEF JobRecord
  <2>2. QED BY <2>1
<1>v. main'.job = j /\ main'.start = main.start /\ main'.notify = main.notify
  <2>1. main \in MainRecord
    BY DEF MainType
  <2>2. CASE NeedsCompletion(jobs[j])
    BY <2>1, <2>2 DEF MainRecord
  <2>3. CASE ~NeedsCompletion(jobs[j])
    BY <2>1, <2>3 DEF MainRecord
  <2>4. QED BY <2>2, <2>3
<1>2. ServiceType'
  BY DEF ServiceType
<1>3. MainType'
  <2>1. jobs[j].processed \subseteq Files \X Results
    BY DEF JobRecord
  <2>2. main \in MainRecord
    BY DEF MainType
  <2>3. [main EXCEPT !.todo = @ \ {j}, !.job = j, !.items = jobs[j].processed]
          \in MainRecord
    BY <2>1, <2>2 DEF MainRecord
  <2>4. [main EXCEPT !.todo = @ \ {j}, !.job = j] \in MainRecord
    BY <2>2 DEF MainRecord
  <2>5. main' \in MainRecord
    BY <2>3, <2>4
  <2>6. QED BY <2>5 DEF MainType
<1>4. ThreadType'
  BY DEF ThreadType, ThreadRecord
<1>5. Attached'
  BY <1>v, MetadataAssumption DEF Attached
<1>6. LogAgrees' /\ Logged' /\ Remembered' /\ CrashersAreAvoided'
  <2>1. \A p \in Places : At(p)' = At(p)
    BY DEF At
  <2>2. QED BY <1>v, <2>1, SameHandlers
<1>7. Unready'
  BY <1>v, UnreadyKept
<1>8. QED BY <1>1, <1>2, <1>3, <1>4, <1>5, <1>6, <1>7

(* JobProgressed preserves CrashInv.                                       *)
LEMMA JobProgressedCrash ==
  ASSUME CrashInv, JobProgressed
  PROVE  CrashInv'
<1>. USE DEF CrashInv, TypeOK, JobProgressed
<1>1. jobs' \in [Jobs -> JobRecord]
  BY ProgressedType DEF MainType, MainRecord
<1>2. ServiceType'
  BY DEF ServiceType
<1>3. MainType'
  BY MetadataAssumption DEF MainType, MainRecord
<1>4. ThreadType'
  BY DEF ThreadType, ThreadRecord
<1>5. Attached'
  BY DEF Attached
<1>6. LogAgrees' /\ Logged' /\ Remembered' /\ CrashersAreAvoided'
  <2>1. \A p \in Places : At(p)' = At(p)
    BY DEF At
  <2>2. QED BY <2>1, SameHandlers
<1>7. Unready'
  BY UnreadyKept DEF MainType, MainRecord
<1>8. QED BY <1>1, <1>2, <1>3, <1>4, <1>5, <1>6, <1>7

(* Shutdown preserves CrashInv.                                            *)
LEMMA ShutdownCrash ==
  ASSUME CrashInv, Shutdown
  PROVE  CrashInv'
<1>. USE DEF CrashInv, TypeOK, Shutdown
<1>1. jobs' \in [Jobs -> JobRecord]
  OBVIOUS
<1>2. ServiceType'
  BY DEF ServiceType, Interruption
<1>3. MainType'
  <2>1. main \in MainRecord /\ processor \in ProcessorRecord
    BY DEF MainType
  <2>2. main' \in MainRecord
    BY <2>1, Ranges DEF MainRecord
  <2>3. processor' \in ProcessorRecord
    BY <2>1 DEF ProcessorRecord
  <2>4. QED BY <2>2, <2>3 DEF MainType
<1>4. ThreadType'
  BY DEF ThreadType, ThreadRecord
<1>5. Attached'
  BY DEF Attached
<1>6. LogAgrees' /\ Logged' /\ Remembered' /\ CrashersAreAvoided'
  <2>1. \A p \in Places : At(p)' = At(p)
    BY DEF At
  <2>2. QED BY <2>1, SameHandlers
<1>7. Unready'
  <2>1. main'.start = main.start /\ main'.notify = main.notify
    BY DEF MainType, MainRecord
  <2>2. /\ processor'.exists = processor.exists /\ ~processor'.running
        /\ processor'.events = processor.events
    BY DEF MainType, ProcessorRecord
  <2>3. QED BY <2>1, <2>2 DEF Unready, InEventLoop
<1>8. QED BY <1>1, <1>2, <1>3, <1>4, <1>5, <1>6, <1>7

(* StopEmptySlot preserves CrashInv.                                       *)
LEMMA StopEmptySlotCrash ==
  ASSUME CrashInv, NEW k \in Slots, StopEmptySlot(k)
  PROVE  CrashInv'
<1>. USE DEF CrashInv, TypeOK, StopEmptySlot
<1>1. jobs' \in [Jobs -> JobRecord]
  OBVIOUS
<1>2. ServiceType'
  BY DEF ServiceType
<1>3. MainType'
  <2>1. main \in MainRecord /\ processor \in ProcessorRecord
            /\ slots \in [Slots -> Items \cup {None}]
    BY DEF MainType
  <2>2. [main EXCEPT !.stop = @ + 1] \in MainRecord
    BY <2>1, Ranges DEF MainRecord
  <2>3. QED BY <2>1, <2>2 DEF MainType
<1>4. ThreadType'
  BY DEF ThreadType, ThreadRecord
<1>5. Attached'
  BY DEF Attached
<1>6. LogAgrees' /\ Logged' /\ Remembered' /\ CrashersAreAvoided'
  <2>1. \A p \in Places : At(p)' = At(p)
    BY DEF At
  <2>2. QED BY <2>1, SameHandlers
<1>7. Unready'
  BY UnreadyKept DEF MainType, MainRecord
<1>8. QED BY <1>1, <1>2, <1>3, <1>4, <1>5, <1>6, <1>7

(* StopThread preserves CrashInv.                                          *)
LEMMA StopThreadCrash ==
  ASSUME CrashInv, StopThread
  PROVE  CrashInv'
<1>. USE DEF CrashInv, TypeOK, StopThread
<1>1. jobs' \in [Jobs -> JobRecord]
  OBVIOUS
<1>2. ServiceType'
  BY DEF ServiceType
<1>3. MainType'
  <2>1. main \in MainRecord /\ processor \in ProcessorRecord
    BY DEF MainType
  <2>2. main' \in MainRecord
    BY <2>1, Ranges DEF MainRecord
  <2>3. processor' \in ProcessorRecord
    BY <2>1 DEF ProcessorRecord
  <2>4. QED BY <2>2, <2>3 DEF MainType
<1>4. ThreadType'
  BY DEF ThreadType, ThreadRecord
<1>5. Attached'
  BY DEF Attached
<1>6. LogAgrees' /\ Logged' /\ Remembered' /\ CrashersAreAvoided'
  <2>1. \A p \in Places : At(p)' = At(p)
    BY DEF At
  <2>2. QED BY <2>1, SameHandlers
<1>7. Unready'
  BY MetadataAssumption
    DEF Unready, MainType, MainRecord, ProcessorRecord, ThreadType,
        ThreadRecord, ServiceType, InStop
<1>8. QED BY <1>1, <1>2, <1>3, <1>4, <1>5, <1>6, <1>7

(* ThreadGoesOn preserves CrashInv.                                        *)
LEMMA ThreadGoesOnCrash ==
  ASSUME CrashInv, ThreadGoesOn
  PROVE  CrashInv'
<1>. USE DEF CrashInv, TypeOK, ThreadGoesOn
<1>w. /\ tracker.ready \/ service.shutdown = "done"
      /\ main.start # "tracker"
  BY Working, MetadataAssumption DEF InSlot, Slots
<1>1. jobs' \in [Jobs -> JobRecord]
  OBVIOUS
<1>2. ServiceType'
  BY DEF ServiceType
<1>3. MainType'
  BY DEF MainType
<1>4. ThreadType'
  BY DEF ThreadType, ThreadRecord
<1>5. Attached'
  BY DEF Attached
<1>6. LogAgrees' /\ Logged' /\ Remembered' /\ CrashersAreAvoided'
  <2>1. \A p \in Places : At(p)' = At(p)
    BY DEF At
  <2>2. QED BY <2>1, SameHandlers
<1>7. Unready'
  BY <1>w, UnreadyKept DEF MainType, MainRecord
<1>8. QED BY <1>1, <1>2, <1>3, <1>4, <1>5, <1>6, <1>7

(* ThreadWaits preserves CrashInv.                                         *)
LEMMA ThreadWaitsCrash ==
  ASSUME CrashInv, ThreadWaits
  PROVE  CrashInv'
<1>. USE DEF CrashInv, TypeOK, ThreadWaits
<1>w. /\ tracker.ready \/ service.shutdown = "done"
      /\ main.start # "tracker"
  BY Working, MetadataAssumption DEF InSlot, Slots
<1>1. jobs' \in [Jobs -> JobRecord]
  OBVIOUS
<1>2. ServiceType'
  BY DEF ServiceType
<1>3. MainType'
  BY DEF MainType
<1>4. ThreadType'
  BY DEF ThreadType, ThreadRecord
<1>5. Attached'
  BY DEF Attached
<1>6. LogAgrees' /\ Logged' /\ Remembered' /\ CrashersAreAvoided'
  <2>1. \A p \in Places : At(p)' = At(p)
    BY DEF At
  <2>2. QED BY <2>1, SameHandlers
<1>7. Unready'
  BY <1>w, UnreadyKept DEF MainType, MainRecord
<1>8. QED BY <1>1, <1>2, <1>3, <1>4, <1>5, <1>6, <1>7

(* ThreadPuts preserves CrashInv.                                          *)
LEMMA ThreadPutsCrash ==
  ASSUME CrashInv, ThreadPuts
  PROVE  CrashInv'
<1>. USE DEF CrashInv, TypeOK, ThreadPuts
<1>w. /\ tracker.ready \/ service.shutdown = "done"
      /\ main.start # "tracker"
  BY Working, MetadataAssumption DEF InSlot, Slots
<1>1. jobs' \in [Jobs -> JobRecord]
  <2>1. thread.item \in Items /\ thread.item.result \in Results
    BY DEF Attached, ThreadType, ThreadRecord
  <2>2. Deferred(jobs[thread.item.job], thread.item) \in JobRecord
    BY <2>1, DeferredType DEF Items
  <2>3. QED BY <2>1, <2>2 DEF Items
<1>2. ServiceType'
  BY DEF ServiceType
<1>3. MainType'
  BY DEF MainType
<1>4. ThreadType'
  BY DEF ThreadType, ThreadRecord
<1>5. Attached'
  BY DEF Attached
<1>6. LogAgrees' /\ Logged' /\ Remembered' /\ CrashersAreAvoided'
  <2>1. \A p \in Places : At(p)' = At(p)
    BY DEF At, Attached
  <2>2. QED BY <2>1, SameHandlers
<1>7. Unready'
  BY <1>w, UnreadyKept DEF MainType, MainRecord
<1>8. QED BY <1>1, <1>2, <1>3, <1>4, <1>5, <1>6, <1>7

(* HandlerCompletes preserves CrashInv.                                    *)
LEMMA HandlerCompletesCrash ==
  ASSUME CrashInv, NEW k \in Slots, NEW result \in Results,
         HandlerCompletes(k, result)
  PROVE  CrashInv'
<1>. USE DEF CrashInv, TypeOK, HandlerCompletes
<1>w. /\ tracker.ready \/ service.shutdown = "done"
      /\ main.start # "tracker"
  BY Working, MetadataAssumption DEF InSlot, Slots
<1>1. jobs' \in [Jobs -> JobRecord]
  OBVIOUS
<1>2. ServiceType'
  BY DEF ServiceType
<1>3. MainType'
  BY DEF MainType, Items, Results
<1>4. ThreadType'
  BY DEF ThreadType, ThreadRecord
<1>5. Attached'
  BY DEF Attached
<1>6. LogAgrees' /\ Logged' /\ Remembered' /\ CrashersAreAvoided'
  <2>1. \A p \in Places : At(p)' # None
               => At(p) # None /\ At(p)'.file = At(p).file
    BY DEF At, MainType, Items
  <2>2. QED BY <2>1, SameHandlers
<1>7. Unready'
  BY <1>w, UnreadyKept DEF MainType, MainRecord
<1>8. QED BY <1>1, <1>2, <1>3, <1>4, <1>5, <1>6, <1>7

(* SlotTakes preserves CrashInv.                                           *)
LEMMA SlotTakesCrash ==
  ASSUME CrashInv, NEW k \in Slots, NEW j \in Jobs, NEW f \in Files,
         SlotTakes(k, j, f)
  PROVE  CrashInv'
<1>. USE DEF CrashInv, TypeOK, SlotTakes
<1>w. /\ tracker.ready \/ service.shutdown = "done"
      /\ main.start # "tracker"
  BY Working, MetadataAssumption DEF InSlot, Slots
<1>v. main'.start = main.start
  BY DEF MainType, MainRecord, NextSlot
<1>r. tracker.ready /\ tracker \in Tracker /\ tracker' \in Tracker
      /\ tracker'.ready
  <2>1. tracker.ready
    BY <1>w DEF Queued, Attached
  <2>2. QED BY <2>1, BeginEffect DEF ServiceType
<1>1. jobs' \in [Jobs -> JobRecord]
  BY TakenType
<1>2. ServiceType'
  BY <1>r DEF ServiceType
<1>3. MainType'
  <2>1. main \in MainRecord /\ processor \in ProcessorRecord
            /\ slots \in [Slots -> Items \cup {None}]
    BY DEF MainType
  <2>2. NextSlot(FALSE) \in MainRecord
    BY <2>1, Ranges DEF MainRecord, InSlot, NextSlot
  <2>3. QED BY <2>1, <2>2 DEF MainType, Item, Items
<1>4. ThreadType'
  BY DEF ThreadType, ThreadRecord
<1>5. Attached'
  <2>1. tracker'.ready
    BY <1>r
  <2>2. QED BY <2>1 DEF Attached, NextSlot, MainType, MainRecord
<1>6. LogAgrees' /\ Logged' /\ Remembered' /\ CrashersAreAvoided'
  <2>1. /\ At(k)' # None /\ At(k)'.file = f
        /\ \A q \in Places \ {k} : At(q)' # None
             => At(q) # None /\ At(q)'.file = At(q).file
    BY MetadataAssumption DEF At, Slots, Places, Item, Items, MainType, Queued
  <2>2. tracker.ready /\ k \in Places
    BY <1>r, Ranges
  <2>3. QED BY <1>v, <1>w, <2>1, <2>2, HandlerBegins
<1>7. Unready'
  BY <1>r, <1>v, <1>w, UnreadyKept
<1>8. QED BY <1>1, <1>2, <1>3, <1>4, <1>5, <1>6, <1>7

(* ThreadTakes preserves CrashInv.                                         *)
LEMMA ThreadTakesCrash ==
  ASSUME CrashInv, NEW j \in Jobs, NEW f \in Files, ThreadTakes(j, f)
  PROVE  CrashInv'
<1>. USE DEF CrashInv, TypeOK, ThreadTakes
<1>w. /\ tracker.ready \/ service.shutdown = "done"
      /\ main.start # "tracker"
  BY Working, MetadataAssumption DEF InSlot, Slots
<1>r. tracker.ready /\ tracker \in Tracker /\ tracker' \in Tracker
      /\ tracker'.ready
  <2>1. tracker.ready
    BY <1>w DEF Queued, Attached
  <2>2. QED BY <2>1, BeginEffect DEF ServiceType
<1>1. jobs' \in [Jobs -> JobRecord]
  BY TakenType
<1>2. ServiceType'
  BY <1>r DEF ServiceType
<1>3. MainType'
  BY DEF MainType
<1>4. ThreadType'
  BY DEF ThreadType, ThreadRecord, Item, Items
<1>5. Attached'
  <2>1. tracker'.ready
    BY <1>r
  <2>2. QED BY <2>1, ItemType DEF Attached
<1>6. LogAgrees' /\ Logged' /\ Remembered' /\ CrashersAreAvoided'
  <2>1. /\ At(0)' # None /\ At(0)'.file = f
        /\ \A q \in Places \ {0} : At(q)' # None
             => At(q) # None /\ At(q)'.file = At(q).file
    BY MetadataAssumption DEF At, Slots, Places, Item, Items, MainType, Queued
  <2>2. tracker.ready /\ 0 \in Places
    BY <1>r, Ranges
  <2>3. QED BY <1>w, <2>1, <2>2, HandlerBegins
<1>7. Unready'
  BY <1>r, <1>w, UnreadyKept
<1>8. QED BY <1>1, <1>2, <1>3, <1>4, <1>5, <1>6, <1>7

(* SlotCompletes preserves CrashInv.                                       *)
LEMMA SlotCompletesCrash ==
  ASSUME CrashInv, NEW k \in Slots, SlotCompletes(k)
  PROVE  CrashInv'
<1>. USE DEF CrashInv, TypeOK, SlotCompletes
<1>w. /\ tracker.ready \/ service.shutdown = "done"
      /\ main.start # "tracker"
  BY Working, MetadataAssumption DEF InSlot, Slots
<1>a. /\ jobs' \in [Jobs -> JobRecord]
      /\ processor' \in ProcessorRecord /\ main' \in MainRecord
      /\ main'.job = main.job /\ main'.start = main.start
      /\ main'.items = main.items
  <2>1. jobs \in [Jobs -> JobRecord]
    OBVIOUS
  <2>2. main \in MainRecord
    BY DEF MainType
  <2>a. main.job = main.job /\ main.items = main.items
    BY DEF MainType, MainRecord, NextSlot
  <2>3. slots[k].job \in Jobs /\ slots[k].file \in Files /\ slots[k].result
        \in Results
    BY DEF MainType, Items, Results
  <2>4. PutOnMain(jobs, slots[k].job, slots[k].file, slots[k].result, main)
    OBVIOUS
  <2>5. QED BY <2>1, <2>2, <2>a, <2>3, <2>4, PutOnMainType
<1>b. /\ LogAgrees' /\ Logged' /\ Remembered' /\ CrashersAreAvoided'
      /\ tracker' \in Tracker /\ tracker'.ready = tracker.ready
  <2>1. /\ slots[k] \in Items /\ k \in Places
    BY Ranges DEF MainType
  <2>2. At(k) # None /\ At(k)' = None /\ At(k) = slots[k]
    BY <2>1 DEF At, MainType
  <2>3. \A q \in Places \ {k} : At(q)' = At(q)
    BY DEF At, MainType
  <2>4. tracker' = Ended(At(k).file)
    BY <2>2
  <2>9. QED BY <1>a, <2>1, <2>2, <2>3, <2>4, HandlerEnds
<1>1. jobs' \in [Jobs -> JobRecord]
  BY <1>a
<1>2. ServiceType'
  BY <1>b DEF ServiceType
<1>3. MainType'
  BY <1>a DEF MainType
<1>4. ThreadType'
  BY DEF ThreadType, ThreadRecord
<1>5. Attached'
  BY <1>a, <1>b DEF Attached
<1>6. LogAgrees' /\ Logged' /\ Remembered' /\ CrashersAreAvoided'
  BY <1>b
<1>7. Unready'
  BY <1>w, <1>a, <1>b, UnreadyKept
<1>8. QED BY <1>1, <1>2, <1>3, <1>4, <1>5, <1>6, <1>7

(* StopSlot preserves CrashInv.                                            *)
LEMMA StopSlotCrash ==
  ASSUME CrashInv, NEW k \in Slots, NEW result \in Results, StopSlot(k,
         result)
  PROVE  CrashInv'
<1>. USE DEF CrashInv, TypeOK, StopSlot
<1>w. /\ tracker.ready \/ service.shutdown = "done"
      /\ main.start # "tracker"
  BY Working, MetadataAssumption DEF InSlot, Slots
<1>a. /\ jobs' \in [Jobs -> JobRecord]
      /\ processor' \in ProcessorRecord /\ main' \in MainRecord
      /\ main'.job = main.job /\ main'.start = main.start
      /\ main'.items = main.items
  <2> DEFINE m == [main EXCEPT !.stop = @ + 1]
  <2>1. jobs \in [Jobs -> JobRecord]
    OBVIOUS
  <2>2. m \in MainRecord
    <3>1. main \in MainRecord
      BY DEF MainType
    <3>2. QED BY <3>1, Ranges DEF MainRecord
  <2>a. m.job = main.job /\ m.items = main.items /\ m.start = main.start
    BY DEF MainType, MainRecord
  <2>3. slots[k].job \in Jobs /\ slots[k].file \in Files /\ result \in Results
    BY DEF MainType, Items, Results
  <2>4. PutOnMain(jobs, slots[k].job, slots[k].file, result, m)
    OBVIOUS
  <2> HIDE DEF m
  <2>5. QED BY <2>1, <2>2, <2>a, <2>3, <2>4, PutOnMainType
<1>b. /\ LogAgrees' /\ Logged' /\ Remembered' /\ CrashersAreAvoided'
      /\ tracker' \in Tracker /\ tracker'.ready = tracker.ready
  <2>1. /\ slots[k] \in Items /\ k \in Places
    BY Ranges DEF MainType
  <2>2. At(k) # None /\ At(k)' = None /\ At(k) = slots[k]
    BY <2>1 DEF At, MainType
  <2>3. \A q \in Places \ {k} : At(q)' = At(q)
    BY DEF At, MainType
  <2>4. tracker' = Ended(At(k).file)
    BY <2>2
  <2>9. QED BY <1>a, <2>1, <2>2, <2>3, <2>4, HandlerEnds
<1>1. jobs' \in [Jobs -> JobRecord]
  BY <1>a
<1>2. ServiceType'
  BY <1>b DEF ServiceType
<1>3. MainType'
  BY <1>a DEF MainType
<1>4. ThreadType'
  BY DEF ThreadType, ThreadRecord
<1>5. Attached'
  BY <1>a, <1>b DEF Attached
<1>6. LogAgrees' /\ Logged' /\ Remembered' /\ CrashersAreAvoided'
  BY <1>b
<1>7. Unready'
  BY <1>w, <1>a, <1>b, UnreadyKept
<1>8. QED BY <1>1, <1>2, <1>3, <1>4, <1>5, <1>6, <1>7

(* SlotSkips preserves CrashInv.                                           *)
LEMMA SlotSkipsCrash ==
  ASSUME CrashInv, NEW k \in Slots, NEW j \in Jobs, NEW f \in Files,
         SlotSkips(k, j, f)
  PROVE  CrashInv'
<1>. USE DEF CrashInv, TypeOK, SlotSkips
<1>w. /\ tracker.ready \/ service.shutdown = "done"
      /\ main.start # "tracker"
  BY Working, MetadataAssumption DEF InSlot, Slots
<1>a. /\ jobs' \in [Jobs -> JobRecord]
      /\ processor' \in ProcessorRecord /\ main' \in MainRecord
      /\ main'.job = main.job /\ main'.start = main.start
      /\ main'.items = main.items
  <2>1. TakenFrom("main", j, f) \in [Jobs -> JobRecord]
    BY TakenType
  <2>2. main \in MainRecord
    BY DEF MainType
  <2>a. main.job = main.job /\ main.items = main.items
    BY DEF MainType, MainRecord, NextSlot
  <2>3. j \in Jobs /\ f \in Files /\ "bad" \in Results
    BY DEF Results
  <2>4. PutOnMain(TakenFrom("main", j, f), j, f, "bad", main)
    OBVIOUS
  <2>5. QED BY <2>1, <2>2, <2>a, <2>3, <2>4, PutOnMainType
<1>b. /\ LogAgrees' /\ Logged' /\ Remembered' /\ CrashersAreAvoided'
      /\ tracker' \in Tracker /\ tracker'.ready = tracker.ready
  <2>1. \A q \in Places : At(q)' = At(q)
    BY DEF At
  <2>9. QED BY <1>a, <2>1, HandlerSkips
<1>1. jobs' \in [Jobs -> JobRecord]
  BY <1>a
<1>2. ServiceType'
  BY <1>b DEF ServiceType
<1>3. MainType'
  BY <1>a DEF MainType
<1>4. ThreadType'
  BY DEF ThreadType, ThreadRecord
<1>5. Attached'
  BY <1>a, <1>b DEF Attached
<1>6. LogAgrees' /\ Logged' /\ Remembered' /\ CrashersAreAvoided'
  BY <1>b
<1>7. Unready'
  BY <1>w, <1>a, <1>b, UnreadyKept
<1>8. QED BY <1>1, <1>2, <1>3, <1>4, <1>5, <1>6, <1>7

(* SlotPrepareFails preserves CrashInv.                                    *)
LEMMA SlotPrepareFailsCrash ==
  ASSUME CrashInv, NEW k \in Slots, NEW j \in Jobs, NEW f \in Files,
         SlotPrepareFails(k, j, f)
  PROVE  CrashInv'
<1>. USE DEF CrashInv, TypeOK, SlotPrepareFails
<1>w. /\ tracker.ready \/ service.shutdown = "done"
      /\ main.start # "tracker"
  BY Working, MetadataAssumption DEF InSlot, Slots
<1>a. /\ jobs' \in [Jobs -> JobRecord]
      /\ processor' \in ProcessorRecord /\ main' \in MainRecord
      /\ main'.job = main.job /\ main'.start = main.start
      /\ main'.items = main.items
  <2> DEFINE m == [main EXCEPT !.notify = 0]
  <2>1. TakenFrom("main", j, f) \in [Jobs -> JobRecord]
    BY TakenType
  <2>2. m \in MainRecord
    BY Ranges DEF MainType, MainRecord
  <2>3. m.job = main.job /\ m.items = main.items /\ m.start = main.start
    BY DEF MainType, MainRecord
  <2>4. "bad" \in Results
    BY DEF Results
  <2>5. PutOnMain(TakenFrom("main", j, f), j, f, "bad", m)
    OBVIOUS
  <2> HIDE DEF m
  <2>6. QED BY <2>1, <2>2, <2>3, <2>4, <2>5, PutOnMainType
<1>1. jobs' \in [Jobs -> JobRecord]
  BY <1>a
<1>2. ServiceType'
  BY DEF ServiceType
<1>3. MainType'
  BY <1>a DEF MainType
<1>4. ThreadType'
  BY DEF ThreadType, ThreadRecord
<1>5. Attached'
  BY <1>a DEF Attached
<1>6. LogAgrees' /\ Logged' /\ Remembered' /\ CrashersAreAvoided'
  <2>1. \A q \in Places : At(q)' = At(q)
    BY DEF At
  <2>2. QED BY <1>a, <2>1, SameHandlers
<1>7. Unready'
  BY <1>w, <1>a, UnreadyKept
<1>8. QED BY <1>1, <1>2, <1>3, <1>4, <1>5, <1>6, <1>7

(* SlotRefused preserves CrashInv.                                         *)
LEMMA SlotRefusedCrash ==
  ASSUME CrashInv, NEW k \in Slots, NEW j \in Jobs, NEW f \in Files,
         SlotRefused(k, j, f)
  PROVE  CrashInv'
<1>. USE DEF CrashInv, TypeOK, SlotRefused
<1>w. /\ tracker.ready \/ service.shutdown = "done"
      /\ main.start # "tracker"
  BY Working, MetadataAssumption DEF InSlot, Slots
<1>a. /\ jobs' \in [Jobs -> JobRecord]
      /\ processor' \in ProcessorRecord /\ main' \in MainRecord
      /\ main'.job = main.job /\ main'.start = main.start
      /\ main'.items = main.items
  <2>1. TakenFrom("main", j, f) \in [Jobs -> JobRecord]
    BY TakenType
  <2>2. NextSlot(FALSE) \in MainRecord
    <3>1. main \in MainRecord
      BY DEF MainType
    <3>2. QED BY <3>1, Ranges DEF MainRecord, InSlot, NextSlot
  <2>a. NextSlot(FALSE).job = main.job /\ NextSlot(FALSE).items = main.items
        /\ NextSlot(FALSE).start = main.start
    BY DEF MainType, MainRecord, NextSlot
  <2>3. j \in Jobs /\ f \in Files /\ "bad" \in Results
    BY DEF Results
  <2>4. PutOnMain(TakenFrom("main", j, f), j, f, "bad", NextSlot(FALSE))
    OBVIOUS
  <2>5. QED BY ZenonT(40), <2>1, <2>2, <2>a, <2>3, <2>4, PutOnMainType
<1>b. /\ LogAgrees' /\ Logged' /\ Remembered' /\ CrashersAreAvoided'
      /\ tracker' \in Tracker /\ tracker'.ready = tracker.ready
  <2>1. \A q \in Places : At(q)' = At(q)
    BY DEF At
  <2>2. tracker.ready
    BY <1>w DEF Queued, Attached
  <2>9. QED BY <1>a, <2>1, <2>2, HandlerRefused
<1>1. jobs' \in [Jobs -> JobRecord]
  BY <1>a
<1>2. ServiceType'
  BY <1>b DEF ServiceType
<1>3. MainType'
  BY <1>a DEF MainType
<1>4. ThreadType'
  BY DEF ThreadType, ThreadRecord
<1>5. Attached'
  BY <1>a, <1>b DEF Attached
<1>6. LogAgrees' /\ Logged' /\ Remembered' /\ CrashersAreAvoided'
  BY <1>b
<1>7. Unready'
  BY <1>w, <1>a, <1>b, UnreadyKept
<1>8. QED BY <1>1, <1>2, <1>3, <1>4, <1>5, <1>6, <1>7

(* CompleteItem preserves CrashInv.                                        *)
LEMMA CompleteItemCrash ==
  ASSUME CrashInv, NEW i \in main.items, CompleteItem(i)
  PROVE  CrashInv'
<1>. USE DEF CrashInv, TypeOK, CompleteItem
<1>a. /\ jobs' \in [Jobs -> JobRecord]
      /\ processor' \in ProcessorRecord /\ main' \in MainRecord
      /\ main'.job = main.job /\ main'.start = main.start
      /\ main'.items = main.items \ {i}
      /\ ~processor.exists =>
           UNCHANGED processor /\ main'.notify = main.notify
  <2> DEFINE m == [main EXCEPT !.items = @ \ {i}]
  <2>1. jobs \in [Jobs -> JobRecord]
    OBVIOUS
  <2>2. m \in MainRecord
    <3>1. main \in MainRecord
      BY DEF MainType
    <3>2. QED BY <3>1, Ranges DEF MainRecord
  <2>a. /\ m.job = main.job /\ m.items = main.items \ {i}
        /\ m.start = main.start /\ m.notify = main.notify
    BY DEF MainType, MainRecord, NextSlot
  <2>3. main.job \in Jobs /\ i[1] \in Files /\ i[2] \in Results
    BY DEF MainType, MainRecord, Attached
  <2>4. PutOnMain(jobs, main.job, i[1], i[2], m)
    OBVIOUS
  <2> HIDE DEF m
  <2>5. QED BY <2>1, <2>2, <2>a, <2>3, <2>4, PutOnMainType
<1>1. jobs' \in [Jobs -> JobRecord]
  BY <1>a
<1>2. ServiceType'
  BY DEF ServiceType
<1>3. MainType'
  BY <1>a DEF MainType
<1>4. ThreadType'
  BY DEF ThreadType, ThreadRecord
<1>5. Attached'
  BY <1>a DEF Attached
<1>6. LogAgrees' /\ Logged' /\ Remembered' /\ CrashersAreAvoided'
  <2>1. \A p \in Places : At(p)' = At(p)
    BY DEF At
  <2>2. QED BY <1>a, <2>1, SameHandlers
<1>7. Unready'
  <2>1. tracker.ready \/ service.shutdown = "done" \/ ~processor.exists
    BY Working
  <2>2. QED BY <1>a, <2>1, UnreadyKept
<1>8. QED BY <1>1, <1>2, <1>3, <1>4, <1>5, <1>6, <1>7

(* ThreadSkips preserves CrashInv.                                         *)
LEMMA ThreadSkipsCrash ==
  ASSUME CrashInv, NEW j \in Jobs, NEW f \in Files, ThreadSkips(j, f)
  PROVE  CrashInv'
<1>. USE DEF CrashInv, TypeOK, ThreadSkips
<1>w. /\ tracker.ready \/ service.shutdown = "done"
      /\ main.start # "tracker"
  BY Working, MetadataAssumption DEF InSlot, Slots
<1>b. /\ LogAgrees' /\ Logged' /\ Remembered' /\ CrashersAreAvoided'
      /\ tracker' \in Tracker /\ tracker'.ready = tracker.ready
  <2>1. \A q \in Places : At(q)' = At(q)
    BY DEF At
  <2>9. QED BY <2>1, HandlerSkips
<1>1. jobs' \in [Jobs -> JobRecord]
  <2>1. TakenFrom("background", j, f) \in [Jobs -> JobRecord]
    BY TakenType
  <2> DEFINE g == TakenFrom("background", j, f)
  <2>2. jobs' = [g EXCEPT ![j].processed = @ \cup {<<f, "bad">>}]
    OBVIOUS
  <2> HIDE DEF g
  <2>3. [g[j] EXCEPT !.processed = @ \cup {<<f, "bad">>}] \in JobRecord
    <3>1. g[j] \in JobRecord /\ <<f, "bad">> \in Files \X Results
      BY <2>1, <<f, "bad">> \in Files \X {"ok", "bad"} DEF Results, g
    <3>2. QED BY <3>1 DEF JobRecord
  <2>4. QED BY <2>1, <2>2, <2>3 DEF g
<1>2. ServiceType'
  BY <1>b DEF ServiceType
<1>3. MainType'
  BY DEF MainType
<1>4. ThreadType'
  BY DEF ThreadType, ThreadRecord
<1>5. Attached'
  BY <1>b DEF Attached
<1>6. LogAgrees' /\ Logged' /\ Remembered' /\ CrashersAreAvoided'
  BY <1>b
<1>7. Unready'
  BY <1>w, <1>b, UnreadyKept
<1>8. QED BY <1>1, <1>2, <1>3, <1>4, <1>5, <1>6, <1>7

(* ThreadEnds preserves CrashInv.                                          *)
LEMMA ThreadEndsCrash ==
  ASSUME CrashInv, NEW result \in Results, ThreadEnds(result)
  PROVE  CrashInv'
<1>. USE DEF CrashInv, TypeOK, ThreadEnds
<1>w. /\ tracker.ready \/ service.shutdown = "done"
      /\ main.start # "tracker"
  BY Working, MetadataAssumption DEF InSlot, Slots
<1>c. thread.item \in Items
  BY DEF Attached, ThreadType, ThreadRecord
<1>b. /\ LogAgrees' /\ Logged' /\ Remembered' /\ CrashersAreAvoided'
      /\ tracker' \in Tracker /\ tracker'.ready = tracker.ready
  <2>1. 0 \in Places /\ 0 \notin Slots
    BY Ranges
  <2>2. At(0) = thread.item /\ At(0)' = None /\ At(0) # None
    BY <2>1, <1>c, NotNone DEF At, ThreadType, ThreadRecord
  <2>3. \A q \in Places \ {0} : At(q)' = At(q)
    BY DEF At, Places, Slots
  <2>4. tracker' = Ended(At(0).file)
    BY <2>2
  <2>9. QED BY <2>1, <2>2, <2>3, <2>4, HandlerEnds
<1>1. jobs' \in [Jobs -> JobRecord]
  OBVIOUS
<1>2. ServiceType'
  BY <1>b DEF ServiceType
<1>3. MainType'
  BY DEF MainType
<1>4. ThreadType'
  BY <1>c DEF ThreadType, ThreadRecord, Items, Results
<1>5. Attached'
  BY <1>b, <1>c, NotNone
    DEF Attached, Items, Results, ThreadType, ThreadRecord
<1>6. LogAgrees' /\ Logged' /\ Remembered' /\ CrashersAreAvoided'
  BY <1>b
<1>7. Unready'
  BY <1>w, <1>b, UnreadyKept
<1>8. QED BY <1>1, <1>2, <1>3, <1>4, <1>5, <1>6, <1>7

(* ThreadDrops preserves CrashInv.                                         *)
LEMMA ThreadDropsCrash ==
  ASSUME CrashInv, ThreadDrops
  PROVE  CrashInv'
<1>. USE DEF CrashInv, TypeOK, ThreadDrops
<1>w. /\ tracker.ready \/ service.shutdown = "done"
      /\ main.start # "tracker"
  BY Working
<1>1. jobs' \in [Jobs -> JobRecord]
  <2>1. thread.item.job \in Jobs /\ thread.item.file \in Files
    BY DEF Attached, ThreadType, ThreadRecord, Items
  <2>2. ASSUME NEW job \in JobRecord, NEW f \in Files
        PROVE  [job EXCEPT !.left = @ \cup {f}] \in JobRecord
    BY DEF JobRecord
  <2>3. QED BY <2>1, <2>2
<1>2. ServiceType'
  BY DEF ServiceType
<1>3. MainType'
  BY DEF MainType
<1>4. ThreadType'
  BY DEF ThreadType, ThreadRecord
<1>5. Attached'
  BY DEF Attached, ThreadType, ThreadRecord
<1>6. LogAgrees' /\ Logged' /\ Remembered' /\ CrashersAreAvoided'
  <2>1. \A p \in Places : At(p)' # None
               => At(p) # None /\ At(p)'.file = At(p).file
    BY DEF At
  <2>2. QED BY <2>1, SameHandlers
<1>7. Unready'
  BY <1>w, UnreadyKept
<1>8. QED BY <1>1, <1>2, <1>3, <1>4, <1>5, <1>6, <1>7

(* Accepting a job and starting the main processor keep the types of what  *)
(* they change.                                                            *)
LEMMA AcceptType ==
  ASSUME TypeOK, NEW j \in Jobs, Accept(j)
  PROVE  /\ jobs' \in [Jobs -> JobRecord]
         /\ service' \in [array: SUBSET Jobs, timer: BOOLEAN,
                          shutdown: {"no", "stopping", "joining", "done"}]
         /\ calls' \in [started: SUBSET Jobs, interruptions: Nat]
         /\ service.shutdown = "no" /\ service'.shutdown = "no"
BY MediaItemsType, MetadataAssumption DEF TypeOK, Accept, ServiceType

LEMMA StartProcessorType ==
  ASSUME TypeOK, StartProcessor
  PROVE  /\ main' \in MainRecord /\ processor' \in ProcessorRecord
         /\ main'.start = "thread" /\ main'.job = main.job
         /\ main'.items = main.items
<1>1. main \in MainRecord /\ processor \in ProcessorRecord
  BY DEF TypeOK, MainType
<1>2. main' \in MainRecord
  BY <1>1, Ranges DEF StartProcessor, MainRecord
<1>3. processor' \in ProcessorRecord
  BY <1>1 DEF StartProcessor, ProcessorRecord
<1>4. QED BY <1>1, <1>2, <1>3 DEF StartProcessor, MainRecord

(* StartJob preserves CrashInv.                                            *)
LEMMA StartJobCrash ==
  ASSUME CrashInv, NEW j \in Jobs, StartJob(j)
  PROVE  CrashInv'
<1>. USE DEF CrashInv, TypeOK, StartJob
<1>w. main.start # "tracker"
  BY Working
<1>1. jobs' \in [Jobs -> JobRecord]
  BY AcceptType
<1>2. ServiceType'
  BY AcceptType DEF ServiceType
<1>3. MainType'
  BY StartProcessorType DEF MainType
<1>4. ThreadType'
  BY DEF ThreadType, ThreadRecord
<1>5. Attached'
  BY StartProcessorType DEF Attached
<1>6. LogAgrees' /\ Logged' /\ Remembered' /\ CrashersAreAvoided'
  <2>1. \A p \in Places : At(p)' = At(p)
    BY DEF At
  <2>2. QED BY <1>w, <2>1, SameHandlers, StartProcessorType
<1>7. Unready'
  BY StartProcessorType DEF Unready
<1>8. QED BY <1>1, <1>2, <1>3, <1>4, <1>5, <1>6, <1>7

(* FirstJob preserves CrashInv.                                            *)
LEMMA FirstJobCrash ==
  ASSUME CrashInv, NEW j \in Jobs, FirstJob(j)
  PROVE  CrashInv'
<1>. USE DEF CrashInv, TypeOK, FirstJob
<1>a. tracker \in Tracker
  BY DEF ServiceType
<1>b. /\ tracker' \in Tracker
      /\ tracker'.ready = tracker.ready /\ tracker'.open = tracker.open
      /\ tracker'.known = tracker.known /\ tracker'.log = tracker.log
      /\ tracker'.blacklist = tracker.blacklistFile \cup Suspects(tracker)
  BY <1>a, ReadEffect
<1>c. main \in MainRecord /\ main' = [main EXCEPT !.start = "tracker"]
  BY DEF MainType
<1>d. \A p \in Places : At(p)' = At(p)
  BY DEF At
<1>e. main'.start = "tracker" /\ main.start = "no"
  BY <1>c DEF MainRecord, InEventLoop
<1>1. jobs' \in [Jobs -> JobRecord]
  BY AcceptType
<1>2. ServiceType'
  BY <1>b, AcceptType DEF ServiceType
<1>3. MainType'
  BY <1>c DEF MainType, MainRecord
<1>4. ThreadType'
  BY DEF ThreadType, ThreadRecord
<1>5. Attached'
  BY <1>c, <1>e DEF Attached, MainRecord
<1>6. LogAgrees' /\ Logged' /\ Remembered' /\ CrashersAreAvoided'
  <2>1. LogAgrees'
    BY <1>b DEF LogAgrees, Suspects
  <2>2. \A q \in Places : At(q) = None \/ At(q).file \in forgotten
    BY DEF Logged, LogAgrees
  <2>3. Logged' /\ CrashersAreAvoided'
    BY <1>d, <2>2, InHandlerFiles, InHandlerFilesNext
      DEF Logged, CrashersAreAvoided
  <2>4. Suspects(tracker)' = Suspects(tracker)
    BY <1>b DEF Suspects
  <2>5. Remembered'
    BY <1>b, <1>e, <2>4 DEF Remembered
  <2>6. QED BY <2>1, <2>3, <2>5
<1>7. Unready'
  BY <1>b, <1>c, <1>e, AcceptType DEF Unready, MainRecord
<1>8. QED BY <1>1, <1>2, <1>3, <1>4, <1>5, <1>6, <1>7

(* WriteURL preserves CrashInv.                                            *)
LEMMA WriteURLCrash ==
  ASSUME CrashInv, NEW f \in Files, WriteURL(f)
  PROVE  CrashInv'
<1>. USE DEF CrashInv, TypeOK, WriteURL
<1>a. tracker \in Tracker
  BY DEF ServiceType
<1>b. /\ tracker' \in Tracker
      /\ tracker'.ready = tracker.ready /\ tracker'.open = tracker.open
      /\ tracker'.known = tracker.known /\ tracker'.log = tracker.log
      /\ tracker'.blacklist = tracker.blacklist
  BY <1>a, WriteEffect
<1>d. \A p \in Places : At(p)' = At(p)
  BY DEF At
<1>1. jobs' \in [Jobs -> JobRecord]
  OBVIOUS
<1>2. ServiceType'
  BY <1>b DEF ServiceType
<1>3. MainType'
  BY DEF MainType
<1>4. ThreadType'
  BY DEF ThreadType, ThreadRecord
<1>5. Attached'
  BY <1>b DEF Attached
<1>6. LogAgrees' /\ Logged' /\ Remembered' /\ CrashersAreAvoided'
  <2>1. LogAgrees'
    BY <1>b DEF LogAgrees, Suspects
  <2>2. Logged'
    BY <1>b, <1>d DEF Logged, Suspects
  <2>3. Suspects(tracker)' = Suspects(tracker)
    BY <1>b DEF Suspects
  <2>4. Remembered'
    BY <1>b, <2>3 DEF Remembered
  <2>5. CrashersAreAvoided'
    BY <1>d, InHandlerFiles, InHandlerFilesNext DEF CrashersAreAvoided
  <2>6. QED BY <2>1, <2>2, <2>4, <2>5
<1>7. Unready'
  BY <1>b, UnreadyKept
<1>8. QED BY <1>1, <1>2, <1>3, <1>4, <1>5, <1>6, <1>7

(* TrackerReady preserves CrashInv: every file the tracker remembers has   *)
(* its line on the disk before the log is thrown away.                     *)
LEMMA TrackerReadyCrash ==
  ASSUME CrashInv, TrackerReady
  PROVE  CrashInv'
<1>. USE DEF CrashInv, TypeOK, TrackerReady
<1>a. tracker \in Tracker
  BY DEF ServiceType
<1>b. /\ tracker' \in Tracker
      /\ tracker'.ready /\ tracker'.open = tracker.open
      /\ tracker'.known = tracker.known
      /\ tracker'.blacklist = tracker.blacklist
      /\ tracker'.blacklistFile = tracker.blacklistFile
  BY <1>a, ProcessedEffect
<1>c. ~tracker.ready
  BY DEF Unready
<1>d. \A p \in Places : At(p)' = At(p)
  BY DEF At
<1>e. main'.start = "thread" /\ main'.job = main.job
         /\ main'.items = main.items
  BY StartProcessorType
<1>1. jobs' \in [Jobs -> JobRecord]
  OBVIOUS
<1>2. ServiceType'
  BY <1>b DEF ServiceType
<1>3. MainType'
  BY StartProcessorType DEF MainType
<1>4. ThreadType'
  BY DEF ThreadType, ThreadRecord
<1>5. Attached'
  BY <1>b, <1>e DEF Attached
<1>6. LogAgrees' /\ Logged' /\ Remembered' /\ CrashersAreAvoided'
  <2>1. LogAgrees'
    BY <1>b, <1>c DEF LogAgrees
  <2>2. \A q \in Places : At(q) = None \/ At(q).file \in forgotten
    BY <1>c DEF Logged, LogAgrees
  <2>3. Logged'
    BY <1>d, <2>2 DEF Logged
  <2>4. crashed'.recent = {}
          /\ crashed'.older = crashed.recent \cup crashed.older
    OBVIOUS
  <2>5. Remembered'
    BY <1>b, <1>e, <2>4 DEF Remembered
  <2>6. CrashersAreAvoided'
    BY <1>d, <2>4, InHandlerFiles, InHandlerFilesNext
      DEF CrashersAreAvoided
  <2>7. QED BY <2>1, <2>3, <2>5, <2>6
<1>7. Unready'
  BY <1>b, <1>e DEF Unready
<1>8. QED BY <1>1, <1>2, <1>3, <1>4, <1>5, <1>6, <1>7

(* ObserveEnd preserves CrashInv.                                          *)
LEMMA ObserveEndCrash ==
  ASSUME CrashInv, ObserveEnd
  PROVE  CrashInv'
<1>. USE DEF CrashInv, TypeOK, ObserveEnd
<1>1. \A p \in Places : At(p)' = At(p)
  BY DEF At
<1>2. FilesInHandler \subseteq Files
  BY AtType, InHandlerFiles
<1>a. main'.start = main.start /\ main.start = "no"
  BY DEF MainType, MainRecord, InObserve
<1>b. service'.shutdown = service.shutdown /\ main'.notify = main.notify
  BY DEF MainType, MainRecord, ServiceType
<1>c. tracker'.ready = tracker.ready
  BY ResetEffect DEF ServiceType
<1>d. Unready'
  BY <1>a, <1>b, <1>c, UnreadyKept
<1>3. CASE AllComplete /\ tracker.ready
  <2>1. tracker' = [ResetLog(tracker) EXCEPT !.ready = TRUE]
    <3>1. ASSUME NEW r \in Tracker, r.ready
          PROVE  r = [r EXCEPT !.ready = TRUE]
      BY <3>1 DEF Tracker
    <3>2. QED BY <1>3, <3>1, ResetEffect DEF ServiceType
  <2>2. /\ LogAgrees' /\ Logged' /\ Remembered' /\ CrashersAreAvoided'
        /\ tracker' \in Tracker
    BY <1>1, <1>3, <1>a, <2>1, LogIsReset
  <2>3. ServiceType'
    BY <1>2, <1>3, <2>2 DEF ServiceType
  <2>4. MainType'
    BY DEF MainType, MainRecord
  <2>5. ThreadType' /\ (jobs \in [Jobs -> JobRecord])'
    BY DEF ThreadType
  <2>6. Attached'
    <3>1. service'.array = {}
      BY <1>3 DEF ServiceType
    <3>2. main'.job = main.job /\ main'.items = main.items
      BY DEF MainType, MainRecord
    <3>3. QED BY <3>1, <3>2 DEF Attached
  <2>7. QED BY <1>d, <2>2, <2>3, <2>4, <2>5, <2>6
<1>4. CASE AllComplete /\ ~tracker.ready
  <2>1. tracker' = tracker
    BY <1>4
  <2>2. \A p \in Places : At(p) = None \/ At(p).file \in forgotten
    BY <1>4 DEF Logged, LogAgrees
  <2>3. LogAgrees' /\ Remembered'
    BY <1>a, <2>1 DEF LogAgrees, Remembered, Suspects
  <2>4. Logged' /\ CrashersAreAvoided'
    BY <1>1, <1>4, <2>2, InHandlerFiles, InHandlerFilesNext
      DEF Logged, CrashersAreAvoided
  <2>5. ServiceType'
    BY <1>2, <1>4, <2>1 DEF ServiceType
  <2>6. MainType'
    BY DEF MainType, MainRecord
  <2>7. ThreadType'
    BY DEF ThreadType, ThreadRecord
  <2>8. service'.array = {}
    BY <1>4 DEF ServiceType
  <2>9. main'.job = main.job /\ main'.items = main.items
    BY DEF MainType, MainRecord
  <2>10. Attached'
    BY <2>8, <2>9 DEF Attached
  <2>11. QED BY <1>d, <2>3, <2>4, <2>5, <2>6, <2>7, <2>10
<1>5. CASE ~AllComplete
  <2>1. LogAgrees' /\ Logged' /\ Remembered' /\ CrashersAreAvoided'
    BY <1>1, <1>5, <1>a, SameHandlers
  <2>2. QED BY <1>5, <1>a, <1>d, <2>1
          DEF ServiceType, MainType, MainRecord, ThreadType, ThreadRecord,
                Attached
<1>6. QED BY <1>3, <1>4, <1>5

(* ShutdownEnd preserves CrashInv.                                         *)
LEMMA ShutdownEndCrash ==
  ASSUME CrashInv, ShutdownEnd
  PROVE  CrashInv'
<1>. USE DEF CrashInv, TypeOK, ShutdownEnd
<1>1. \A p \in Places : At(p)' = At(p)
  BY DEF At, ThreadType, ThreadRecord
<1>2. FilesInHandler \subseteq Files
  BY AtType, InHandlerFiles
<1>3. jobs' \in [Jobs -> JobRecord]
  BY CancelledType
<1>4. MainType' /\ ThreadType'
  BY DEF MainType, ThreadType, ThreadRecord
<1>5. service' \in [array: SUBSET Jobs, timer: BOOLEAN,
                    shutdown: {"no", "stopping", "joining", "done"}]
  OBVIOUS
<1>6. /\ LogAgrees' /\ Logged' /\ Remembered' /\ CrashersAreAvoided'
      /\ tracker' \in Tracker
  <2>1. CASE tracker.ready
    BY <1>1, <2>1, LogIsReset DEF InEventLoop
  <2>2. CASE ~tracker.ready
    <3>1. tracker' = tracker
      BY <2>2
    <3>2. \A p \in Places : At(p) = None \/ At(p).file \in forgotten
      BY <2>2 DEF Logged, LogAgrees
    <3>3. LogAgrees' /\ Remembered'
      BY <3>1 DEF LogAgrees, Remembered, Suspects
    <3>4. Logged' /\ CrashersAreAvoided'
      BY <1>1, <2>2, <3>2, InHandlerFiles, InHandlerFilesNext
        DEF Logged, CrashersAreAvoided
    <3>5. QED BY <3>1, <3>3, <3>4 DEF ServiceType
  <2>3. QED BY <2>1, <2>2
<1>7. ServiceType'
  BY <1>2, <1>5, <1>6 DEF ServiceType
<1>8. Attached'
  BY DEF Attached, ThreadType, ThreadRecord
<1>9. Unready'
  BY DEF Unready, InEventLoop
<1>10. QED BY <1>3, <1>4, <1>6, <1>7, <1>8, <1>9

(* The death of the process preserves CrashInv.                            *)
LEMMA CrashCrash ==
  ASSUME CrashInv, Crash
  PROVE  CrashInv'
<1>. USE DEF CrashInv, TypeOK, Crash
<1>1. \A p \in Places : At(p)' = None
  BY DEF At
<1>2. FilesInHandler \subseteq Files
  BY AtType, InHandlerFiles
<1>3. tracker \in Tracker
  BY DEF ServiceType
<1>4. /\ tracker' \in Tracker
      /\ ~tracker'.ready /\ ~tracker'.open /\ tracker'.known = {}
      /\ tracker'.log = tracker.log
      /\ tracker'.blacklistFile = tracker.blacklistFile
  BY <1>3, OnDiskEffect
<1>5. jobs' \in [Jobs -> JobRecord]
  BY NewJobType
<1>6. ServiceType'
  BY <1>2, <1>4 DEF ServiceType
<1>7. Idle \in MainRecord
  BY Ranges DEF Idle, MainRecord
<1>8. MainType' /\ ThreadType'
  BY <1>7 DEF MainType, ProcessorRecord, ThreadType, ThreadRecord
<1>9. Attached' /\ LogAgrees' /\ Logged'
  BY <1>1, <1>4 DEF Attached, LogAgrees, Logged, Idle
<1>10. Remembered'
  <2>1. FilesInHandler \ forgotten \subseteq Suspects(tracker)
    BY InHandlerFiles DEF Logged
  <2>2. crashed.recent \subseteq Suspects(tracker)
    BY DEF Remembered
  <2>3. crashed'.recent = crashed.recent \cup (FilesInHandler \ forgotten)
    OBVIOUS
  <2>4. crashed'.older \subseteq tracker.blacklistFile
    BY DEF Remembered
  <2>5. Suspects(tracker)' = Suspects(tracker)
    BY <1>4 DEF Suspects
  <2>6. crashed'.recent \subseteq Suspects(tracker)'
    BY <2>1, <2>2, <2>3, <2>5
  <2>7. main'.start = "no"
    BY DEF Idle
  <2>8. QED BY <1>4, <2>4, <2>6, <2>7 DEF Remembered
<1>11. CrashersAreAvoided'
  BY <1>1, InHandlerFilesNext DEF CrashersAreAvoided
<1>12. Unready'
  BY DEF Unready, Idle
<1>13. QED BY <1>5, <1>6, <1>8, <1>9, <1>10, <1>11, <1>12

(* A step that changes nothing preserves CrashInv.                         *)
LEMMA StutterCrash ==
  ASSUME CrashInv, UNCHANGED vars
  PROVE  CrashInv'
<1>. USE DEF CrashInv, TypeOK, vars
<1>1. \A p \in Places : At(p)' = At(p)
  BY DEF At
<1>2. LogAgrees' /\ Logged' /\ Remembered' /\ CrashersAreAvoided'
  BY <1>1, SameHandlers
<1>3. Unready'
  BY DEF Unready
<1>4. QED BY <1>2, <1>3
  DEF ServiceType, MainType, ThreadType, ThreadRecord, Attached

(* CrashInv holds when the application is first started.                   *)
LEMMA InitCrash == Init => CrashInv
<1>. SUFFICES ASSUME Init PROVE CrashInv
  OBVIOUS
<1>. USE DEF Init, InitSession
<1>1. \A p \in Places : At(p) = None
  BY DEF At
<1>2. NewTracker \in Tracker
  BY DEF NewTracker, Tracker, EmptyLog
<1>3. Idle \in MainRecord
  BY Ranges DEF Idle, MainRecord
<1>4. jobs \in [Jobs -> JobRecord]
  BY NewJobType
<1>5. ServiceType
  BY <1>2 DEF ServiceType
<1>6. MainType /\ ThreadType
  BY <1>3 DEF MainType, ProcessorRecord, ThreadType, ThreadRecord
<1>7. Attached /\ Unready /\ LogAgrees /\ Remembered
  BY DEF Attached, Unready, LogAgrees, Remembered, NewTracker, Idle, Suspects
<1>8. Logged
  BY <1>1 DEF Logged
<1>9. CrashersAreAvoided
  BY DEF CrashersAreAvoided
<1>10. QED BY <1>4, <1>5, <1>6, <1>7, <1>8, <1>9 DEF CrashInv, TypeOK

(* Every step of the service preserves CrashInv.                           *)
LEMMA NextCrash == CrashInv /\ [Next]_vars => CrashInv'
<1>. SUFFICES ASSUME CrashInv, [Next]_vars PROVE CrashInv'
  OBVIOUS
<1>1. ASSUME NEW j \in Jobs, StartJob(j) \/ FirstJob(j) \/ Cancel(j)
      PROVE  CrashInv'
  BY <1>1, StartJobCrash, FirstJobCrash, CancelCrash
<1>2. CASE NotifyStep
  BY <1>2, SlotBusyCrash, SlotCompletesCrash, SlotEmptyCrash,
     SlotSkipsCrash, SlotPrepareFailsCrash, SlotTakesCrash,
     SlotRefusedCrash, NotifyEndCrash
     DEF NotifyStep
<1>3. CASE ObserveStep
  BY <1>3, OnJobProgressCrash, CompleteItemCrash, JobProgressedCrash,
     ObserveEndCrash DEF ObserveStep
<1>4. CASE StopStep
  BY <1>4, StopEmptySlotCrash, StopSlotCrash, StopThreadCrash DEF StopStep
<1>5. CASE MainStep
  BY <1>2, <1>3, <1>4, <1>5, WriteURLCrash, TrackerReadyCrash,
     StartThreadCrash DEF MainStep
<1>6. CASE ThreadStep
  BY <1>6, ThreadGoesOnCrash, ThreadWaitsCrash, ThreadPutsCrash,
     ThreadDropsCrash, ThreadTakesCrash, ThreadSkipsCrash, ThreadEndsCrash
     DEF ThreadStep
<1>7. CASE HandlerStep
  BY <1>7, HandlerCompletesCrash DEF HandlerStep
<1>8. CASE StartEvent \/ NotifyTimer \/ Observe \/ ShutdownEnd
  BY <1>8, StartEventCrash, NotifyTimerCrash, ObserveCrash, ShutdownEndCrash
<1>9. CASE Shutdown \/ Crash
  BY <1>9, ShutdownCrash, CrashCrash
<1>10. CASE UNCHANGED vars
  BY <1>10, StutterCrash
<1>11. QED BY <1>1, <1>5, <1>6, <1>7, <1>8, <1>9, <1>10 DEF Next

(* CrashInv holds in every reachable state of the service.                 *)
THEOREM CrashInvariance == Spec => []CrashInv
BY InitCrash, NextCrash, PTL DEF Spec

(* Every variable of the service stays in range, and the log of the        *)
(* tracker never has more ends of a file than begins.                      *)
THEOREM TypeCorrect == Spec => []TypeOK
BY CrashInvariance, PTL DEF CrashInv

(* However often the process dies, also while it rewrites the blacklist, a *)
(* file that was in a handler when it did is never again in a handler.     *)
(* Left out are files that were in a handler when the log was reset, and   *)
(* files of older deaths whose line had not been written again when the    *)
(* process died: any number of files, of slots and of deaths.              *)
THEOREM CrashersStayAvoided == Spec => []CrashersAreAvoided
BY CrashInvariance, PTL DEF CrashInv

=============================================================================
