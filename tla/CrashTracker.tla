---------------------------- MODULE CrashTracker ----------------------------
(***************************************************************************)
(* sbMetadataCrashTracker: the files that were in a metadata handler when  *)
(* the application died are not handed to a handler again.                 *)
(*                                                                         *)
(* The tracker writes a record to a log before a handler starts on a file  *)
(* and another when it has ended, and the next session blacklists every    *)
(* file whose last record is missing: it rewrites the blacklist line by    *)
(* line, and then removes the log.  Records are matched by a number;       *)
(* the tracker remembers for each file only the number it gave it last.    *)
(* A log is therefore kept here as the count of records of each file that  *)
(* have no end, and the map from files to numbers as the set of files it   *)
(* knows.  What is written to the log and to the blacklist is on the disk  *)
(* and survives; the rest does not.                                        *)
(***************************************************************************)
EXTENDS Naturals

CONSTANT Files   \* the URLs of media items

EmptyLog == [f \in Files |-> 0]

Tracker ==
  [ready: BOOLEAN,             \* mCrashTracker is there and initialised
   blacklist: SUBSET Files,    \* mURLBlacklist
   known: SUBSET Files,        \* the keys of mURLToIndexMap
   open: BOOLEAN,              \* mOutputStream
   log: [Files -> Nat],        \* metadata-io.log
   blacklistFile: SUBSET Files \* metadata-url-io.blacklist
  ]

NewTracker ==
  [ready |-> FALSE, blacklist |-> {}, known |-> {}, open |-> FALSE,
   log |-> EmptyLog, blacklistFile |-> {}]

(* The files a handler has started on and not ended, as the log has it.    *)
Suspects(t) == {f \in Files : t.log[f] > 0}

(* Mutant of ReadTracker: the log is thrown away before the blacklist is    *)
(* rewritten.                                                              *)
LogRemovedFirst(t) ==
  [t EXCEPT !.blacklist = t.blacklistFile \cup Suspects(t), !.log = EmptyLog,
            !.blacklistFile = IF Suspects(t) = {} THEN @ ELSE {}]

(* ReadBlacklist, and ProcessExistingLog until WriteBlacklist has truncated *)
(* the file: with no suspect in the log it is left as it is.               *)
ReadTracker(t) ==
  [t EXCEPT !.blacklist = t.blacklistFile \cup Suspects(t),
            !.blacklistFile = IF Suspects(t) = {} THEN @ ELSE {}]

(* WriteBlacklistURLToFile: one URL after the other.                       *)
WriteBlacklistURL(t, f) == [t EXCEPT !.blacklistFile = @ \cup {f}]

(* ProcessExistingLog throws the log away, which ends Init.                *)
LogProcessed(t) == [t EXCEPT !.ready = TRUE, !.log = EmptyLog]

StartLog(t) == [t EXCEPT !.open = TRUE, !.log = EmptyLog]

LogURLBegin(t, f) ==
  LET s == IF t.open THEN t ELSE StartLog(t)
  IN [s EXCEPT !.log[f] = @ + 1, !.known = @ \cup {f}]

LogURLEnd(t, f) ==
  IF t.open /\ f \in t.known
    THEN [t EXCEPT !.log[f] = @ - 1, !.known = @ \ {f}]
    ELSE t

(* The log is removed only when this session has opened it.                *)
ResetLog(t) ==
  [t EXCEPT !.open = FALSE, !.known = {},
            !.log = IF t.open THEN EmptyLog ELSE @]

(* The process dies.                                                       *)
OnDisk(t) ==
  [NewTracker EXCEPT !.log = t.log, !.blacklistFile = t.blacklistFile]

=============================================================================
