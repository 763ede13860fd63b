----------------------------- MODULE JobPromise -----------------------------
(***************************************************************************)
(* What a metadata job promises to whoever started it: every file it was   *)
(* given is done or reported as failed before the job ends, the job has    *)
(* succeeded just when it did them all, and a job that has ended does not  *)
(* touch a file any more.  How the files get to their handlers is left to  *)
(* MetadataService, which implements this specification.                   *)
(***************************************************************************)
CONSTANTS
  Jobs,     \* the jobs
  FilesOf   \* the files each is given

VARIABLES
  status,   \* sbIJobProgress::GetStatus
  done,     \* the files whose handler found, or wrote, what it should
  failed    \* the files GetErrorMessages lists

vars == <<status, done, failed>>

Init ==
  /\ status = [j \in Jobs |-> "none"]
  /\ done = [j \in Jobs |-> {}]
  /\ failed = [j \in Jobs |-> {}]

(* Files of which no handler knows the kind have failed at once.           *)
Start(j) ==
  /\ status[j] = "none"
  /\ status' = [status EXCEPT ![j] = "running"]
  /\ \E fs \in SUBSET FilesOf[j] : failed' = [failed EXCEPT ![j] = fs]
  /\ UNCHANGED done

Do(j, f) ==
  /\ status[j] = "running" /\ f \in FilesOf[j] \ done[j]
  /\ done' = [done EXCEPT ![j] = @ \cup {f}]
  /\ UNCHANGED <<status, failed>>

Fail(j, f) ==
  /\ status[j] = "running" /\ f \in FilesOf[j] \ done[j]
  /\ failed' = [failed EXCEPT ![j] = @ \cup {f}]
  /\ UNCHANGED <<status, done>>

Outcome(j) ==
  IF done[j] = FilesOf[j] /\ failed[j] = {} THEN "succeeded" ELSE "failed"

End(j) ==
  /\ status[j] = "running" /\ done[j] \cup failed[j] = FilesOf[j]
  /\ status' = [status EXCEPT ![j] = Outcome(j)]
  /\ UNCHANGED <<done, failed>>

(* Jobs are cancelled, by somebody or because the service shuts down.      *)
Cancel(js) ==
  /\ status' = [j \in Jobs |-> IF j \in js /\ status[j] = "running"
                                 THEN Outcome(j) ELSE status[j]]
  /\ UNCHANGED <<done, failed>>

(* The application dies, and another session begins.                       *)
Die ==
  /\ status' = [j \in Jobs |-> "none"]
  /\ done' = [j \in Jobs |-> {}]
  /\ failed' = [j \in Jobs |-> {}]

Next ==
  \/ \E j \in Jobs : Start(j) \/ End(j)
  \/ \E j \in Jobs : \E f \in FilesOf[j] : Do(j, f) \/ Fail(j, f)
  \/ \E js \in SUBSET Jobs : Cancel(js)
  \/ Die

Spec == Init /\ [][Next]_vars

=============================================================================
