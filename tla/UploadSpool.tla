---------------------------- MODULE UploadSpool ----------------------------
(***************************************************************************)
(* The recording upload queue (crates/http/src/upload.rs).  The teardown   *)
(* of a call writes a job file for its recording; one worker passes over   *)
(* the jobs, puts each recording to the object store, removes the job,     *)
(* deletes the local file if so configured, and announces the upload on a  *)
(* channel from which a task emits the recording_uploaded webhook.         *)
(*                                                                         *)
(* A job file appears by rename, but its attempt count is bumped by a      *)
(* plain rewrite: between truncation and write the file is torn.  The      *)
(* daemon may die between any two file operations and come back; an        *)
(* operator may delete a recording.  Removing a file succeeds (the code    *)
(* ignores the result).  The order of the jobs in a pass is left out.      *)
(***************************************************************************)
EXTENDS Naturals, FiniteSets, Sequences

CONSTANTS
  Recording,
  MaxAttempts,  \* MAX_UPLOAD_ATTEMPTS
  OutcomeCap,   \* capacity of the outcome channel
  DeleteLocals, \* the values of delete_local_after_upload
  MaxCrashes    \* bound: restarts of the daemon

ASSUME UploadAssumption ==
  MaxAttempts \in Nat /\ OutcomeCap \in Nat \ {0} /\ DeleteLocals \subseteq BOOLEAN
ASSUME UploadBounds == MaxCrashes \in Nat

VARIABLES
  delete_local_after_upload,
  file,            \* the local recording
  job, attempts,   \* the job file of a recording, the attempts it counts
  worker, left, cur, \* the worker's step, the jobs of its pass to come, the job in hand
  outcomes,        \* the outcome channel
  received,        \* recordings in the object store
  announced,       \* recordings whose webhook was emitted
  verdict, crashes

jobVars == <<job, attempts>>
passVars == <<worker, left, cur>>
fateVars == <<received, announced, verdict>>
worldVars == <<crashes, delete_local_after_upload>>
vars == <<file, jobVars, passVars, outcomes, fateVars, worldVars>>

FileState == {"none", "there", "deleted", "gone"}
JobState == {"none", "whole", "torn"}
WorkerState == {"waiting", "pass", "put", "stored", "removed", "announce", "failed", "rewriting"}

Jobs == {r \in Recording : job[r] # "none"}

Init ==
  /\ delete_local_after_upload \in DeleteLocals
  /\ file = [r \in Recording |-> "none"]
  /\ job = [r \in Recording |-> "none"] /\ attempts = [r \in Recording |-> 0]
  /\ worker = "waiting" /\ left = {} /\ cur \in Recording
  /\ outcomes = <<>> /\ received = {} /\ announced = {}
  /\ verdict = [r \in Recording |-> "none"] /\ crashes = 0

-----------------------------------------------------------------------------
(* The teardown of the call: the recording is final; its job is written,     *)
(* whole, or the write fails and the recording stays local.                  *)

Finalize(r) ==
  /\ file[r] = "none"
  /\ file' = [file EXCEPT ![r] = "there"]
  /\ \/ job' = [job EXCEPT ![r] = "whole"] /\ UNCHANGED verdict
     \/ verdict' = [verdict EXCEPT ![r] = "dropped"] /\ UNCHANGED job
  /\ UNCHANGED <<attempts, passVars, outcomes, received, announced, worldVars>>

\* The operator, or a retention job, deletes a recording.
Vanish(r) ==
  /\ file[r] = "there"
  /\ file' = [file EXCEPT ![r] = "gone"]
  /\ UNCHANGED <<jobVars, passVars, outcomes, fateVars, worldVars>>

-----------------------------------------------------------------------------
(* The worker. *)

drain_once ==
  /\ worker = "waiting"
  /\ worker' = "pass" /\ left' = Jobs
  /\ UNCHANGED <<file, jobVars, cur, outcomes, fateVars, worldVars>>

Drop(r) ==
  /\ job' = [job EXCEPT ![r] = "none"] /\ verdict' = [verdict EXCEPT ![r] = "dropped"]
  /\ UNCHANGED attempts

\* A job that cannot be read, has used up its attempts or has lost its recording is dropped.
Unusable(r) == job[r] = "torn" \/ attempts[r] >= MaxAttempts \/ file[r] # "there"

TakeJob(r) ==
  /\ worker = "pass" /\ r \in left
  /\ left' = left \ {r} /\ cur' = r
  /\ \/ Unusable(r) /\ Drop(r) /\ UNCHANGED worker
     \/ ~Unusable(r) /\ worker' = "put" /\ UNCHANGED <<jobVars, verdict>>
  /\ UNCHANGED <<file, outcomes, received, announced, worldVars>>

PassEnd ==
  /\ worker = "pass" /\ left = {}
  /\ worker' = "waiting"
  /\ UNCHANGED <<file, jobVars, left, cur, outcomes, fateVars, worldVars>>

\* Mutant: the local file is deleted before the job is removed.
put_file_DeletesFirst(ok) ==
  /\ worker = "put" /\ file[cur] = "there"
  /\ received' = IF ok THEN received \cup {cur} ELSE received
  /\ worker' = IF ok THEN "stored" ELSE "failed"
  /\ file' = IF ok /\ delete_local_after_upload THEN [file EXCEPT ![cur] = "deleted"] ELSE file
  /\ UNCHANGED <<jobVars, left, cur, outcomes, announced, verdict, worldVars>>

\* The file is read while it is sent.  A failed PUT may have stored the object; the client
\* has no timeout, so nothing says that a PUT returns (see Fairness).
put_file(ok) ==
  /\ worker = "put"
  /\ \/ ok /\ file[cur] = "there" /\ received' = received \cup {cur} /\ worker' = "stored"
     \/ ~ok /\ worker' = "failed" /\ received' \in {received, received \cup {cur}}
  /\ UNCHANGED <<file, jobVars, left, cur, outcomes, announced, verdict, worldVars>>

RemoveJob ==
  /\ worker = "stored" /\ worker' = "removed"
  /\ job' = [job EXCEPT ![cur] = "none"] /\ verdict' = [verdict EXCEPT ![cur] = "delivered"]
  /\ UNCHANGED <<file, attempts, left, cur, outcomes, received, announced, worldVars>>

DeleteLocal ==
  /\ worker = "removed" /\ worker' = "announce"
  /\ file' = IF delete_local_after_upload /\ file[cur] = "there"
             THEN [file EXCEPT ![cur] = "deleted"] ELSE file
  /\ UNCHANGED <<jobVars, left, cur, outcomes, fateVars, worldVars>>

\* Mutant: the outcome is dropped when the channel is full.
SendOutcome_TrySend ==
  /\ worker = "announce" /\ worker' = "pass"
  /\ outcomes' = IF Len(outcomes) < OutcomeCap THEN Append(outcomes, cur) ELSE outcomes
  /\ UNCHANGED <<file, jobVars, left, cur, fateVars, worldVars>>

\* The send waits for room.
SendOutcome ==
  /\ worker = "announce" /\ Len(outcomes) < OutcomeCap
  /\ worker' = "pass" /\ outcomes' = Append(outcomes, cur)
  /\ UNCHANGED <<file, jobVars, left, cur, fateVars, worldVars>>

\* The bumped count is written over the job.
TruncateJob ==
  /\ worker = "failed" /\ worker' = "rewriting"
  /\ job' = [job EXCEPT ![cur] = "torn"]
  /\ UNCHANGED <<file, attempts, left, cur, outcomes, fateVars, worldVars>>

\* Mutant: the attempt count on disk is never bumped.
RewriteJob_KeepsCount ==
  /\ worker = "rewriting" /\ worker' = "pass"
  /\ job' = [job EXCEPT ![cur] = "whole"]
  /\ UNCHANGED <<file, attempts, left, cur, outcomes, fateVars, worldVars>>

RewriteJob ==
  /\ worker = "rewriting" /\ worker' = "pass"
  /\ job' = [job EXCEPT ![cur] = "whole"]
  /\ attempts' = [attempts EXCEPT ![cur] = @ + 1]
  /\ UNCHANGED <<file, left, cur, outcomes, fateVars, worldVars>>

\* The result of the write is ignored: a job that cannot be opened keeps the count it has,
\* one that is truncated and not written stays torn.
RewriteFails ==
  /\ worker \in {"failed", "rewriting"} /\ worker' = "pass"
  /\ UNCHANGED <<file, jobVars, left, cur, outcomes, fateVars, worldVars>>

\* The task that emits recording_uploaded.
ForwardOutcome ==
  /\ outcomes # <<>>
  /\ announced' = announced \cup {Head(outcomes)} /\ outcomes' = Tail(outcomes)
  /\ UNCHANGED <<file, jobVars, passVars, received, verdict, worldVars>>

-----------------------------------------------------------------------------
\* Mutant: the start of the daemon empties the spool directory.
Restart_ClearsSpool ==
  /\ crashes < MaxCrashes /\ crashes' = crashes + 1
  /\ worker' = "waiting" /\ left' = {} /\ outcomes' = <<>>
  /\ job' = [r \in Recording |-> "none"]
  /\ UNCHANGED <<file, attempts, cur, fateVars, delete_local_after_upload>>

\* The daemon dies, or exits with the worker aborted; the files stay as they are.
Restart ==
  /\ crashes < MaxCrashes /\ crashes' = crashes + 1
  /\ worker' = "waiting" /\ left' = {} /\ outcomes' = <<>>
  /\ UNCHANGED <<file, jobVars, cur, fateVars, delete_local_after_upload>>

WorkerTask ==
  \/ drain_once \/ PassEnd \/ \E r \in Recording : TakeJob(r)
  \/ RemoveJob \/ DeleteLocal \/ SendOutcome \/ TruncateJob \/ RewriteJob \/ RewriteFails

Next ==
  \/ \E r \in Recording : Finalize(r) \/ Vanish(r)
  \/ WorkerTask \/ \E ok \in BOOLEAN : put_file(ok)
  \/ ForwardOutcome \/ Restart

(***************************************************************************)
(* The worker and the forwarder are tasks of the runtime, so each goes on  *)
(* when it can.  Only put_file is not the runtime's to finish: it waits    *)
(* for the object store, without a limit.                                  *)
(***************************************************************************)
Fairness == WF_vars(WorkerTask) /\ WF_vars(ForwardOutcome)

Spec == Init /\ [][Next]_vars
FairSpec == Spec /\ Fairness

-----------------------------------------------------------------------------
(* Properties. *)

TypeOK ==
  /\ file \in [Recording -> FileState] /\ job \in [Recording -> JobState]
  /\ attempts \in [Recording -> 0 .. MaxAttempts]
  /\ worker \in WorkerState /\ left \in SUBSET Recording /\ cur \in Recording
  /\ outcomes \in Seq(Recording) /\ Len(outcomes) <= OutcomeCap
  /\ received \in SUBSET Recording /\ announced \in SUBSET Recording
  /\ verdict \in [Recording -> {"none", "delivered", "dropped"}]
  /\ crashes \in 0 .. MaxCrashes /\ delete_local_after_upload \in DeleteLocals

\* upload.rs:13: the daemon deletes a recording only when the object store has it and its
\* job is done; a dropped upload "stays local-only" (DEPLOY.md:1493), however a crash
\* interrupts the steps that follow a PUT.
LocalKept ==
  \A r \in Recording :
    file[r] = "deleted" => r \in received /\ verdict[r] = "delivered" /\ job[r] = "none"

\* A final recording has a job or a verdict, never both and never neither.
OwedOnce ==
  \A r \in Recording :
    /\ file[r] = "none" => job[r] = "none" /\ verdict[r] = "none"
    /\ file[r] # "none" => (job[r] = "none" <=> verdict[r] # "none")

\* The recording_uploaded webhook is emitted only for a completed upload ...
AnnouncedStored ==
  \A r \in Recording :
    r \in announced \/ (\E i \in 1 .. Len(outcomes) : outcomes[i] = r) =>
      r \in received /\ verdict[r] = "delivered"

\* ... and, until the daemon dies, every completed upload is announced or on its way to be,
\* with the channel full as well.
UploadAnnounced ==
  crashes = 0 =>
    \A r \in Recording : verdict[r] = "delivered" =>
      \/ r \in announced
      \/ \E i \in 1 .. Len(outcomes) : outcomes[i] = r
      \/ cur = r /\ worker \in {"removed", "announce"}

\* The webhook tells the truth about the store, and the whole of it.
Announcements == AnnouncedStored /\ UploadAnnounced

\* The two ways in which a job can stay for ever: the worker waits in a PUT that does not
\* return, or time after time the failure of an attempt cannot be counted in the job.
PutNeverReturns == <>[](worker = "put")
NeverCounted(r) == []<><<cur = r /\ RewriteFails>>_vars

\* "Never retried forever" (upload.rs:11), as far as it goes: with PUTs that return and
\* counts that reach the disk in the end, every job leaves the spool, even when the store
\* never takes the recording and the daemon restarts between attempts.
JobsEnd ==
  PutNeverReturns \/ \A r \in Recording :
                       NeverCounted(r) \/ ((job[r] # "none") ~> (job[r] = "none"))

\* What upload.rs:11 and :34 say without a condition.  The code does not keep it: see
\* PutNeverReturns and NeverCounted.
JobsNeverWedge == \A r \in Recording : (job[r] # "none") ~> (job[r] = "none")

\* The spool is a durable queue.
Queue == INSTANCE DurableDelivery WITH Item <- Recording, owed <- Jobs
QueueSpec == Queue!Spec
=============================================================================
