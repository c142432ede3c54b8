------------------------- MODULE UploadSpoolProofs -------------------------
(***************************************************************************)
(* Proofs about UploadSpool, for any recordings, attempt budget, channel   *)
(* capacity and number of restarts: its types, that a local file outlives  *)
(* every failure, that outcomes tell the truth and arrive, and that the    *)
(* spool implements DurableDelivery.                                       *)
(***************************************************************************)
EXTENDS UploadSpool, TLAPS

\* What each step of the worker may assume of the job in hand.
WorkerBooks ==
  /\ worker \in {"put", "stored", "failed"} => job[cur] = "whole"
  /\ worker = "rewriting" => job[cur] = "torn"
  /\ worker \in {"put", "stored", "failed", "rewriting"} => attempts[cur] < MaxAttempts
  /\ worker = "stored" => cur \in received
  /\ worker \in {"removed", "announce"} => cur \in received /\ verdict[cur] = "delivered"
  /\ left \subseteq Jobs
  /\ worker = "waiting" => left = {}
  /\ worker \notin {"waiting", "pass"} => cur \notin left
  /\ \A r \in Recording : verdict[r] = "delivered" => r \in received

Safe == LocalKept /\ OwedOnce /\ AnnouncedStored /\ UploadAnnounced

IInv == TypeOK /\ Safe /\ WorkerBooks

LEMMA InitInv == Init => IInv
BY UploadAssumption, UploadBounds
   DEF Init, IInv, Safe, TypeOK, LocalKept, OwedOnce, AnnouncedStored, UploadAnnounced,
       WorkerBooks, FileState, JobState, WorkerState, Jobs

-----------------------------------------------------------------------------
(* Each step keeps the invariant, one conjunct after the other. *)

\* A final recording gets a job, or stays local.
LEMMA Inv_Finalize ==
  ASSUME IInv, NEW r \in Recording, Finalize(r)
  PROVE  IInv'
<1>1. TypeOK'
  BY UploadAssumption, UploadBounds DEF IInv, Safe, TypeOK, WorkerBooks, FileState, JobState, WorkerState,
     Finalize, jobVars, passVars, worldVars, fateVars
<1>2. LocalKept'
  BY DEF IInv, Safe, TypeOK, LocalKept, OwedOnce, WorkerBooks,
     Finalize, jobVars, passVars, worldVars, fateVars
<1>3. OwedOnce'
  BY DEF IInv, Safe, TypeOK, OwedOnce, WorkerBooks, Jobs,
     Finalize, jobVars, passVars, worldVars, fateVars
<1>4. AnnouncedStored'
  BY DEF IInv, Safe, TypeOK, OwedOnce, AnnouncedStored, WorkerBooks, Jobs,
     Finalize, jobVars, passVars, worldVars, fateVars
<1>5. UploadAnnounced'
  BY DEF IInv, Safe, TypeOK, OwedOnce, UploadAnnounced, WorkerBooks, Jobs,
     Finalize, jobVars, passVars, worldVars, fateVars
<1>6. WorkerBooks'
  BY UploadAssumption DEF IInv, Safe, TypeOK, OwedOnce, WorkerBooks, Jobs, WorkerState, JobState,
     Finalize, jobVars, passVars, worldVars, fateVars
<1> QED BY <1>1, <1>2, <1>3, <1>4, <1>5, <1>6 DEF IInv, Safe

\* A recording that vanishes was not deleted by the daemon.
LEMMA Inv_Vanish ==
  ASSUME IInv, NEW r \in Recording, Vanish(r)
  PROVE  IInv'
<1>1. TypeOK'
  BY UploadAssumption, UploadBounds DEF IInv, Safe, TypeOK, WorkerBooks, FileState, JobState, WorkerState,
     Vanish, jobVars, passVars, worldVars, fateVars
<1>2. LocalKept'
  BY DEF IInv, Safe, TypeOK, LocalKept, OwedOnce, WorkerBooks,
     Vanish, jobVars, passVars, worldVars, fateVars
<1>3. OwedOnce'
  BY DEF IInv, Safe, TypeOK, OwedOnce, WorkerBooks, Jobs,
     Vanish, jobVars, passVars, worldVars, fateVars
<1>4. AnnouncedStored'
  BY DEF IInv, Safe, TypeOK, OwedOnce, AnnouncedStored, WorkerBooks, Jobs,
     Vanish, jobVars, passVars, worldVars, fateVars
<1>5. UploadAnnounced'
  BY DEF IInv, Safe, TypeOK, OwedOnce, UploadAnnounced, WorkerBooks, Jobs,
     Vanish, jobVars, passVars, worldVars, fateVars
<1>6. WorkerBooks'
  BY UploadAssumption DEF IInv, Safe, TypeOK, OwedOnce, WorkerBooks, Jobs, WorkerState, JobState,
     Vanish, jobVars, passVars, worldVars, fateVars
<1> QED BY <1>1, <1>2, <1>3, <1>4, <1>5, <1>6 DEF IInv, Safe

\* A pass lists the jobs there are.
LEMMA Inv_drain_once ==
  ASSUME IInv, drain_once
  PROVE  IInv'
<1>1. TypeOK'
  BY UploadAssumption, UploadBounds DEF IInv, Safe, TypeOK, WorkerBooks, FileState, JobState, WorkerState, Jobs,
     drain_once, jobVars, passVars, worldVars, fateVars
<1>2. LocalKept'
  BY DEF IInv, Safe, TypeOK, LocalKept, OwedOnce, WorkerBooks,
     drain_once, jobVars, passVars, worldVars, fateVars
<1>3. OwedOnce'
  BY DEF IInv, Safe, TypeOK, OwedOnce, WorkerBooks, Jobs,
     drain_once, jobVars, passVars, worldVars, fateVars
<1>4. AnnouncedStored'
  BY DEF IInv, Safe, TypeOK, OwedOnce, AnnouncedStored, WorkerBooks, Jobs,
     drain_once, jobVars, passVars, worldVars, fateVars
<1>5. UploadAnnounced'
  BY DEF IInv, Safe, TypeOK, OwedOnce, UploadAnnounced, WorkerBooks, Jobs,
     drain_once, jobVars, passVars, worldVars, fateVars
<1>6. WorkerBooks'
  BY UploadAssumption DEF IInv, Safe, TypeOK, OwedOnce, WorkerBooks, Jobs, WorkerState, JobState,
     drain_once, jobVars, passVars, worldVars, fateVars
<1> QED BY <1>1, <1>2, <1>3, <1>4, <1>5, <1>6 DEF IInv, Safe

\* The next job is dropped or taken in hand.
LEMMA Inv_TakeJob ==
  ASSUME IInv, NEW r \in Recording, TakeJob(r)
  PROVE  IInv'
<1>1. TypeOK'
  BY UploadAssumption, UploadBounds DEF IInv, Safe, TypeOK, WorkerBooks, FileState, JobState, WorkerState,
     TakeJob, Unusable, Drop, jobVars, passVars, worldVars, fateVars
<1>2. LocalKept'
  BY DEF IInv, Safe, TypeOK, LocalKept, OwedOnce, WorkerBooks, Jobs,
     TakeJob, Unusable, Drop, jobVars, passVars, worldVars, fateVars
<1>3. OwedOnce'
  BY DEF IInv, Safe, TypeOK, OwedOnce, WorkerBooks, Jobs,
     TakeJob, Unusable, Drop, jobVars, passVars, worldVars, fateVars
<1>4. AnnouncedStored'
  BY DEF IInv, Safe, TypeOK, OwedOnce, AnnouncedStored, WorkerBooks, Jobs,
     TakeJob, Unusable, Drop, jobVars, passVars, worldVars, fateVars
<1>5. UploadAnnounced'
  BY DEF IInv, Safe, TypeOK, OwedOnce, UploadAnnounced, WorkerBooks, Jobs,
     TakeJob, Unusable, Drop, jobVars, passVars, worldVars, fateVars
<1>6. WorkerBooks'
  BY UploadAssumption DEF IInv, Safe, TypeOK, OwedOnce, WorkerBooks, Jobs, WorkerState, JobState,
     TakeJob, Unusable, Drop, jobVars, passVars, worldVars, fateVars
<1> QED BY <1>1, <1>2, <1>3, <1>4, <1>5, <1>6 DEF IInv, Safe

\* The end of a pass touches no job.
LEMMA Inv_PassEnd ==
  ASSUME IInv, PassEnd
  PROVE  IInv'
<1>1. TypeOK'
  BY UploadAssumption, UploadBounds DEF IInv, Safe, TypeOK, WorkerBooks, FileState, JobState, WorkerState,
     PassEnd, jobVars, passVars, worldVars, fateVars
<1>2. LocalKept'
  BY DEF IInv, Safe, TypeOK, LocalKept, OwedOnce, WorkerBooks,
     PassEnd, jobVars, passVars, worldVars, fateVars
<1>3. OwedOnce'
  BY DEF IInv, Safe, TypeOK, OwedOnce, WorkerBooks, Jobs,
     PassEnd, jobVars, passVars, worldVars, fateVars
<1>4. AnnouncedStored'
  BY DEF IInv, Safe, TypeOK, OwedOnce, AnnouncedStored, WorkerBooks, Jobs,
     PassEnd, jobVars, passVars, worldVars, fateVars
<1>5. UploadAnnounced'
  BY DEF IInv, Safe, TypeOK, OwedOnce, UploadAnnounced, WorkerBooks, Jobs,
     PassEnd, jobVars, passVars, worldVars, fateVars
<1>6. WorkerBooks'
  BY UploadAssumption DEF IInv, Safe, TypeOK, OwedOnce, WorkerBooks, Jobs, WorkerState, JobState,
     PassEnd, jobVars, passVars, worldVars, fateVars
<1> QED BY <1>1, <1>2, <1>3, <1>4, <1>5, <1>6 DEF IInv, Safe

\* A PUT only adds to the object store.
LEMMA Inv_put_file ==
  ASSUME IInv, NEW ok \in BOOLEAN, put_file(ok)
  PROVE  IInv'
<1>1. TypeOK'
  BY UploadAssumption, UploadBounds DEF IInv, Safe, TypeOK, WorkerBooks, FileState, JobState, WorkerState,
     put_file, jobVars, passVars, worldVars, fateVars
<1>2. LocalKept'
  BY DEF IInv, Safe, TypeOK, LocalKept, OwedOnce, WorkerBooks,
     put_file, jobVars, passVars, worldVars, fateVars
<1>3. OwedOnce'
  BY DEF IInv, Safe, TypeOK, OwedOnce, WorkerBooks, Jobs,
     put_file, jobVars, passVars, worldVars, fateVars
<1>4. AnnouncedStored'
  BY DEF IInv, Safe, TypeOK, OwedOnce, AnnouncedStored, WorkerBooks, Jobs,
     put_file, jobVars, passVars, worldVars, fateVars
<1>5. UploadAnnounced'
  BY DEF IInv, Safe, TypeOK, OwedOnce, UploadAnnounced, WorkerBooks, Jobs,
     put_file, jobVars, passVars, worldVars, fateVars
<1>6. WorkerBooks'
  BY UploadAssumption DEF IInv, Safe, TypeOK, OwedOnce, WorkerBooks, Jobs, WorkerState, JobState,
     put_file, jobVars, passVars, worldVars, fateVars
<1> QED BY <1>1, <1>2, <1>3, <1>4, <1>5, <1>6 DEF IInv, Safe

\* The job is settled once the recording is stored.
LEMMA Inv_RemoveJob ==
  ASSUME IInv, RemoveJob
  PROVE  IInv'
<1>1. TypeOK'
  BY UploadAssumption, UploadBounds DEF IInv, Safe, TypeOK, WorkerBooks, FileState, JobState, WorkerState,
     RemoveJob, jobVars, passVars, worldVars, fateVars
<1>2. LocalKept'
  BY DEF IInv, Safe, TypeOK, LocalKept, OwedOnce, WorkerBooks,
     RemoveJob, jobVars, passVars, worldVars, fateVars
<1>3. OwedOnce'
  BY DEF IInv, Safe, TypeOK, OwedOnce, WorkerBooks, Jobs,
     RemoveJob, jobVars, passVars, worldVars, fateVars
<1>4. AnnouncedStored'
  BY DEF IInv, Safe, TypeOK, OwedOnce, AnnouncedStored, WorkerBooks, Jobs,
     RemoveJob, jobVars, passVars, worldVars, fateVars
<1>5. UploadAnnounced'
  BY DEF IInv, Safe, TypeOK, OwedOnce, UploadAnnounced, WorkerBooks, Jobs,
     RemoveJob, jobVars, passVars, worldVars, fateVars
<1>6. WorkerBooks'
  BY UploadAssumption DEF IInv, Safe, TypeOK, OwedOnce, WorkerBooks, Jobs, WorkerState, JobState,
     RemoveJob, jobVars, passVars, worldVars, fateVars
<1> QED BY <1>1, <1>2, <1>3, <1>4, <1>5, <1>6 DEF IInv, Safe

\* The local file goes after its job.
LEMMA Inv_DeleteLocal ==
  ASSUME IInv, DeleteLocal
  PROVE  IInv'
<1>1. TypeOK'
  BY UploadAssumption, UploadBounds DEF IInv, Safe, TypeOK, WorkerBooks, FileState, JobState, WorkerState,
     DeleteLocal, jobVars, passVars, worldVars, fateVars
<1>2. LocalKept'
  BY DEF IInv, Safe, TypeOK, LocalKept, OwedOnce, WorkerBooks,
     DeleteLocal, jobVars, passVars, worldVars, fateVars
<1>3. OwedOnce'
  BY DEF IInv, Safe, TypeOK, OwedOnce, WorkerBooks, Jobs,
     DeleteLocal, jobVars, passVars, worldVars, fateVars
<1>4. AnnouncedStored'
  BY DEF IInv, Safe, TypeOK, OwedOnce, AnnouncedStored, WorkerBooks, Jobs,
     DeleteLocal, jobVars, passVars, worldVars, fateVars
<1>5. UploadAnnounced'
  BY DEF IInv, Safe, TypeOK, OwedOnce, UploadAnnounced, WorkerBooks, Jobs,
     DeleteLocal, jobVars, passVars, worldVars, fateVars
<1>6. WorkerBooks'
  BY UploadAssumption DEF IInv, Safe, TypeOK, OwedOnce, WorkerBooks, Jobs, WorkerState, JobState,
     DeleteLocal, jobVars, passVars, worldVars, fateVars
<1> QED BY <1>1, <1>2, <1>3, <1>4, <1>5, <1>6 DEF IInv, Safe

\* The outcome is of a stored recording, and goes behind the others.
LEMMA Inv_SendOutcome ==
  ASSUME IInv, SendOutcome
  PROVE  IInv'
<1>1. TypeOK'
  BY UploadAssumption, UploadBounds DEF IInv, Safe, TypeOK, WorkerBooks, FileState, JobState, WorkerState,
     SendOutcome, jobVars, passVars, worldVars, fateVars
<1>2. LocalKept'
  BY DEF IInv, Safe, TypeOK, LocalKept, OwedOnce, WorkerBooks,
     SendOutcome, jobVars, passVars, worldVars, fateVars
<1>3. OwedOnce'
  BY DEF IInv, Safe, TypeOK, OwedOnce, WorkerBooks, Jobs,
     SendOutcome, jobVars, passVars, worldVars, fateVars
<1>4. AnnouncedStored'
  BY DEF IInv, Safe, TypeOK, OwedOnce, AnnouncedStored, WorkerBooks, Jobs,
     SendOutcome, jobVars, passVars, worldVars, fateVars
<1>5. UploadAnnounced'
  BY DEF IInv, Safe, TypeOK, OwedOnce, UploadAnnounced, WorkerBooks, Jobs,
     SendOutcome, jobVars, passVars, worldVars, fateVars
<1>6. WorkerBooks'
  BY UploadAssumption DEF IInv, Safe, TypeOK, OwedOnce, WorkerBooks, Jobs, WorkerState, JobState,
     SendOutcome, jobVars, passVars, worldVars, fateVars
<1> QED BY <1>1, <1>2, <1>3, <1>4, <1>5, <1>6 DEF IInv, Safe

\* A torn job is still owed.
LEMMA Inv_TruncateJob ==
  ASSUME IInv, TruncateJob
  PROVE  IInv'
<1>1. TypeOK'
  BY UploadAssumption, UploadBounds DEF IInv, Safe, TypeOK, WorkerBooks, FileState, JobState, WorkerState,
     TruncateJob, jobVars, passVars, worldVars, fateVars
<1>2. LocalKept'
  BY DEF IInv, Safe, TypeOK, LocalKept, OwedOnce, WorkerBooks,
     TruncateJob, jobVars, passVars, worldVars, fateVars
<1>3. OwedOnce'
  BY DEF IInv, Safe, TypeOK, OwedOnce, WorkerBooks, Jobs,
     TruncateJob, jobVars, passVars, worldVars, fateVars
<1>4. AnnouncedStored'
  BY DEF IInv, Safe, TypeOK, OwedOnce, AnnouncedStored, WorkerBooks, Jobs,
     TruncateJob, jobVars, passVars, worldVars, fateVars
<1>5. UploadAnnounced'
  BY DEF IInv, Safe, TypeOK, OwedOnce, UploadAnnounced, WorkerBooks, Jobs,
     TruncateJob, jobVars, passVars, worldVars, fateVars
<1>6. WorkerBooks'
  BY UploadAssumption DEF IInv, Safe, TypeOK, OwedOnce, WorkerBooks, Jobs, WorkerState, JobState,
     TruncateJob, jobVars, passVars, worldVars, fateVars
<1> QED BY <1>1, <1>2, <1>3, <1>4, <1>5, <1>6 DEF IInv, Safe

\* The rewritten job counts one attempt more, within the budget.
LEMMA Inv_RewriteJob ==
  ASSUME IInv, RewriteJob
  PROVE  IInv'
<1>1. TypeOK'
  BY UploadAssumption, UploadBounds DEF IInv, Safe, TypeOK, WorkerBooks, FileState, JobState, WorkerState,
     RewriteJob, jobVars, passVars, worldVars, fateVars
<1>2. LocalKept'
  BY DEF IInv, Safe, TypeOK, LocalKept, OwedOnce, WorkerBooks,
     RewriteJob, jobVars, passVars, worldVars, fateVars
<1>3. OwedOnce'
  BY DEF IInv, Safe, TypeOK, OwedOnce, WorkerBooks, Jobs,
     RewriteJob, jobVars, passVars, worldVars, fateVars
<1>4. AnnouncedStored'
  BY DEF IInv, Safe, TypeOK, OwedOnce, AnnouncedStored, WorkerBooks, Jobs,
     RewriteJob, jobVars, passVars, worldVars, fateVars
<1>5. UploadAnnounced'
  BY DEF IInv, Safe, TypeOK, OwedOnce, UploadAnnounced, WorkerBooks, Jobs,
     RewriteJob, jobVars, passVars, worldVars, fateVars
<1>6. WorkerBooks'
  BY UploadAssumption DEF IInv, Safe, TypeOK, OwedOnce, WorkerBooks, Jobs, WorkerState, JobState,
     RewriteJob, jobVars, passVars, worldVars, fateVars
<1> QED BY <1>1, <1>2, <1>3, <1>4, <1>5, <1>6 DEF IInv, Safe

\* A job whose count could not be written is whole or torn as it was.
LEMMA Inv_RewriteFails ==
  ASSUME IInv, RewriteFails
  PROVE  IInv'
<1>1. TypeOK'
  BY UploadAssumption, UploadBounds DEF IInv, Safe, TypeOK, WorkerBooks, FileState, JobState, WorkerState,
     RewriteFails, jobVars, passVars, worldVars, fateVars
<1>2. LocalKept'
  BY DEF IInv, Safe, TypeOK, LocalKept, OwedOnce, WorkerBooks,
     RewriteFails, jobVars, passVars, worldVars, fateVars
<1>3. OwedOnce'
  BY DEF IInv, Safe, TypeOK, OwedOnce, WorkerBooks, Jobs,
     RewriteFails, jobVars, passVars, worldVars, fateVars
<1>4. AnnouncedStored'
  BY DEF IInv, Safe, TypeOK, OwedOnce, AnnouncedStored, WorkerBooks, Jobs,
     RewriteFails, jobVars, passVars, worldVars, fateVars
<1>5. UploadAnnounced'
  BY DEF IInv, Safe, TypeOK, OwedOnce, UploadAnnounced, WorkerBooks, Jobs,
     RewriteFails, jobVars, passVars, worldVars, fateVars
<1>6. WorkerBooks'
  BY UploadAssumption DEF IInv, Safe, TypeOK, OwedOnce, WorkerBooks, Jobs, WorkerState, JobState,
     RewriteFails, jobVars, passVars, worldVars, fateVars
<1> QED BY <1>1, <1>2, <1>3, <1>4, <1>5, <1>6 DEF IInv, Safe

\* The first outcome is announced and the others move up.
LEMMA Inv_ForwardOutcome ==
  ASSUME IInv, ForwardOutcome
  PROVE  IInv'
<1>1. TypeOK'
  BY UploadAssumption, UploadBounds DEF IInv, Safe, TypeOK, WorkerBooks, FileState, JobState, WorkerState,
     ForwardOutcome, jobVars, passVars, worldVars, fateVars
<1>2. LocalKept'
  BY DEF IInv, Safe, TypeOK, LocalKept, OwedOnce, WorkerBooks,
     ForwardOutcome, jobVars, passVars, worldVars, fateVars
<1>3. OwedOnce'
  BY DEF IInv, Safe, TypeOK, OwedOnce, WorkerBooks, Jobs,
     ForwardOutcome, jobVars, passVars, worldVars, fateVars
<1>4. AnnouncedStored'
  BY DEF IInv, Safe, TypeOK, OwedOnce, AnnouncedStored, WorkerBooks, Jobs,
     ForwardOutcome, jobVars, passVars, worldVars, fateVars
<1>5. UploadAnnounced'
  <2> SUFFICES ASSUME crashes = 0, NEW r \in Recording, verdict[r] = "delivered"
               PROVE  \/ r \in announced'
                      \/ \E i \in 1 .. Len(outcomes') : outcomes'[i] = r
                      \/ cur = r /\ worker \in {"removed", "announce"}
    BY DEF UploadAnnounced, ForwardOutcome, passVars, worldVars
  <2>1. ASSUME NEW i \in 1 .. Len(outcomes), outcomes[i] = r, i > 1
        PROVE  i - 1 \in 1 .. Len(outcomes') /\ outcomes'[i - 1] = r
    BY <2>1 DEF IInv, TypeOK, ForwardOutcome
  <2>2. ASSUME NEW i \in 1 .. Len(outcomes), outcomes[i] = r, i = 1
        PROVE  r \in announced'
    BY <2>2 DEF IInv, TypeOK, ForwardOutcome
  <2>3. CASE \E i \in 1 .. Len(outcomes) : outcomes[i] = r
    <3>1. PICK i \in 1 .. Len(outcomes) : outcomes[i] = r  BY <2>3
    <3>2. i > 1 \/ i = 1  OBVIOUS
    <3> QED BY <2>1, <2>2, <3>1, <3>2
  <2> QED BY <2>3 DEF IInv, Safe, UploadAnnounced, ForwardOutcome
<1>6. WorkerBooks'
  BY UploadAssumption DEF IInv, Safe, TypeOK, OwedOnce, WorkerBooks, Jobs, WorkerState, JobState,
     ForwardOutcome, jobVars, passVars, worldVars, fateVars
<1> QED BY <1>1, <1>2, <1>3, <1>4, <1>5, <1>6 DEF IInv, Safe

\* A restart leaves the files alone and empties the channel.
LEMMA Inv_Restart ==
  ASSUME IInv, Restart
  PROVE  IInv'
<1>1. TypeOK'
  BY UploadAssumption, UploadBounds DEF IInv, Safe, TypeOK, WorkerBooks, FileState, JobState, WorkerState,
     Restart, jobVars, passVars, worldVars, fateVars
<1>2. LocalKept'
  BY DEF IInv, Safe, TypeOK, LocalKept, OwedOnce, WorkerBooks,
     Restart, jobVars, passVars, worldVars, fateVars
<1>3. OwedOnce'
  BY DEF IInv, Safe, TypeOK, OwedOnce, WorkerBooks, Jobs,
     Restart, jobVars, passVars, worldVars, fateVars
<1>4. AnnouncedStored'
  BY DEF IInv, Safe, TypeOK, OwedOnce, AnnouncedStored, WorkerBooks, Jobs,
     Restart, jobVars, passVars, worldVars, fateVars
<1>5. UploadAnnounced'
  BY DEF IInv, Safe, TypeOK, OwedOnce, UploadAnnounced, WorkerBooks, Jobs,
     Restart, jobVars, passVars, worldVars, fateVars
<1>6. WorkerBooks'
  BY UploadAssumption DEF IInv, Safe, TypeOK, OwedOnce, WorkerBooks, Jobs, WorkerState, JobState,
     Restart, jobVars, passVars, worldVars, fateVars
<1> QED BY <1>1, <1>2, <1>3, <1>4, <1>5, <1>6 DEF IInv, Safe

-----------------------------------------------------------------------------
(* The theorems. *)

LEMMA StepInv == IInv /\ [Next]_vars => IInv'
<1> SUFFICES ASSUME IInv, [Next]_vars PROVE IInv'
  OBVIOUS
<1>1. CASE UNCHANGED vars
  BY <1>1 DEF IInv, Safe, TypeOK, LocalKept, OwedOnce, AnnouncedStored, UploadAnnounced,
              WorkerBooks, Jobs, vars, jobVars, passVars, fateVars, worldVars
<1>2. CASE Next
  BY <1>2, Inv_Finalize, Inv_Vanish, Inv_drain_once, Inv_TakeJob, Inv_PassEnd, Inv_put_file,
     Inv_RemoveJob, Inv_DeleteLocal, Inv_SendOutcome, Inv_TruncateJob, Inv_RewriteJob,
     Inv_RewriteFails, Inv_ForwardOutcome, Inv_Restart
     DEF Next, WorkerTask
<1> QED BY <1>1, <1>2

\* The inductive invariant holds in every reachable state.
THEOREM Invariance == Spec => []IInv
BY InitInv, StepInv, PTL DEF Spec

\* The types, whatever the bounds; among them, no job is tried beyond its budget.
THEOREM TypeCorrect == Spec => []TypeOK
BY Invariance, PTL DEF IInv

\* The daemon deletes a recording only when it is stored and its job is done, so a crash
\* between the steps that follow a PUT never makes it drop an upload whose file it deleted.
THEOREM LocalFileKept == Spec => []LocalKept
BY Invariance, PTL DEF IInv, Safe

\* A final recording is owed or settled, never both.
THEOREM RecordingsOwed == Spec => []OwedOnce
BY Invariance, PTL DEF IInv, Safe

\* Only a completed upload is announced, and until the daemon dies every one is.
THEOREM AnnouncementsTrue == Spec => []Announcements
BY Invariance, PTL DEF IInv, Safe, Announcements

\* The spool of uploads is a durable queue through any number of crashes.
THEOREM IsDurable == Spec => QueueSpec
<1>1. Init => Queue!Init
  BY DEF Init, Queue!Init, Jobs
<1>2. IInv /\ [Next]_vars => [Queue!Next]_<<Jobs, received, verdict>>
  <2> SUFFICES ASSUME IInv, [Next]_vars
               PROVE  [Queue!Next]_<<Jobs, received, verdict>>
    OBVIOUS
  <2> USE DEF Queue!Next, Queue!Verdict
  <2>1. ASSUME NEW r \in Recording, Finalize(r)
        PROVE  Queue!Owe(r) \/ Queue!Settle(r, "dropped")
    BY <2>1 DEF IInv, Safe, TypeOK, OwedOnce, Finalize, Jobs, Queue!Owe, Queue!Settle
  <2>2. ASSUME NEW r \in Recording, TakeJob(r)
        PROVE  Queue!Settle(r, "dropped") \/ UNCHANGED <<Jobs, received, verdict>>
    BY <2>2 DEF IInv, Safe, TypeOK, OwedOnce, WorkerBooks, TakeJob, Drop, Jobs, jobVars,
       Queue!Settle
  <2>3. cur \in Recording  BY DEF IInv, TypeOK
  <2>4. ASSUME NEW ok \in BOOLEAN, put_file(ok)
        PROVE  Queue!Receive(cur) \/ UNCHANGED <<Jobs, received, verdict>>
    BY <2>4 DEF put_file, Jobs, jobVars, Queue!Receive
  <2>5. ASSUME RemoveJob
        PROVE  Queue!Settle(cur, "delivered")
    BY <2>5 DEF IInv, Safe, TypeOK, OwedOnce, WorkerBooks, RemoveJob, Jobs, Queue!Settle
  <2>6. ASSUME TruncateJob \/ RewriteJob \/ RewriteFails
        PROVE  UNCHANGED <<Jobs, received, verdict>>
    BY <2>6 DEF IInv, TypeOK, WorkerBooks, TruncateJob, RewriteJob, RewriteFails,
       Jobs, jobVars, fateVars
  <2>7. (\E r \in Recording : Vanish(r)) \/ drain_once \/ PassEnd \/ DeleteLocal \/ SendOutcome
          \/ ForwardOutcome \/ Restart \/ UNCHANGED vars
        => UNCHANGED <<Jobs, received, verdict>>
    BY DEF Vanish, drain_once, PassEnd, DeleteLocal, SendOutcome, ForwardOutcome, Restart, vars,
       Jobs, jobVars, fateVars
  <2> QED BY <2>1, <2>2, <2>3, <2>4, <2>5, <2>6, <2>7 DEF Next, WorkerTask
<1> QED BY <1>1, <1>2, Invariance, PTL DEF Spec, QueueSpec, Queue!Spec
=============================================================================
