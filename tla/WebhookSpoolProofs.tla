------------------------ MODULE WebhookSpoolProofs ------------------------
(***************************************************************************)
(* Proofs about WebhookSpool: its type invariant, that no event goes       *)
(* unaccounted, that a duplicate has a cause, the outage budget, and that  *)
(* the spool implements DurableDelivery, for any set of events, caps and   *)
(* number of restarts.                                                     *)
(***************************************************************************)
EXTENDS WebhookSpool, TLAPS

\* An event that is received while its file waits, with no judgement pending that would
\* remove the file, was received unheard; so was one received by a task that goes on.
HeardOnce ==
  /\ \A e \in Event :
       e \in received /\ (e \in files \/ task[e] \in InTask) =>
         e \in unheard \/ (worker = "answered" /\ cur = e /\ answer = "Ok")
  /\ \A e \in Event : task[e] = "new" => e \notin received

\* What the judgement of an answer rests on.
AnswerBooks ==
  /\ worker = "answered" /\ answer = "Ok" => cur \in received
  /\ \A e \in Event : verdict[e] = "delivered" => e \in received
  /\ worker \in {"pass", "answered"} =>
       \A e \in old : /\ spool_max_age # 0 /\ age[e] >= spool_max_age
                      /\ task[e] = "done"
  /\ worker \notin {"pass", "answered"} => left = {}

IInv == TypeOK /\ Accounted /\ HeardOnce /\ AnswerBooks /\ DuplicatesUnheard

\* The backoff of an entry is within the bound of its due time.
LEMMA BackoffBounded ==
  ASSUME NEW n \in 1 .. 5
  PROVE  drain_backoff_secs(n) \in 0 .. DrainBackoffMax
BY SpoolAssumption DEF drain_backoff_secs, Least

LEMMA InitInv == Init => IInv
BY SpoolAssumption, SpoolBounds
   DEF Init, IInv, TypeOK, Accounted, HeardOnce, AnswerBooks, DuplicatesUnheard,
       TaskState, InTask, WorkerState, Attempt

-----------------------------------------------------------------------------
(* Each step keeps the invariant, one conjunct after the other. *)

\* A new event starts with nothing received of it.
LEMMA Inv_EmitEvent ==
  ASSUME IInv, NEW e \in Event, EmitEvent(e)
  PROVE  IInv'
<1>1. TypeOK'
  BY SpoolAssumption, SpoolBounds DEF IInv, TypeOK, Accounted, TaskState, InTask, WorkerState,
           Attempt,
           EmitEvent, taskVars, spoolVars, passVars, worldVars, fateVars
<1>2. Accounted'
  BY DEF IInv, TypeOK, Accounted, HeardOnce, AnswerBooks, InTask, Attempt,
           EmitEvent, taskVars, spoolVars, passVars, worldVars, fateVars
<1>3. HeardOnce'
  BY DEF IInv, TypeOK, Accounted, HeardOnce, AnswerBooks, InTask, Attempt,
           EmitEvent, taskVars, spoolVars, passVars, worldVars, fateVars
<1>4. AnswerBooks'
  BY DEF IInv, TypeOK, Accounted, AnswerBooks, InTask, Attempt,
           EmitEvent, taskVars, spoolVars, passVars, worldVars, fateVars
<1>5. DuplicatesUnheard'
  BY DEF IInv, TypeOK, Accounted, HeardOnce, DuplicatesUnheard, InTask,
           EmitEvent, taskVars, spoolVars, passVars, worldVars, fateVars
<1> QED BY <1>1, <1>2, <1>3, <1>4, <1>5 DEF IInv

\* An attempt of the posting task: received or not, heard or not.
LEMMA Inv_post ==
  ASSUME IInv, NEW e \in Event, NEW o \in Attempt, post(e, o)
  PROVE  IInv'
<1>1. TypeOK'
  BY SpoolAssumption, SpoolBounds DEF IInv, TypeOK, Accounted, TaskState, InTask, WorkerState,
           Attempt,
           post, send_once, Receive, Settle, VerdictOf, taskVars, spoolVars, passVars,
           worldVars, fateVars
<1>2. Accounted'
  BY DEF IInv, TypeOK, Accounted, HeardOnce, AnswerBooks, InTask, Attempt,
           post, send_once, Receive, Settle, VerdictOf, taskVars, spoolVars, passVars,
           worldVars, fateVars
<1>3. HeardOnce'
  BY DEF IInv, TypeOK, Accounted, HeardOnce, AnswerBooks, InTask, Attempt,
           post, send_once, Receive, Settle, VerdictOf, taskVars, spoolVars, passVars,
           worldVars, fateVars
<1>4. AnswerBooks'
  BY DEF IInv, TypeOK, Accounted, AnswerBooks, InTask, Attempt,
           post, send_once, Receive, Settle, VerdictOf, taskVars, spoolVars, passVars,
           worldVars, fateVars
<1>5. DuplicatesUnheard'
  BY DEF IInv, TypeOK, Accounted, HeardOnce, DuplicatesUnheard, InTask,
           post, send_once, Receive, Settle, VerdictOf, taskVars, spoolVars, passVars,
           worldVars, fateVars
<1> QED BY <1>1, <1>2, <1>3, <1>4, <1>5 DEF IInv

\* The check of the cap either settles the event or leaves it with its task.
LEMMA Inv_SpoolCheck ==
  ASSUME IInv, NEW e \in Event, SpoolCheck(e)
  PROVE  IInv'
<1>1. TypeOK'
  BY SpoolAssumption, SpoolBounds DEF IInv, TypeOK, Accounted, TaskState, InTask, WorkerState,
           Attempt,
           SpoolCheck, GiveUp, Settle, taskVars, spoolVars, passVars, worldVars, fateVars
<1>2. Accounted'
  BY DEF IInv, TypeOK, Accounted, HeardOnce, AnswerBooks, InTask, Attempt,
           SpoolCheck, GiveUp, Settle, taskVars, spoolVars, passVars, worldVars, fateVars
<1>3. HeardOnce'
  BY DEF IInv, TypeOK, Accounted, HeardOnce, AnswerBooks, InTask, Attempt,
           SpoolCheck, GiveUp, Settle, taskVars, spoolVars, passVars, worldVars, fateVars
<1>4. AnswerBooks'
  BY DEF IInv, TypeOK, Accounted, AnswerBooks, InTask, Attempt,
           SpoolCheck, GiveUp, Settle, taskVars, spoolVars, passVars, worldVars, fateVars
<1>5. DuplicatesUnheard'
  BY DEF IInv, TypeOK, Accounted, HeardOnce, DuplicatesUnheard, InTask,
           SpoolCheck, GiveUp, Settle, taskVars, spoolVars, passVars, worldVars, fateVars
<1> QED BY <1>1, <1>2, <1>3, <1>4, <1>5 DEF IInv

\* The event moves from its task to the spool, or is dropped.
LEMMA Inv_write_spool ==
  ASSUME IInv, NEW e \in Event, write_spool(e)
  PROVE  IInv'
<1>1. TypeOK'
  BY SpoolAssumption, SpoolBounds DEF IInv, TypeOK, Accounted, TaskState, InTask, WorkerState,
           Attempt,
           write_spool, GiveUp, Settle, taskVars, spoolVars, passVars, worldVars, fateVars
<1>2. Accounted'
  BY DEF IInv, TypeOK, Accounted, HeardOnce, AnswerBooks, InTask, Attempt,
           write_spool, GiveUp, Settle, taskVars, spoolVars, passVars, worldVars, fateVars
<1>3. HeardOnce'
  BY DEF IInv, TypeOK, Accounted, HeardOnce, AnswerBooks, InTask, Attempt,
           write_spool, GiveUp, Settle, taskVars, spoolVars, passVars, worldVars, fateVars
<1>4. AnswerBooks'
  BY DEF IInv, TypeOK, Accounted, AnswerBooks, InTask, Attempt,
           write_spool, GiveUp, Settle, taskVars, spoolVars, passVars, worldVars, fateVars
<1>5. DuplicatesUnheard'
  BY DEF IInv, TypeOK, Accounted, HeardOnce, DuplicatesUnheard, InTask,
           write_spool, GiveUp, Settle, taskVars, spoolVars, passVars, worldVars, fateVars
<1> QED BY <1>1, <1>2, <1>3, <1>4, <1>5 DEF IInv

\* A pass begins with the files that are due and the clock of that moment.
LEMMA Inv_drain_once ==
  ASSUME IInv, drain_once
  PROVE  IInv'
<1>1. TypeOK'
  BY SpoolAssumption, SpoolBounds DEF IInv, TypeOK, Accounted, TaskState, InTask, WorkerState,
           Attempt,
           drain_once, taskVars, spoolVars, passVars, worldVars, fateVars
<1>2. Accounted'
  BY DEF IInv, TypeOK, Accounted, HeardOnce, AnswerBooks, InTask, Attempt,
           drain_once, taskVars, spoolVars, passVars, worldVars, fateVars
<1>3. HeardOnce'
  BY DEF IInv, TypeOK, Accounted, HeardOnce, AnswerBooks, InTask, Attempt,
           drain_once, taskVars, spoolVars, passVars, worldVars, fateVars
<1>4. AnswerBooks'
  BY DEF IInv, TypeOK, Accounted, AnswerBooks, InTask, Attempt,
           drain_once, taskVars, spoolVars, passVars, worldVars, fateVars
<1>5. DuplicatesUnheard'
  BY DEF IInv, TypeOK, Accounted, HeardOnce, DuplicatesUnheard, InTask,
           drain_once, taskVars, spoolVars, passVars, worldVars, fateVars
<1> QED BY <1>1, <1>2, <1>3, <1>4, <1>5 DEF IInv

\* What the worker hears of an event it sends is in its answer.
LEMMA Inv_DrainSend ==
  ASSUME IInv, NEW e \in Event, NEW o \in Attempt, DrainSend(e, o)
  PROVE  IInv'
<1>1. TypeOK'
  BY SpoolAssumption, SpoolBounds DEF IInv, TypeOK, Accounted, TaskState, InTask, WorkerState,
           Attempt,
           DrainSend, send_once, Receive, taskVars, spoolVars, passVars, worldVars, fateVars
<1>2. Accounted'
  BY DEF IInv, TypeOK, Accounted, HeardOnce, AnswerBooks, InTask, Attempt,
           DrainSend, send_once, Receive, taskVars, spoolVars, passVars, worldVars, fateVars
<1>3. HeardOnce'
  BY DEF IInv, TypeOK, Accounted, HeardOnce, AnswerBooks, InTask, Attempt,
           DrainSend, send_once, Receive, taskVars, spoolVars, passVars, worldVars, fateVars
<1>4. AnswerBooks'
  BY DEF IInv, TypeOK, Accounted, AnswerBooks, InTask, Attempt,
           DrainSend, send_once, Receive, taskVars, spoolVars, passVars, worldVars, fateVars
<1>5. DuplicatesUnheard'
  BY DEF IInv, TypeOK, Accounted, HeardOnce, DuplicatesUnheard, InTask,
           DrainSend, send_once, Receive, taskVars, spoolVars, passVars, worldVars, fateVars
<1> QED BY <1>1, <1>2, <1>3, <1>4, <1>5 DEF IInv

\* The judgement of the answer takes the event out of the spool or reschedules it.
LEMMA Inv_DrainAnswered ==
  ASSUME IInv, DrainAnswered
  PROVE  IInv'
<1>1. TypeOK'
  <2>1. tries' \in [Event -> 0 .. 5] /\ due' \in [Event -> 0 .. DrainBackoffMax]
    <3>1. CASE Reschedule
      <4> DEFINE n == Least(tries[cur] + 1, 5)
      <4>1. n \in 1 .. 5  BY DEF IInv, TypeOK, Least
      <4>2. tries' = [tries EXCEPT ![cur] = n]  BY <3>1 DEF Reschedule
      <4>3. PICK k \in 0 .. DrainBackoffMax : due' = [due EXCEPT ![cur] = k]
        <5>1. drain_backoff_secs(n) \in 0 .. DrainBackoffMax  BY <4>1, BackoffBounded
        <5>2. since \in Nat /\ DrainBackoffMax \in Nat  BY SpoolAssumption, SpoolBounds DEF IInv, TypeOK
        <5> HIDE DEF n
        <5>3. (IF since < drain_backoff_secs(n) THEN drain_backoff_secs(n) - since ELSE 0)
                \in 0 .. DrainBackoffMax
          BY <5>1, <5>2
        <5> QED BY <3>1, <5>3 DEF Reschedule, n
      <4> HIDE DEF n
      <4> QED BY <4>1, <4>2, <4>3 DEF IInv, TypeOK
    <3>2. CASE UNCHANGED <<due, tries>>  BY <3>2 DEF IInv, TypeOK
    <3> QED BY <3>1, <3>2 DEF DrainAnswered, remove_file, spoolVars
  <2> QED BY <2>1, SpoolAssumption
          DEF IInv, TypeOK, Accounted, WorkerState, Attempt, DrainAnswered, remove_file, Settle,
              VerdictOf, Reschedule, taskVars, spoolVars, worldVars, fateVars
<1>2. Accounted'
  BY DEF IInv, TypeOK, Accounted, HeardOnce, AnswerBooks, InTask, Attempt,
           DrainAnswered, remove_file, Settle, VerdictOf, Reschedule, taskVars, spoolVars,
           passVars, worldVars, fateVars
<1>3. HeardOnce'
  BY DEF IInv, TypeOK, Accounted, HeardOnce, AnswerBooks, InTask, Attempt,
           DrainAnswered, remove_file, Settle, VerdictOf, Reschedule, taskVars, spoolVars,
           passVars, worldVars, fateVars
<1>4. AnswerBooks'
  BY DEF IInv, TypeOK, Accounted, AnswerBooks, InTask, Attempt,
           DrainAnswered, remove_file, Settle, VerdictOf, Reschedule, taskVars, spoolVars,
           passVars, worldVars, fateVars
<1>5. DuplicatesUnheard'
  BY DEF IInv, TypeOK, Accounted, HeardOnce, DuplicatesUnheard, InTask,
           DrainAnswered, remove_file, Settle, VerdictOf, Reschedule, taskVars, spoolVars,
           passVars, worldVars, fateVars
<1> QED BY <1>1, <1>2, <1>3, <1>4, <1>5 DEF IInv

\* The end of a pass touches no event.
LEMMA Inv_DrainEnd ==
  ASSUME IInv, DrainEnd
  PROVE  IInv'
<1>1. TypeOK'
  BY SpoolAssumption, SpoolBounds DEF IInv, TypeOK, Accounted, TaskState, InTask, WorkerState,
           Attempt,
           DrainEnd, taskVars, spoolVars, passVars, worldVars, fateVars
<1>2. Accounted'
  BY DEF IInv, TypeOK, Accounted, HeardOnce, AnswerBooks, InTask, Attempt,
           DrainEnd, taskVars, spoolVars, passVars, worldVars, fateVars
<1>3. HeardOnce'
  BY DEF IInv, TypeOK, Accounted, HeardOnce, AnswerBooks, InTask, Attempt,
           DrainEnd, taskVars, spoolVars, passVars, worldVars, fateVars
<1>4. AnswerBooks'
  BY DEF IInv, TypeOK, Accounted, AnswerBooks, InTask, Attempt,
           DrainEnd, taskVars, spoolVars, passVars, worldVars, fateVars
<1>5. DuplicatesUnheard'
  BY DEF IInv, TypeOK, Accounted, HeardOnce, DuplicatesUnheard, InTask,
           DrainEnd, taskVars, spoolVars, passVars, worldVars, fateVars
<1> QED BY <1>1, <1>2, <1>3, <1>4, <1>5 DEF IInv

\* Time only brings entries nearer to their turn and their limit.
LEMMA Inv_Interval ==
  ASSUME IInv, Interval
  PROVE  IInv'
<1>1. TypeOK'
  BY SpoolAssumption, SpoolBounds DEF IInv, TypeOK, Accounted, TaskState, InTask, WorkerState,
           Attempt,
           Interval, Least, taskVars, spoolVars, passVars, worldVars, fateVars
<1>2. Accounted'
  BY DEF IInv, TypeOK, Accounted, HeardOnce, AnswerBooks, InTask, Attempt,
           Interval, Least, taskVars, spoolVars, passVars, worldVars, fateVars
<1>3. HeardOnce'
  BY DEF IInv, TypeOK, Accounted, HeardOnce, AnswerBooks, InTask, Attempt,
           Interval, Least, taskVars, spoolVars, passVars, worldVars, fateVars
<1>4. AnswerBooks'
  BY SpoolAssumption DEF IInv, TypeOK, Accounted, AnswerBooks, InTask, Attempt,
           Interval, Least, taskVars, spoolVars, passVars, worldVars, fateVars
<1>5. DuplicatesUnheard'
  BY DEF IInv, TypeOK, Accounted, HeardOnce, DuplicatesUnheard, InTask,
           Interval, Least, taskVars, spoolVars, passVars, worldVars, fateVars
<1> QED BY <1>1, <1>2, <1>3, <1>4, <1>5 DEF IInv

\* A restart keeps the spool, and forgets answers that were not acted on.
LEMMA Inv_Restart ==
  ASSUME IInv, Restart
  PROVE  IInv'
<1>1. TypeOK'
  BY SpoolAssumption, SpoolBounds DEF IInv, TypeOK, Accounted, TaskState, InTask, WorkerState,
           Attempt,
           Restart, taskVars, spoolVars, passVars, worldVars, fateVars
<1>2. Accounted'
  BY DEF IInv, TypeOK, Accounted, HeardOnce, AnswerBooks, InTask, Attempt,
           Restart, taskVars, spoolVars, passVars, worldVars, fateVars
<1>3. HeardOnce'
  BY DEF IInv, TypeOK, Accounted, HeardOnce, AnswerBooks, InTask, Attempt,
           Restart, taskVars, spoolVars, passVars, worldVars, fateVars
<1>4. AnswerBooks'
  BY DEF IInv, TypeOK, Accounted, AnswerBooks, InTask, Attempt,
           Restart, taskVars, spoolVars, passVars, worldVars, fateVars
<1>5. DuplicatesUnheard'
  BY DEF IInv, TypeOK, Accounted, HeardOnce, DuplicatesUnheard, InTask,
           Restart, taskVars, spoolVars, passVars, worldVars, fateVars
<1> QED BY <1>1, <1>2, <1>3, <1>4, <1>5 DEF IInv

-----------------------------------------------------------------------------
(* The theorems. *)

LEMMA StepInv == IInv /\ [Next]_vars => IInv'
<1> SUFFICES ASSUME IInv, [Next]_vars PROVE IInv'
  OBVIOUS
<1>1. CASE UNCHANGED vars
  BY <1>1 DEF IInv, TypeOK, Accounted, HeardOnce, AnswerBooks, DuplicatesUnheard, vars, taskVars,
              spoolVars, passVars, fateVars, worldVars
<1>2. CASE Next
  BY <1>2, Inv_EmitEvent, Inv_post, Inv_SpoolCheck, Inv_write_spool, Inv_drain_once,
     Inv_DrainSend, Inv_DrainAnswered, Inv_DrainEnd, Inv_Interval, Inv_Restart DEF Next
<1> QED BY <1>1, <1>2

\* The inductive invariant holds in every reachable state.
THEOREM Invariance == Spec => []IInv
BY InitInv, StepInv, PTL DEF Spec

\* The types, whatever the bounds; among them, the files a pass has still to try exist.
THEOREM TypeCorrect == Spec => []TypeOK
BY Invariance, PTL DEF IInv

\* Every event that was emitted is with its task, in the spool, settled or lost with a task:
\* nothing the code does to an event leaves it in two places or in none.
THEOREM EventsAccounted == Spec => []Accounted
BY Invariance, PTL DEF IInv

\* A receiver sees the same event twice only when the sender never heard its first answer.
THEOREM DuplicatesHaveCause == Spec => []DuplicatesUnheard
BY Invariance, PTL DEF IInv

\* A spooled event is discarded only after it has reached the configured age, and by an
\* attempt that failed.
THEOREM KeepsBudget == Spec => OutageBudget
<1> DEFINE Act == \A e \in files : verdict'[e] = "dropped" =>
       /\ spool_max_age # 0 /\ age[e] >= spool_max_age
       /\ answer = "Transient" /\ cur = e
<1>1. IInv /\ [Next]_vars => [Act]_vars
  <2> SUFFICES ASSUME IInv, Next, NEW e \in files, verdict'[e] = "dropped"
               PROVE  /\ spool_max_age # 0 /\ age[e] >= spool_max_age
                      /\ answer = "Transient" /\ cur = e
    OBVIOUS
  <2>1. e \in Event /\ task[e] = "done" /\ verdict[e] = "none"
    BY DEF IInv, TypeOK, Accounted
  <2>2. CASE DrainAnswered
    BY <2>1, <2>2 DEF IInv, TypeOK, AnswerBooks, DrainAnswered, Settle, VerdictOf, Attempt
  <2>3. ~DrainAnswered => verdict'[e] = "none"
    BY <2>1 DEF Next, IInv, TypeOK, EmitEvent, post, SpoolCheck, write_spool, GiveUp, Settle,
       drain_once, DrainSend, DrainEnd, Interval, Restart
  <2> QED BY <2>2, <2>3
<1> QED BY <1>1, Invariance, PTL DEF Spec, OutageBudget

\* The spool is a durable queue: the daemon may die at any step and restart any number of
\* times, and an owed event leaves the queue only with a verdict.
THEOREM IsDurable == Spec => QueueSpec
<1>1. Init => Queue!Init
  BY DEF Init, Queue!Init
<1>2. IInv /\ [Next]_vars => [Queue!Next]_<<files, received, verdict>>
  <2> SUFFICES ASSUME IInv, [Next]_vars
               PROVE  [Queue!Next]_<<files, received, verdict>>
    OBVIOUS
  <2> USE DEF Queue!Next, Queue!Verdict
  <2>1. ASSUME NEW e \in Event, NEW o \in Attempt, post(e, o)
        PROVE  Queue!Receive(e) \/ (\E v \in Queue!Verdict : Queue!Settle(e, v))
                 \/ UNCHANGED <<files, received, verdict>>
    <3>1. CASE o = "Transient"
      BY <2>1, <3>1 DEF post, send_once, Receive, fateVars, spoolVars, Queue!Receive
    <3>2. CASE o # "Transient"
      BY <2>1, <3>2 DEF IInv, TypeOK, Accounted, post, send_once, Receive, Settle, VerdictOf,
         Attempt, fateVars, spoolVars, Queue!Settle
    <3> QED BY <3>1, <3>2
  <2>2. ASSUME NEW e \in Event, SpoolCheck(e)
        PROVE  (\E v \in Queue!Verdict : Queue!Settle(e, v))
                 \/ UNCHANGED <<files, received, verdict>>
    BY <2>2 DEF IInv, TypeOK, Accounted, SpoolCheck, GiveUp, Settle, fateVars, spoolVars,
       Queue!Settle
  <2>3. ASSUME NEW e \in Event, write_spool(e)
        PROVE  Queue!Owe(e) \/ \E v \in Queue!Verdict : Queue!Settle(e, v)
    BY <2>3 DEF IInv, TypeOK, Accounted, write_spool, GiveUp, Settle, fateVars, spoolVars,
       Queue!Settle, Queue!Owe
  <2>4. ASSUME NEW e \in Event, NEW o \in Attempt, DrainSend(e, o)
        PROVE  Queue!Receive(e) \/ UNCHANGED <<files, received, verdict>>
    BY <2>4 DEF DrainSend, send_once, Receive, fateVars, spoolVars, Queue!Receive
  <2>5. ASSUME DrainAnswered
        PROVE  (\E v \in Queue!Verdict : Queue!Settle(cur, v))
                 \/ UNCHANGED <<files, received, verdict>>
    BY <2>5 DEF IInv, TypeOK, Accounted, AnswerBooks, DrainAnswered, remove_file, Settle,
       VerdictOf, Reschedule, Attempt, fateVars, spoolVars, Queue!Settle
  <2>6. cur \in Event  BY DEF IInv, TypeOK
  <2>7. CASE UNCHANGED <<files, received, verdict>>
    BY <2>7
  <2>8. drain_once \/ DrainEnd \/ Interval \/ Restart
          \/ (\E e \in Event : EmitEvent(e)) \/ UNCHANGED vars
        => UNCHANGED <<files, received, verdict>>
    BY DEF EmitEvent, drain_once, DrainEnd, Interval, Restart, vars, fateVars, spoolVars
  <2> QED BY <2>1, <2>2, <2>3, <2>4, <2>5, <2>6, <2>7, <2>8 DEF Next
<1> QED BY <1>1, <1>2, Invariance, PTL DEF Spec, QueueSpec, Queue!Spec
=============================================================================
