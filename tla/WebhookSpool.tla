---------------------------- MODULE WebhookSpool ----------------------------
(***************************************************************************)
(* Delivery of webhooks, CDRs, audit events and quality records by         *)
(* RetryingPoster (crates/http/src/lib.rs).  A task per event posts with a *)
(* few retries; an event that exhausts them goes to a spool on disk; one   *)
(* worker per sink drains the spool, across restarts of the daemon.        *)
(*                                                                         *)
(* The network may lose a request or only its answer, a write may fail,    *)
(* and the process may die at any await.  A file appears by rename, so it  *)
(* is there whole or not at all; removing one succeeds (the code ignores   *)
(* the result).  Time is counted in drain intervals of 10 s, and relative: *)
(* a file holds the time until it is due, and its age up to the limit.     *)
(* The sleeps between the retries of a task are left out, and a pass takes *)
(* the due files in any order (the code: oldest first).                    *)
(***************************************************************************)
EXTENDS Naturals, FiniteSets

CONSTANTS
  Event,
  RetryMax,        \* retries of the posting task after its first attempt
  SpoolMaxFiles,   \* DEFAULT_SPOOL_MAX_FILES
  SpoolMaxAges,    \* the values of spool_max_age_secs, in drain intervals; 0: no limit
  DrainBackoffMax, \* the cap of the drain backoff: 30 intervals in the code
  MaxPass,         \* bound: intervals one pass may last
  MaxCrashes       \* bound: restarts of the daemon

ASSUME SpoolAssumption ==
  /\ RetryMax \in Nat /\ SpoolMaxFiles \in Nat /\ SpoolMaxAges \subseteq Nat
  /\ DrainBackoffMax \in Nat
ASSUME SpoolBounds == MaxPass \in Nat /\ MaxCrashes \in Nat

VARIABLES
  spool_max_age,          \* as configured
  task, attempt,          \* the posting task of each event, the retries it has made
  files, due, age, tries, \* the spool: its files, and what their envelopes say
  worker, left, old, since, cur, answer, \* the drain worker and its pass
  received, twice, unheard, verdict, \* what came of each event
  crashes

taskVars == <<task, attempt>>
spoolVars == <<files, due, age, tries>>
passVars == <<left, old, since, cur, answer>>
worldVars == <<crashes, spool_max_age>>
fateVars == <<received, twice, unheard>>
vars == <<taskVars, spoolVars, worker, passVars, fateVars, verdict, worldVars>>

InTask == {"posting", "spooling", "writing"}
TaskState == {"new", "done", "lost"} \cup InTask
WorkerState == {"resting", "rested", "pass", "answered"}
Attempt == {"Ok", "Rejected", "Transient"}
VerdictOf == [Ok |-> "delivered", Rejected |-> "rejected"]

Least(a, b) == IF a < b THEN a ELSE b

\* 20, 40, 80, 160, 320 s and no more, in intervals, the fifth and later alike; the cap is
\* 300 s.
drain_backoff_secs(n) == Least(<<2, 4, 8, 16, 32>>[n], DrainBackoffMax)

Init ==
  /\ task = [e \in Event |-> "new"] /\ attempt = [e \in Event |-> 0]
  /\ files = {} /\ due = [e \in Event |-> 0]
  /\ age = [e \in Event |-> 0] /\ tries = [e \in Event |-> 0]
  /\ worker = "resting" /\ left = {} /\ old = {} /\ since = 0
  /\ cur \in Event /\ answer = "Ok"
  /\ received = {} /\ twice = {} /\ unheard = {}
  /\ verdict = [e \in Event |-> "none"]
  /\ crashes = 0 /\ spool_max_age \in SpoolMaxAges

-----------------------------------------------------------------------------
(* One HTTP attempt.  The receiver takes the event or refuses it; an outage, *)
(* an error, a timeout or a 5xx is transient, and the event may have been    *)
(* received all the same.                                                    *)

Receive(e) ==
  /\ received' = received \cup {e}
  /\ twice' = IF e \in received THEN twice \cup {e} ELSE twice

send_once(e, o) ==
  \/ o = "Ok" /\ Receive(e) /\ UNCHANGED unheard
  \/ o = "Rejected" /\ UNCHANGED fateVars
  \/ o = "Transient" /\ UNCHANGED fateVars
  \/ o = "Transient" /\ Receive(e) /\ unheard' = unheard \cup {e}

-----------------------------------------------------------------------------
(* The posting task of an event. *)

EmitEvent(e) ==
  /\ task[e] = "new"
  /\ task' = [task EXCEPT ![e] = "posting"]
  /\ UNCHANGED <<attempt, spoolVars, worker, passVars, fateVars, verdict, worldVars>>

Settle(e, v) == verdict' = [verdict EXCEPT ![e] = v]

post(e, o) ==
  /\ task[e] = "posting"
  /\ send_once(e, o)
  /\ \/ /\ o # "Transient"
        /\ task' = [task EXCEPT ![e] = "done"] /\ Settle(e, VerdictOf[o])
        /\ UNCHANGED attempt
     \/ /\ o = "Transient" /\ attempt[e] < RetryMax
        /\ attempt' = [attempt EXCEPT ![e] = @ + 1] /\ UNCHANGED <<task, verdict>>
     \/ /\ o = "Transient" /\ attempt[e] >= RetryMax
        /\ task' = [task EXCEPT ![e] = "spooling"] /\ UNCHANGED <<attempt, verdict>>
  /\ UNCHANGED <<spoolVars, worker, passVars, worldVars>>

GiveUp(e) == task' = [task EXCEPT ![e] = "done"] /\ Settle(e, "dropped")

\* The files are counted before the write, with awaits in between.
SpoolCheck(e) ==
  /\ task[e] = "spooling"
  /\ \/ Cardinality(files) >= SpoolMaxFiles /\ GiveUp(e)
     \/ /\ Cardinality(files) < SpoolMaxFiles
        /\ task' = [task EXCEPT ![e] = "writing"] /\ UNCHANGED verdict
  /\ UNCHANGED <<attempt, spoolVars, worker, passVars, fateVars, worldVars>>

\* Mutant: a failed write returns without counting the event as dropped.
write_spool_Forgets(e) ==
  /\ task[e] = "writing" /\ task' = [task EXCEPT ![e] = "done"]
  /\ \/ /\ files' = files \cup {e} /\ due' = [due EXCEPT ![e] = 0]
        /\ age' = [age EXCEPT ![e] = 0] /\ tries' = [tries EXCEPT ![e] = 0]
     \/ UNCHANGED spoolVars
  /\ UNCHANGED <<attempt, worker, passVars, fateVars, verdict, worldVars>>

write_spool(e) ==
  /\ task[e] = "writing"
  /\ \/ /\ files' = files \cup {e}
        /\ due' = [due EXCEPT ![e] = 0] /\ age' = [age EXCEPT ![e] = 0]
        /\ tries' = [tries EXCEPT ![e] = 0]
        /\ task' = [task EXCEPT ![e] = "done"] /\ UNCHANGED verdict
     \/ GiveUp(e) /\ UNCHANGED spoolVars
  /\ UNCHANGED <<attempt, worker, passVars, fateVars, worldVars>>
-----------------------------------------------------------------------------
(* The drain worker: the files due and too old are judged by the clock the   *)
(* pass began with.                                                          *)

\* Mutant: entries are discarded after a number of attempts, not by age (issue 467).
drain_once_CountsTries ==
  /\ worker = "rested" /\ worker' = "pass" /\ since' = 0
  /\ left' = {e \in files : due[e] = 0} /\ old' = {e \in files : tries[e] >= 2}
  /\ UNCHANGED <<taskVars, spoolVars, cur, answer, fateVars, verdict, worldVars>>

\* Mutant: a pass takes only entries that were never tried before.
drain_once_OnlyFresh ==
  /\ worker = "rested" /\ worker' = "pass" /\ since' = 0
  /\ left' = {e \in files : tries[e] = 0}
  /\ old' = {e \in files : spool_max_age # 0 /\ age[e] >= spool_max_age}
  /\ UNCHANGED <<taskVars, spoolVars, cur, answer, fateVars, verdict, worldVars>>

drain_once ==
  /\ worker = "rested"
  /\ worker' = "pass" /\ since' = 0
  /\ left' = {e \in files : due[e] = 0}
  /\ old' = {e \in files : spool_max_age # 0 /\ age[e] >= spool_max_age}
  /\ UNCHANGED <<taskVars, spoolVars, cur, answer, fateVars, verdict, worldVars>>

DrainSend(e, o) ==
  /\ worker = "pass" /\ e \in left
  /\ send_once(e, o)
  /\ worker' = "answered" /\ cur' = e /\ answer' = o
  /\ UNCHANGED <<taskVars, spoolVars, left, old, since, verdict, worldVars>>

remove_file == files' = files \ {cur} /\ UNCHANGED <<due, age, tries>>

Reschedule ==
  LET n == Least(tries[cur] + 1, 5)
      d == drain_backoff_secs(n)
  IN  /\ tries' = [tries EXCEPT ![cur] = n]
      /\ due' = [due EXCEPT ![cur] = IF since < d THEN d - since ELSE 0]
      /\ UNCHANGED <<files, age>>

DrainAnswered ==
  /\ worker = "answered"
  /\ \/ answer # "Transient" /\ remove_file /\ Settle(cur, VerdictOf[answer])
     \/ /\ answer = "Transient" /\ cur \in old
        /\ remove_file /\ Settle(cur, "dropped")
     \/ answer = "Transient" /\ cur \notin old /\ Reschedule /\ UNCHANGED verdict
     \/ answer = "Transient" /\ cur \notin old /\ UNCHANGED <<spoolVars, verdict>>
  /\ worker' = "pass" /\ left' = left \ {cur}
  /\ UNCHANGED <<taskVars, old, since, cur, answer, fateVars, worldVars>>

DrainEnd ==
  /\ worker = "pass" /\ left = {}
  /\ worker' = "resting" /\ since' = 0 /\ old' = {}
  /\ UNCHANGED <<taskVars, spoolVars, left, cur, answer, fateVars, verdict, worldVars>>

-----------------------------------------------------------------------------
(* Time, and the death of the daemon. *)

\* DRAIN_INTERVAL passes; the worker sleeps one before each pass.
Interval ==
  /\ worker \in {"pass", "answered"} => since < MaxPass
  /\ since' = IF worker \in {"pass", "answered"} THEN since + 1 ELSE 0
  /\ worker' = IF worker = "resting" THEN "rested" ELSE worker
  /\ due' = [e \in Event |-> IF due[e] > 0 THEN due[e] - 1 ELSE 0]
  /\ age' = [e \in Event |-> IF e \in files THEN Least(age[e] + 1, spool_max_age) ELSE age[e]]
  /\ UNCHANGED <<taskVars, files, tries, left, old, cur, answer, fateVars, verdict, worldVars>>

\* Mutant: the spool directory is emptied when the daemon starts.
Restart_ClearsSpool ==
  /\ crashes < MaxCrashes /\ crashes' = crashes + 1
  /\ task' = [e \in Event |-> IF task[e] \in InTask THEN "lost" ELSE task[e]]
  /\ worker' = "resting" /\ left' = {} /\ old' = {} /\ since' = 0 /\ files' = {}
  /\ UNCHANGED <<attempt, due, age, tries, cur, answer, fateVars, verdict, spool_max_age>>

\* A crash, or an exit: nothing waits for the posting tasks.  The new process sleeps an
\* interval before its first pass.
Restart ==
  /\ crashes < MaxCrashes /\ crashes' = crashes + 1
  /\ task' = [e \in Event |-> IF task[e] \in InTask THEN "lost" ELSE task[e]]
  /\ unheard' = IF worker = "answered" /\ answer = "Ok" THEN unheard \cup {cur} ELSE unheard
  /\ worker' = "resting" /\ left' = {} /\ old' = {} /\ since' = 0
  /\ UNCHANGED <<attempt, spoolVars, cur, answer, received, twice, verdict,
                 spool_max_age>>

-----------------------------------------------------------------------------
Next ==
  \/ \E e \in Event :
       \/ EmitEvent(e) \/ SpoolCheck(e) \/ write_spool(e)
       \/ \E o \in Attempt : post(e, o) \/ DrainSend(e, o)
  \/ drain_once \/ DrainAnswered \/ DrainEnd
  \/ Interval \/ Restart

(***************************************************************************)
(* Every task and the worker are polled, the clock runs, and a receiver    *)
(* that is asked again and again in the end answers: Ok or a refusal.      *)
(***************************************************************************)
Fairness ==
  /\ WF_vars(drain_once) /\ WF_vars(DrainAnswered) /\ WF_vars(DrainEnd)
  /\ WF_vars(Interval)
  /\ \A e \in Event :
       /\ WF_vars(\E o \in Attempt : post(e, o))
       /\ WF_vars(SpoolCheck(e) \/ write_spool(e))
       /\ WF_vars(\E o \in Attempt : DrainSend(e, o))
       /\ SF_vars(DrainSend(e, "Ok") \/ DrainSend(e, "Rejected"))

Spec == Init /\ [][Next]_vars
FairSpec == Spec /\ Fairness

-----------------------------------------------------------------------------
(* Properties. *)

TypeOK ==
  /\ task \in [Event -> TaskState] /\ attempt \in [Event -> 0 .. RetryMax]
  /\ files \in SUBSET Event /\ due \in [Event -> 0 .. DrainBackoffMax] /\ age \in [Event -> Nat]
  /\ tries \in [Event -> 0 .. 5]
  /\ worker \in WorkerState /\ left \in SUBSET files /\ old \in SUBSET Event
  /\ since \in 0 .. MaxPass /\ cur \in Event /\ answer \in Attempt
  /\ received \in SUBSET Event /\ twice \in SUBSET Event /\ unheard \in SUBSET Event
  /\ verdict \in [Event -> {"none", "delivered", "rejected", "dropped"}]
  /\ crashes \in 0 .. MaxCrashes /\ spool_max_age \in SpoolMaxAges

\* Every event is in one place: still with its task, in the spool, settled with one verdict,
\* or lost with the process while a task held it.  The envelope the worker is about to judge
\* is in the spool.
Accounted ==
  /\ \A e \in Event :
       /\ e \in files => task[e] = "done" /\ verdict[e] = "none"
       /\ verdict[e] # "none" => task[e] = "done"
       /\ task[e] = "done" => e \in files \/ verdict[e] # "none"
  /\ worker = "answered" => cur \in files

\* A receiver is given an event twice only when an earlier answer never reached the sender:
\* it was lost on the way, or the daemon died between the answer and the removal of the file.
DuplicatesUnheard == twice \subseteq unheard

\* CONFIG.md:1258: a spooled event is discarded only by an attempt that failed when the event
\* was at least spool_max_age_secs old; with 0 it is never discarded, whatever the outage and
\* however often the daemon restarts.
OutageBudget ==
  [][\A e \in files : verdict'[e] = "dropped" =>
       /\ spool_max_age # 0 /\ age[e] >= spool_max_age
       /\ answer = "Transient" /\ cur = e]_vars

\* Every spooled event comes to a verdict; when nothing is discarded on age, that is a
\* delivery or a refusal by the receiver.
SpoolDrains ==
  \A e \in Event : (e \in files) ~>
    (verdict[e] \in {"delivered", "rejected"} \cup (IF spool_max_age = 0 THEN {} ELSE {"dropped"}))

\* The spool is a durable queue: a restart takes nothing from it.
Queue == INSTANCE DurableDelivery WITH Item <- Event, owed <- files
QueueSpec == Queue!Spec
=============================================================================
