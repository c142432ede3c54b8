---------------------------- MODULE CallTeardown ----------------------------
(***************************************************************************)
(* The calls of one siphon-ai daemon from the INVITE to the last line of   *)
(* their cleanup task, and the graceful shutdown that waits for them:      *)
(* the acceptor (crates/core/src/acceptor.rs), the registries              *)
(* (registry.rs), the outbound service (outbound_service.rs), the dialog   *)
(* reaper (dialog_reaper.rs) and the drain (bins/siphon-ai/runtime.rs).    *)
(* The controller between the two ends of a call is module CallControl;    *)
(* here it runs until it is asked to stop or stops by itself.              *)
(*                                                                         *)
(* A call is Early (an INVITE with an offer), Late (offerless: our 200     *)
(* carries the offer and the ACK the answer) or Out (dialled by us).  The  *)
(* tasks of a call run on several threads: what one task does between two  *)
(* awaits is not atomic for another, so each of its effects is an action.  *)
(***************************************************************************)
EXTENDS Naturals, FiniteSets

CONSTANTS
  Early, Late, Out,   \* the calls of each kind
  MaxOutbound,        \* [outbound].max_concurrent, the permits
  ReaperQueue         \* RETIRE_QUEUE

Call == Early \cup Late \cup Out

ASSUME KindAssumption ==
  Early \cap Late = {} /\ Early \cap Out = {} /\ Late \cap Out = {}
ASSUME BoundAssumption == MaxOutbound \in Nat /\ ReaperQueue \in Nat \ {0}

VARIABLES
  (* the task that carries the call *)
  pc, media, permits, served,
  (* delayed offers: parked offers, their Timer-H watchdogs, the reclaiming tasks *)
  pending, watchdog, reclaim,
  (* CallHandle, the three tables that lead to it *)
  shutdown, remote_bye, registry, control_registry, dialog_handles,
  (* the peer, and the dialog store with its reaper *)
  peer, dialog,
  (* records written and legs reported as failed; the daemon's shutdown *)
  cdr, failed, phase, stragglers, outcome

taskVars == <<pc, media, permits, served>>
lateVars == <<pending, watchdog, reclaim>>
handleVars == <<shutdown, remote_bye>>
tableVars == <<registry, control_registry, dialog_handles>>
sipVars == <<peer, dialog>>
reportVars == <<cdr, failed>>
drainVars == <<phase, stragglers, outcome>>
vars == <<taskVars, lateVars, handleVars, tableVars, sipVars, reportVars, drainVars>>

\* Where the task stands: the name of what it does next.
Step == {"idle", "setup", "accepted", "awaiting_ack", "binding", "running", "disarm",
         "bye", "byeing", "retire", "unlist", "stop_media", "record", "deregister",
         "done"}

Dialog == {"none", "confirmed", "queued", "grace", "removed", "leaked"}

Goto(c, step) == pc' = [pc EXCEPT ![c] = step]

\* Every task dies with the process.
Alive == phase # "exited"
At(c, step) == Alive /\ pc[c] = step
Answered(c) == dialog[c] # "none"
Over(c) == pc[c] = "done" /\ reclaim[c] = "none"

\* The cleanup of an outbound leg leaves the admin table before the BYE, that of an
\* inbound call after it.
AfterRun(c) == IF c \in Out THEN "unlist" ELSE "disarm"
AfterUnlist(c) == IF c \in Out THEN "disarm" ELSE "stop_media"
AfterRetire(c) == IF c \in Out THEN "stop_media" ELSE "unlist"

-----------------------------------------------------------------------------
(* Setting a call up *)

\* on_invite: the drain gate is read once, here; then prepare_call allocates the media.
Invite(c) ==
  /\ c \in Early \cup Late
  /\ At(c, "idle") /\ phase = "serving"
  /\ Goto(c, "setup")
  /\ media' = media \cup {c}
  /\ UNCHANGED <<permits, served, lateVars, handleVars, tableVars, sipVars, reportVars,
                 drainVars>>

\* OutboundService::originate: refused while draining or without a permit; otherwise the
\* spawned task allocates the media and dials.
Originate(c) ==
  /\ c \in Out
  /\ At(c, "idle") /\ phase = "serving"
  /\ Cardinality(permits) < MaxOutbound
  /\ Goto(c, "setup")
  /\ media' = media \cup {c}
  /\ permits' = permits \cup {c}
  /\ UNCHANGED <<served, lateVars, handleVars, tableVars, sipVars, reportVars, drainVars>>

\* The media did not start, the 200 could not be sent, or the callee did not answer: the
\* allocation is rolled back and the call leaves no record.  An outbound leg is reported by
\* the outbound_failed webhook.
SetupFails(c) ==
  /\ At(c, "setup")
  /\ Goto(c, "done")
  /\ media' = media \ {c}
  /\ permits' = permits \ {c}
  /\ failed' = failed \cup ({c} \cap Out)
  /\ UNCHANGED <<served, lateVars, handleVars, tableVars, sipVars, cdr, drainVars>>

\* The 2xx is sent, or received for an outbound leg: the peer has a call and the dialog
\* manager a dialog, before anything can lead a request to the call.
Answer(c) ==
  /\ At(c, "setup")
  /\ Goto(c, "accepted")
  /\ peer' = [peer EXCEPT ![c] = "up"]
  /\ dialog' = [dialog EXCEPT ![c] = "confirmed"]
  /\ UNCHANGED <<media, permits, served, lateVars, handleVars, tableVars, reportVars,
                 drainVars>>

\* apply_answer refuses the callee's answer, or a delayed offer brings none that is usable:
\* place returns an error after the 2xx.  The leg is reported as failed like one that was
\* not answered; its dialog stays, the callee is sent no BYE and no record is written.
AnswerUnusable(c) ==
  /\ c \in Out
  /\ At(c, "accepted")
  /\ Goto(c, "done")
  /\ media' = media \ {c}
  /\ permits' = permits \ {c}
  /\ failed' = failed \cup {c}
  /\ UNCHANGED <<served, lateVars, handleVars, tableVars, sipVars, cdr, drainVars>>

\* run_call: the session timer when one was negotiated, the two tables, the task.
RunCall(c) ==
  /\ \/ c \in Early \cup Out /\ At(c, "accepted")
     \/ c \in Late /\ At(c, "binding")
  /\ Goto(c, "running")
  /\ dialog_handles' \in {dialog_handles, dialog_handles \cup {c}}
  /\ registry' = registry \cup {c}
  /\ control_registry' = control_registry \cup {c}
  /\ served' = served \cup {c}
  /\ UNCHANGED <<media, permits, lateVars, handleVars, sipVars, reportVars, drainVars>>

-----------------------------------------------------------------------------
(* Delayed offers *)

\* accept_delayed_offer parks our offer under its dialog and arms Timer H.
AwaitAck(c) ==
  /\ c \in Late
  /\ At(c, "accepted")
  /\ Goto(c, "awaiting_ack")
  /\ pending' = pending \cup {c}
  /\ watchdog' = watchdog \cup {c}
  /\ UNCHANGED <<media, permits, served, reclaim, handleVars, tableVars, sipVars,
                 reportVars, drainVars>>

\* finalize_delayed_offer takes the entry first; the call is in no table while the answer
\* is applied.
Ack(c) ==
  /\ Alive /\ c \in pending /\ peer[c] = "up"
  /\ pending' = pending \ {c}
  /\ Goto(c, "binding")
  /\ UNCHANGED <<media, permits, served, watchdog, reclaim, handleVars, tableVars, sipVars,
                 reportVars, drainVars>>

\* No usable answer: the failure record, then the media (which apply_answer has already
\* rolled back when it is what failed).
BindFails(c) ==
  /\ At(c, "binding")
  /\ Goto(c, "done")
  /\ reclaim' = [reclaim EXCEPT ![c] = "record"]
  /\ media' \in {media, media \ {c}}
  /\ UNCHANGED <<permits, served, pending, watchdog, handleVars, tableVars, sipVars,
                 reportVars, drainVars>>

\* Wrong: a BYE or the watchdog reads the parked offer and leaves it (LedgerSpec).
ReapPending_Peeks(c) ==
  /\ Goto(c, "done")
  /\ reclaim' = [reclaim EXCEPT ![c] = "record"]
  /\ UNCHANGED pending

\* Whoever removes the entry owns the negotiation and records its failure.
ReapPending(c) ==
  /\ pending' = pending \ {c}
  /\ Goto(c, "done")
  /\ reclaim' = [reclaim EXCEPT ![c] = "record"]

\* Timer H, 32 s after the 200: nothing to do when the entry is gone.
WatchdogFires(c) ==
  /\ Alive /\ c \in watchdog
  /\ watchdog' = watchdog \ {c}
  /\ IF c \in pending THEN ReapPending(c) ELSE UNCHANGED <<pc, pending, reclaim>>
  /\ UNCHANGED <<media, permits, served, handleVars, tableVars, sipVars, reportVars,
                 drainVars>>

\* The task of the watchdog, of a reaping BYE or of a failed ACK emits its record ...
ReclaimRecord(c) ==
  /\ Alive /\ reclaim[c] = "record"
  /\ cdr' = [cdr EXCEPT ![c] = @ + 1]
  /\ reclaim' = [reclaim EXCEPT ![c] = "release"]
  /\ UNCHANGED <<taskVars, pending, watchdog, handleVars, tableVars, sipVars, failed,
                 drainVars>>

\* ... and then stops the media.  It sends no BYE and leaves the dialog in the store.
ReclaimMedia(c) ==
  /\ Alive /\ reclaim[c] = "release"
  /\ media' = media \ {c}
  /\ reclaim' = [reclaim EXCEPT ![c] = "none"]
  /\ UNCHANGED <<pc, permits, served, pending, watchdog, handleVars, tableVars, sipVars,
                 reportVars, drainVars>>

-----------------------------------------------------------------------------
(* What ends a running call *)

\* Wrong: the BYE is noted and the controller is not woken (ByeEndsCall).
PeerBye_OnlyMarks(c) ==
  /\ Alive /\ peer[c] = "up"
  /\ dialog[c] \notin {"none", "removed"}
  /\ peer' = [peer EXCEPT ![c] = "down"]
  /\ remote_bye' = [remote_bye EXCEPT ![c] = c \in registry]
  /\ IF c \in pending THEN ReapPending(c) ELSE UNCHANGED <<pc, pending, reclaim>>
  /\ UNCHANGED <<media, permits, served, watchdog, shutdown, tableVars, dialog, reportVars,
                 drainVars>>

\* A BYE is answered 200 whatever it finds: the registry entry, whose handle it marks and
\* shuts down; else a parked offer; else nothing.
PeerBye(c) ==
  /\ Alive /\ peer[c] = "up"
  /\ dialog[c] \notin {"none", "removed"}
  /\ peer' = [peer EXCEPT ![c] = "down"]
  /\ IF c \in registry
     THEN /\ remote_bye' = [remote_bye EXCEPT ![c] = TRUE]
          /\ shutdown' = [shutdown EXCEPT ![c] = TRUE]
          /\ UNCHANGED <<pc, pending, reclaim>>
     ELSE /\ IF c \in pending THEN ReapPending(c) ELSE UNCHANGED <<pc, pending, reclaim>>
          /\ UNCHANGED handleVars
  /\ UNCHANGED <<media, permits, served, watchdog, tableVars, dialog, reportVars,
                 drainVars>>

\* A CANCEL that crossed our 200 looks in the registry only.
Cancel(c) ==
  /\ Alive /\ c \in registry \ Out
  /\ shutdown' = [shutdown EXCEPT ![c] = TRUE]
  /\ UNCHANGED <<taskVars, lateVars, remote_bye, tableVars, sipVars, reportVars, drainVars>>

\* RFC 4028: the fan-out task finds the handle by dialog.
SessionExpired(c) ==
  /\ Alive /\ c \in dialog_handles
  /\ shutdown' = [shutdown EXCEPT ![c] = TRUE]
  /\ UNCHANGED <<taskVars, lateVars, remote_bye, tableVars, sipVars, reportVars, drainVars>>

\* The admin API hangs up through the bridge-id table.
AdminHangup(c) ==
  /\ Alive /\ c \in control_registry
  /\ shutdown' = [shutdown EXCEPT ![c] = TRUE]
  /\ UNCHANGED <<taskVars, lateVars, remote_bye, tableVars, sipVars, reportVars, drainVars>>

\* CallController::run returns: asked to, or for a reason of its own (module CallControl).
ControllerReturns(c) ==
  /\ At(c, "running")
  /\ Goto(c, AfterRun(c))
  /\ UNCHANGED <<media, permits, served, lateVars, handleVars, tableVars, sipVars,
                 reportVars, drainVars>>

-----------------------------------------------------------------------------
(* The cleanup task *)

\* stop_timer and dialog_handles.remove come first, so that an expiry cannot reach a
\* controller that has gone.
Disarm(c) ==
  /\ At(c, "disarm")
  /\ Goto(c, "bye")
  /\ dialog_handles' = dialog_handles \ {c}
  /\ UNCHANGED <<media, permits, served, lateVars, handleVars, registry, control_registry,
                 sipVars, reportVars, drainVars>>

\* Wrong: any shutdown request is taken for the peer's BYE (PeerReleased).
SendBye_OnlyUnasked(c) ==
  /\ At(c, "bye")
  /\ Goto(c, IF shutdown[c] THEN "retire" ELSE "byeing")
  /\ UNCHANGED <<media, permits, served, lateVars, handleVars, tableVars, sipVars,
                 reportVars, drainVars>>

\* remote_bye_received is read once; a BYE that arrives while ours is in flight changes
\* nothing any more.
SendBye(c) ==
  /\ At(c, "bye")
  /\ Goto(c, IF remote_bye[c] THEN "retire" ELSE "byeing")
  /\ UNCHANGED <<media, permits, served, lateVars, handleVars, tableVars, sipVars,
                 reportVars, drainVars>>

\* Our BYE is answered, or Timer F has given the peer up.
ByeDone(c) ==
  /\ At(c, "byeing")
  /\ Goto(c, "retire")
  /\ peer' = [peer EXCEPT ![c] = "down"]
  /\ UNCHANGED <<media, permits, served, lateVars, handleVars, tableVars, dialog,
                 reportVars, drainVars>>

Queued == {c \in Call : dialog[c] = "queued"}

\* Wrong: an outbound leg's dialog is never retired (DialogsReclaimed, issue #548).
Retire_InboundOnly(c) ==
  /\ At(c, "retire")
  /\ Goto(c, AfterRetire(c))
  /\ dialog' = [dialog EXCEPT ![c] =
                  IF c \in Out THEN @
                  ELSE IF Cardinality(Queued) < ReaperQueue THEN "queued" ELSE "leaked"]
  /\ UNCHANGED <<media, permits, served, lateVars, handleVars, tableVars, peer, reportVars,
                 drainVars>>

\* DialogReaper::retire is a try_send: a full queue leaks the dialog, with a warning.
Retire(c) ==
  /\ At(c, "retire")
  /\ Goto(c, AfterRetire(c))
  /\ dialog' = [dialog EXCEPT ![c] =
                  IF Cardinality(Queued) < ReaperQueue THEN "queued" ELSE "leaked"]
  /\ UNCHANGED <<media, permits, served, lateVars, handleVars, tableVars, peer, reportVars,
                 drainVars>>

\* control_registry.remove.
Unlist(c) ==
  /\ At(c, "unlist")
  /\ Goto(c, AfterUnlist(c))
  /\ control_registry' = control_registry \ {c}
  /\ UNCHANGED <<media, permits, served, lateVars, handleVars, registry, dialog_handles,
                 sipVars, reportVars, drainVars>>

\* Wrong: the entry goes with the media, before the record is written (DrainKeepsRecords).
StopMedia_Deregisters(c) ==
  /\ At(c, "stop_media")
  /\ Goto(c, "record")
  /\ media' = media \ {c}
  /\ registry' = registry \ {c}
  /\ UNCHANGED <<permits, served, lateVars, handleVars, control_registry, dialog_handles,
                 sipVars, reportVars, drainVars>>

StopMedia(c) ==
  /\ At(c, "stop_media")
  /\ Goto(c, "record")
  /\ media' = media \ {c}
  /\ UNCHANGED <<permits, served, lateVars, handleVars, tableVars, sipVars, reportVars,
                 drainVars>>

\* cdr_sink.emit is awaited, the call_end webhook after it.
EmitRecord(c) ==
  /\ At(c, "record")
  /\ Goto(c, "deregister")
  /\ cdr' = [cdr EXCEPT ![c] = @ + 1]
  /\ UNCHANGED <<media, permits, served, lateVars, handleVars, tableVars, sipVars, failed,
                 drainVars>>

\* Wrong: the permit of an outbound leg is forgotten (Settled).
Deregister_KeepsPermit(c) ==
  /\ At(c, "deregister")
  /\ Goto(c, "done")
  /\ registry' = registry \ {c}
  /\ UNCHANGED <<media, permits, served, lateVars, handleVars, control_registry,
                 dialog_handles, sipVars, reportVars, drainVars>>

\* The registry entry goes last: the drain counts entries, and must not see a call gone
\* whose record is not written.  The permit is dropped with the task.
Deregister(c) ==
  /\ At(c, "deregister")
  /\ Goto(c, "done")
  /\ registry' = registry \ {c}
  /\ permits' = permits \ {c}
  /\ UNCHANGED <<media, served, lateVars, handleVars, control_registry, dialog_handles,
                 sipVars, reportVars, drainVars>>

-----------------------------------------------------------------------------
(* The dialog reaper *)

\* The receive arm absorbs a retirement; the tick removes the ones past their grace.
Absorb(c) ==
  /\ Alive /\ dialog[c] = "queued"
  /\ dialog' = [dialog EXCEPT ![c] = "grace"]
  /\ UNCHANGED <<taskVars, lateVars, handleVars, tableVars, peer, reportVars, drainVars>>

Sweep(c) ==
  /\ Alive /\ dialog[c] = "grace"
  /\ dialog' = [dialog EXCEPT ![c] = "removed"]
  /\ UNCHANGED <<taskVars, lateVars, handleVars, tableVars, peer, reportVars, drainVars>>

-----------------------------------------------------------------------------
(* Graceful shutdown *)

callVars == <<taskVars, lateVars, tableVars, sipVars, reportVars>>

\* drain_calls raises the flag before it reads anything.
BeginDrain ==
  /\ phase = "serving"
  /\ phase' = "draining"
  /\ UNCHANGED <<callVars, handleVars, stragglers, outcome>>

\* drain_timeout_secs = 0, or a second signal while draining: exit at once.
ExitAtOnce ==
  /\ Alive
  /\ phase' = "exited"
  /\ outcome' = "dropped"
  /\ UNCHANGED <<callVars, handleVars, stragglers>>

\* Both waits end when they find the registry empty ...
DrainEmptied ==
  /\ phase \in {"draining", "flushing"}
  /\ registry = {}
  /\ phase' = "exited"
  /\ outcome' = "emptied"
  /\ UNCHANGED <<callVars, handleVars, stragglers>>

\* ... or at their deadline: terminate_stragglers takes a snapshot of the entries,
DrainTimeout ==
  /\ phase = "draining"
  /\ phase' = "forcing"
  /\ stragglers' = registry
  /\ UNCHANGED <<callVars, handleVars, outcome>>

\* looks each of them up and shuts down those that are still there,
ForceStraggler(c) ==
  /\ phase = "forcing" /\ c \in stragglers
  /\ stragglers' = stragglers \ {c}
  /\ shutdown' = [shutdown EXCEPT ![c] = @ \/ c \in registry]
  /\ UNCHANGED <<callVars, remote_bye, phase, outcome>>

\* waits DRAIN_FORCE_GRACE for them,
StragglersSignalled ==
  /\ phase = "forcing" /\ stragglers = {}
  /\ phase' = "flushing"
  /\ UNCHANGED <<callVars, handleVars, stragglers, outcome>>

\* Wrong: the stragglers are waited for without a limit (DrainEnds).
GraceOver_OnlyEmpty ==
  /\ phase = "flushing" /\ registry = {}
  /\ phase' = "exited"
  /\ outcome' = "grace_over"
  /\ UNCHANGED <<callVars, handleVars, stragglers>>

\* and leaves whatever is then still up.
GraceOver ==
  /\ phase = "flushing"
  /\ phase' = "exited"
  /\ outcome' = "grace_over"
  /\ UNCHANGED <<callVars, handleVars, stragglers>>

-----------------------------------------------------------------------------
Init ==
  /\ pc = [c \in Call |-> "idle"]
  /\ media = {} /\ permits = {} /\ served = {}
  /\ pending = {} /\ watchdog = {}
  /\ reclaim = [c \in Call |-> "none"]
  /\ shutdown = [c \in Call |-> FALSE] /\ remote_bye = [c \in Call |-> FALSE]
  /\ registry = {} /\ control_registry = {} /\ dialog_handles = {}
  /\ peer = [c \in Call |-> "none"] /\ dialog = [c \in Call |-> "none"]
  /\ cdr = [c \in Call |-> 0] /\ failed = {}
  /\ phase = "serving" /\ stragglers = {} /\ outcome = "none"

Setup(c) == Invite(c) \/ Originate(c) \/ SetupFails(c) \/ Answer(c)
            \/ AnswerUnusable(c) \/ RunCall(c)
DelayedOffer(c) ==
  AwaitAck(c) \/ Ack(c) \/ BindFails(c) \/ WatchdogFires(c) \/ ReclaimRecord(c)
  \/ ReclaimMedia(c)
Ending(c) ==
  PeerBye(c) \/ Cancel(c) \/ SessionExpired(c) \/ AdminHangup(c) \/ ControllerReturns(c)
Cleanup(c) ==
  Disarm(c) \/ SendBye(c) \/ ByeDone(c) \/ Retire(c) \/ Unlist(c) \/ StopMedia(c)
  \/ EmitRecord(c) \/ Deregister(c)
Reaper(c) == Absorb(c) \/ Sweep(c)
Drain ==
  BeginDrain \/ ExitAtOnce \/ DrainEmptied \/ DrainTimeout \/ StragglersSignalled
  \/ GraceOver \/ \E c \in Call : ForceStraggler(c)

Next ==
  \/ Drain
  \/ \E c \in Call : Setup(c) \/ DelayedOffer(c) \/ Ending(c) \/ Cleanup(c) \/ Reaper(c)

\* What the task of a call does next without anyone's help.
Task(c) ==
  RunCall(c) \/ AnswerUnusable(c) \/ AwaitAck(c) \/ BindFails(c)
  \/ (shutdown[c] /\ ControllerReturns(c)) \/ Cleanup(c)
Timers == DrainTimeout \/ StragglersSignalled \/ GraceOver

\* The tasks run; a call that was asked to stop returns; every wait of the drain, the
\* watchdog and the sweep has a timer.  Peers, operators and signals owe nothing.
Fairness ==
  /\ \A c \in Call :
       /\ WF_vars(Task(c))
       /\ WF_vars(WatchdogFires(c)) /\ WF_vars(ReclaimRecord(c) \/ ReclaimMedia(c))
       /\ WF_vars(Reaper(c)) /\ WF_vars(ForceStraggler(c))
  /\ WF_vars(Timers)

Spec == Init /\ [][Next]_vars /\ Fairness

-----------------------------------------------------------------------------
(* Properties *)

TypeOK ==
  /\ pc \in [Call -> Step]
  /\ media \subseteq Call /\ permits \subseteq Call /\ served \subseteq Call
  /\ pending \subseteq Call /\ watchdog \subseteq Call
  /\ registry \subseteq Call /\ control_registry \subseteq Call
  /\ dialog_handles \subseteq Call /\ stragglers \subseteq Call
  /\ reclaim \in [Call -> {"none", "record", "release"}]
  /\ shutdown \in [Call -> BOOLEAN] /\ remote_bye \in [Call -> BOOLEAN]
  /\ peer \in [Call -> {"none", "up", "down"}]
  /\ dialog \in [Call -> Dialog]
  /\ cdr \in [Call -> 0 .. 1] /\ failed \subseteq Call
  /\ phase \in {"serving", "draining", "forcing", "flushing", "exited"}
  /\ outcome \in {"none", "emptied", "dropped", "grace_over"}

\* A drain that reports every call ended has lost no record of a call it waited for: the
\* registry entry outlives the CDR write (issue #344).
DrainKeepsRecords == outcome = "emptied" => \A c \in served : cdr[c] = 1

\* Whatever path a call took, its end leaves nothing that leads to it or that it held; a leg
\* we placed has one verdict, a record or a failure report, and an inbound call has one
\* record exactly if it was answered.
Settled ==
  \A c \in Call : Over(c) =>
    /\ c \notin media \cup permits \cup pending
    /\ c \notin registry \cup control_registry \cup dialog_handles
    /\ cdr[c] = 1 <=> IF c \in Out THEN c \notin failed ELSE Answered(c)

\* A call that ran never ends with its peer still in it: either the peer's BYE was seen
\* before ours was due, or ours was sent.
PeerReleased == \A c \in served : Over(c) => peer[c] = "down"

\* A call counts as connected from the 2xx we send, or from the moment a callee's answer is
\* in use.  The records kept here are the records promised: at most one per connected call,
\* none for a leg reported as failed, none after the exit.
Connected == {c \in Call : Answered(c) /\ (c \in Out => c \in served)}
Ledger == INSTANCE CallLedger WITH
  connected <- Connected, records <- cdr, closed <- ~Alive
LedgerSpec == Ledger!Spec

\* A BYE that found the call ends it, records it and takes it out of the registry.
ByeEndsCall == \A c \in Call : remote_bye[c] ~> (Over(c) \/ ~Alive)

\* The dialog of a call that ran leaves the store, unless the reaper's queue was full when
\* the call was retired.
DialogsReclaimed ==
  \A c \in Call : (c \in served /\ Over(c)) ~> (dialog[c] \in {"removed", "leaked"} \/ ~Alive)

\* Once begun, the shutdown ends, whatever the calls do.
DrainEnds == (phase # "serving") ~> ~Alive

\* docs/OUTBOUND.md:193: an answered call has a record.  The code does not keep it: see
\* AnswerUnusable.
AnsweredRecorded == \A c \in Call : Over(c) /\ Answered(c) => cdr[c] = 1

\* docs/DEPLOY.md:1242: a leg reported as failed was not answered.  Nor this.
FailedUnanswered == \A c \in failed : ~Answered(c)

\* What the acceptor says of a BYE to an answered call that is not over: it finds an entry
\* to wake, or the parked offer to reap.
ByeFindsCall ==
  [][\A c \in Call : PeerBye(c) /\ pc[c] # "done" => c \in registry \cup pending]_vars
=============================================================================
