------------------------------ MODULE Transfer ------------------------------
(***************************************************************************)
(* The requests that siphon-ai sends within one dialog, and the transfer   *)
(* among them (crates/core/src/transfer.rs; arms of call.rs; the refresh   *)
(* loop of outbound_service.rs).  Four kinds of task each take a copy of   *)
(* the dialog, send the request that follows it, and write back what they  *)
(* have: the controller's re-INVITEs for hold and resume, a task for each  *)
(* REFER, the session refresh of an outbound leg, and the BYE of teardown. *)
(*                                                                         *)
(* A number is a CSeq of ours.  The INVITE, if it was ours, had number 1.  *)
(***************************************************************************)
EXTENDS Naturals, Sequences, DialogPromises

CONSTANTS
  Refers,      \* the transfers the server may ask for
  MaxHolds,    \* bound: hold and resume requests of the server
  MaxRefreshes \* bound: ticks of the refresh loop

ASSUME BoundsAssumption == MaxHolds \in Nat /\ MaxRefreshes \in Nat

\* No transfer has the name of another requester.
ASSUME RefersAssumption == Refers \cap {"reinvite", "refresh", "bye"} = {}

Requester == Refers \cup {"reinvite", "refresh", "bye"}

VARIABLES
  leg,          \* whose dialog: "managed" (inbound) or "direct" (outbound)
  glare_retried,
  asked,        \* the handle's shutdown has been notified
  remote_bye,   \* the mark on the handle
  stage, copy,  \* of each requester: how far it is, the number its copy is at
  shared,       \* the number the dialog is at that everyone reads
  failures,     \* consecutive failed refreshes
  holds, refreshes, \* how many are left
  results,      \* transfer_result_tx, bounded by 1
  outcome,      \* of each REFER, until it is told or dropped
  told,         \* transfers the server has had an answer to
  dropped,      \* transfers whose result found the channel full
  used          \* the numbers on the wire

ctlVars == <<at, glare_retried, asked, remote_bye, holds>>
seqVars == <<stage, copy, shared, used, reused, crowded>>
referVars == <<results, outcome, told, dropped>>
refreshVars == <<failures, refreshes>>
peerVars == <<peer, bye_lost>>
vars == <<leg, ctlVars, seqVars, referVars, refreshVars, peerVars>>

MAX_CONSECUTIVE_SESSION_REFRESH_FAILURES == 2

Init ==
  /\ leg \in {"managed", "direct"}
  /\ at = "loop" /\ glare_retried = FALSE /\ asked = FALSE /\ remote_bye = FALSE
  /\ stage = [r \in Requester |-> "idle"] /\ copy = [r \in Requester |-> 0]
  /\ shared = (IF leg = "direct" THEN 1 ELSE 0)
  /\ used = (IF leg = "direct" THEN {1} ELSE {})
  /\ reused = FALSE /\ crowded = FALSE
  /\ failures = 0 /\ holds = MaxHolds
  /\ refreshes = (IF leg = "direct" THEN MaxRefreshes ELSE 0)
  /\ results = <<>> /\ outcome = [t \in Refers |-> "none"] /\ told = {} /\ dropped = {}
  /\ peer = "in" /\ bye_lost = FALSE

-----------------------------------------------------------------------------
(* The dialog. *)

\* The requester has read the dialog and may still send from its copy.
Busy(r) ==
  \/ stage[r] \in {"read", "out", "bye_due"} \/ (r = "reinvite" /\ at = "glare")
  \/ r = "bye" /\ stage[r] # "idle"

\* Its number is published, and it will not send from its copy again.
Published(r) == leg = "direct" /\ stage[r] = "out"

\* resolve: a copy of the dialog as it is now.
Resolve(r) ==
  /\ stage' = [stage EXCEPT ![r] = "read"] /\ copy' = [copy EXCEPT ![r] = shared]
  /\ crowded' = (crowded \/ \E q \in Requester \ {r} : Busy(q) /\ ~(r = "bye" /\ Published(q)))
  /\ UNCHANGED <<shared, used, reused>>

\* The request takes the number after its copy's.
Number(r) == copy[r] + 1

OnTheWire(r) ==
  /\ used' = used \cup {Number(r)}
  /\ reused' = (reused \/ Number(r) \in used)
  /\ UNCHANGED crowded

\* The requester is done with its copy.
Forget(r) == copy' = [copy EXCEPT ![r] = 0]

\* The copy moves on with the request.
Advance(r) == copy' = [copy EXCEPT ![r] = Number(r)]

\* Mutant: the number is published with the answer only.
Send_NoReserve(r) == OnTheWire(r) /\ (IF leg = "managed" THEN shared' = Number(r) ELSE UNCHANGED shared)

\* reserve_cseq and the send: published on the shared dialog, never backwards; on an inbound
\* leg the stack puts the advanced copy into its store instead.
Send(r) ==
  /\ OnTheWire(r)
  /\ shared' = IF leg = "direct" /\ shared > Number(r) THEN shared ELSE Number(r)

\* commit: an outbound leg's shared dialog becomes the copy.
Commit(r) == shared' = IF leg = "direct" THEN copy[r] ELSE shared

At(r, s) == stage' = [stage EXCEPT ![r] = s]

-----------------------------------------------------------------------------
(* The controller. *)

\* BridgeIn::Transfer: a task of its own.
AskTransfer(t) ==
  /\ at = "loop" /\ ~asked /\ stage[t] = "idle" /\ At(t, "spawned")
  /\ UNCHANGED <<leg, ctlVars, copy, shared, used, reused, crowded, referVars, refreshVars, peerVars>>

\* BridgeIn::Hold or Resume, as far as it leads to a re-INVITE.
AskReinvite ==
  /\ at = "loop" /\ ~asked /\ holds > 0 /\ holds' = holds - 1
  /\ at' = "reinvite" /\ Resolve("reinvite")
  /\ UNCHANGED <<leg, glare_retried, asked, remote_bye, referVars, refreshVars, peerVars>>

SendReinvite ==
  /\ at = "reinvite" /\ stage["reinvite"] = "read"
  /\ Send("reinvite") /\ Advance("reinvite") /\ At("reinvite", "out")
  /\ UNCHANGED <<leg, ctlVars, referVars, refreshVars, peerVars>>

\* Answered, well or not, or given up; the first 491 is tried again from the same copy.
ReinviteAnswered ==
  /\ stage["reinvite"] = "out" /\ At("reinvite", "idle") /\ Commit("reinvite")
  /\ \/ at' = "loop" /\ Forget("reinvite") /\ glare_retried' = FALSE
     \/ ~glare_retried /\ at' = "glare" /\ glare_retried' = TRUE /\ UNCHANGED copy
  /\ UNCHANGED <<leg, asked, remote_bye, holds, used, reused, crowded,
                 referVars, refreshVars, peerVars>>

GlareOver ==
  /\ at = "glare" /\ at' = "reinvite" /\ At("reinvite", "read")
  /\ UNCHANGED <<leg, glare_retried, asked, remote_bye, holds, copy, shared, used, reused,
                 crowded, referVars, refreshVars, peerVars>>

\* Mutant: the mark is set whoever owes the BYE.
TakeResult_AlwaysMarks ==
  /\ at = "loop" /\ ~asked /\ results # <<>> /\ results' = Tail(results)
  /\ told' = told \cup {Head(results)} /\ outcome' = [outcome EXCEPT ![Head(results)] = "none"]
  /\ IF outcome[Head(results)] = "accepted" THEN at' = "left" /\ remote_bye' = TRUE
     ELSE UNCHANGED <<at, remote_bye>>
  /\ UNCHANGED <<leg, glare_retried, asked, holds, seqVars, dropped, refreshVars, peerVars>>

\* The arm of transfer_result_rx: an accepted transfer ends the call, any other is an error.
TakeResult ==
  /\ at = "loop" /\ ~asked /\ results # <<>> /\ results' = Tail(results)
  /\ told' = told \cup {Head(results)} /\ outcome' = [outcome EXCEPT ![Head(results)] = "none"]
  /\ IF outcome[Head(results)] = "accepted"
     THEN at' = "left" /\ remote_bye' = (remote_bye \/ leg = "managed")
     ELSE UNCHANGED <<at, remote_bye>>
  /\ UNCHANGED <<leg, glare_retried, asked, holds, seqVars, dropped, refreshVars, peerVars>>

\* A shutdown was asked for, or the session or the media ended.
LeaveLoop ==
  /\ at = "loop" /\ at' = "left"
  /\ UNCHANGED <<leg, glare_retried, asked, remote_bye, holds, seqVars, referVars, refreshVars, peerVars>>

\* The peer hangs up; so may an operator, who marks nothing.
AskShutdown ==
  /\ at \notin {"over"} /\ ~asked /\ asked' = TRUE
  /\ \/ peer = "in" /\ peer' = "out" /\ remote_bye' = TRUE
     \/ UNCHANGED <<peer, remote_bye>>
  /\ UNCHANGED <<leg, at, glare_retried, holds, seqVars, referVars, refreshVars, bye_lost>>

-----------------------------------------------------------------------------
(* The task of one REFER: run_transfer. *)

Fail(t) == At(t, "report") /\ outcome' = [outcome EXCEPT ![t] = "failed"]

\* plan_refer, and the dialog.
PlanRefer(t) ==
  /\ stage[t] = "spawned"
  /\ \/ Resolve(t) /\ UNCHANGED outcome
     \/ Fail(t) /\ UNCHANGED <<copy, shared, used, reused, crowded>>
  /\ UNCHANGED <<leg, ctlVars, results, told, dropped, refreshVars, peerVars>>

SendRefer(t) ==
  /\ stage[t] = "read" /\ Send(t) /\ Advance(t) /\ At(t, "out")
  /\ UNCHANGED <<leg, ctlVars, referVars, refreshVars, peerVars>>

\* A 2xx, if the peer is still there; or a refusal, or nothing usable.
ReferAnswered(t) ==
  /\ stage[t] = "out" /\ Commit(t)
  /\ \/ /\ peer = "in" /\ outcome' = [outcome EXCEPT ![t] = "accepted"]
        /\ IF leg = "managed" THEN At(t, "bye_due") /\ UNCHANGED copy ELSE At(t, "report") /\ Forget(t)
     \/ Fail(t) /\ Forget(t)
  /\ UNCHANGED <<leg, ctlVars, used, reused, crowded, results, told, dropped,
                 refreshVars, peerVars>>

\* bye_after_refer, from the task's own copy.
ByeAfterRefer(t) ==
  /\ stage[t] = "bye_due" /\ At(t, "report") /\ Forget(t)
  /\ \/ Send(t) /\ peer' = "out" /\ UNCHANGED bye_lost
     \/ bye_lost' = TRUE /\ UNCHANGED <<shared, used, reused, crowded, peer>>
  /\ UNCHANGED <<leg, ctlVars, referVars, refreshVars>>

\* Mutant: a transfer that failed is not reported.
ReportRefer_OnlyAccepted(t) ==
  /\ stage[t] = "report" /\ At(t, "done")
  /\ IF results = <<>> /\ outcome[t] = "accepted" THEN results' = <<t>> /\ UNCHANGED <<outcome, dropped>>
     ELSE /\ dropped' = IF results = <<>> THEN dropped ELSE dropped \cup {t}
          /\ outcome' = [outcome EXCEPT ![t] = "none"] /\ UNCHANGED results
  /\ UNCHANGED <<leg, ctlVars, copy, shared, used, reused, crowded, told, refreshVars, peerVars>>

\* try_send into a channel with one place.
ReportRefer(t) ==
  /\ stage[t] = "report" /\ At(t, "done")
  /\ IF results = <<>> THEN results' = <<t>> /\ UNCHANGED <<outcome, dropped>>
     ELSE /\ dropped' = dropped \cup {t} /\ UNCHANGED results
          /\ outcome' = [outcome EXCEPT ![t] = "none"]
  /\ UNCHANGED <<leg, ctlVars, copy, shared, used, reused, crowded, told, refreshVars, peerVars>>

-----------------------------------------------------------------------------
(* The refresh loop of an outbound leg whose callee made us the refresher. *)

RefreshTick ==
  /\ stage["refresh"] = "idle" /\ refreshes > 0 /\ refreshes' = refreshes - 1
  /\ at \notin {"bye", "byeing", "over"} /\ Resolve("refresh")
  /\ UNCHANGED <<leg, ctlVars, referVars, failures, peerVars>>

\* Aborted while it runs, the task still gets to its next await.
SendRefresh ==
  /\ stage["refresh"] = "read" /\ Send("refresh")
  /\ IF at \in {"bye", "byeing", "over"} THEN At("refresh", "done") /\ Forget("refresh")
     ELSE At("refresh", "out") /\ Advance("refresh")
  /\ UNCHANGED <<leg, ctlVars, referVars, refreshVars, peerVars>>

\* Only an answer is committed; a dialog that is gone, and a second failure, end the loop.
RefreshAnswered ==
  /\ stage["refresh"] = "out" /\ Forget("refresh")
  /\ \/ Commit("refresh") /\ failures' = 0 /\ At("refresh", "idle")
     \/ /\ Commit("refresh") \/ UNCHANGED shared
        /\ failures' = failures + 1
        /\ At("refresh", IF failures' = MAX_CONSECUTIVE_SESSION_REFRESH_FAILURES THEN "done" ELSE "idle")
     \/ UNCHANGED <<shared, failures>> /\ At("refresh", "done")
  /\ UNCHANGED <<leg, ctlVars, used, reused, crowded, referVars, refreshes, peerVars>>

-----------------------------------------------------------------------------
(* The clean-up. *)

\* The controller has returned; an outbound leg aborts the refresh loop.
Cleanup ==
  /\ at = "left" /\ at' = "bye"
  /\ IF stage["refresh"] \in {"idle", "out"} THEN At("refresh", "done") /\ Forget("refresh")
     ELSE UNCHANGED <<stage, copy>>
  /\ UNCHANGED <<leg, glare_retried, asked, remote_bye, holds, shared, used, reused,
                 crowded, referVars, refreshVars, peerVars>>

\* Nothing is owed to a peer that has hung up.
NoByeOwed ==
  /\ at = "bye" /\ remote_bye /\ at' = "over"
  /\ UNCHANGED <<leg, glare_retried, asked, remote_bye, holds, seqVars, referVars, refreshVars, peerVars>>

ResolveBye ==
  /\ at = "bye" /\ ~remote_bye /\ at' = "byeing" /\ Resolve("bye")
  /\ UNCHANGED <<leg, glare_retried, asked, remote_bye, holds, referVars, refreshVars, peerVars>>

\* hangup or send_outbound_bye; an outbound leg's shared dialog is not told.
SendBye ==
  /\ at = "byeing" /\ at' = "over" /\ At("bye", "done") /\ OnTheWire("bye") /\ Forget("bye")
  /\ shared' = (IF leg = "managed" THEN Number("bye") ELSE shared)
  /\ peer' = "out"
  /\ UNCHANGED <<leg, glare_retried, asked, remote_bye, holds, referVars, refreshVars, bye_lost>>

-----------------------------------------------------------------------------
Controller == SendReinvite \/ ReinviteAnswered \/ GlareOver \/ TakeResult \/ (asked /\ LeaveLoop)
Refer(t) == PlanRefer(t) \/ SendRefer(t) \/ ReferAnswered(t) \/ ByeAfterRefer(t) \/ ReportRefer(t)
Refresh == SendRefresh \/ RefreshAnswered
CleanupTask == Cleanup \/ NoByeOwed \/ ResolveBye \/ SendBye
Server == AskReinvite \/ \E t \in Refers : AskTransfer(t)

Next ==
  \/ Controller \/ LeaveLoop \/ Server \/ AskShutdown
  \/ \E t \in Refers : Refer(t)
  \/ RefreshTick \/ Refresh
  \/ CleanupTask
  \/ at = "over" /\ UNCHANGED vars

Spec == Init /\ [][Next]_vars

\* Each task runs, and every request is answered or given up by its transaction's timer; the
\* arm of the results is taken when it is ready for ever again.
FairSpec ==
  /\ Spec
  /\ WF_vars(Controller) /\ SF_vars(TakeResult) /\ WF_vars(Refresh) /\ WF_vars(CleanupTask)
  /\ \A t \in Refers : WF_vars(Refer(t))

-----------------------------------------------------------------------------
(* Properties, beside those of DialogPromises. *)

\* docs/PROTOCOL.md:797: a transfer is answered, by an error or the end of the call, through every
\* re-INVITE the controller is busy with; or its result found another one in its place.
TransferAnswered ==
  \A t \in Refers : (stage[t] = "spawned") ~> (t \in told \cup dropped \/ at = "over")

-----------------------------------------------------------------------------
(* A statement of the comments that does not hold. *)

\* "Never moves the sequence backwards ... two in-flight requests get two distinct numbers"
\* (transfer.rs:132): what an outbound leg's dialog says next is a number nobody has sent.
NumbersPublished == leg = "direct" /\ at # "over" => \A n \in used : n <= shared
=============================================================================
