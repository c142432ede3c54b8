---------------------------- MODULE DetailProofs ----------------------------
(***************************************************************************)
(* Two details of a call that CallControl leaves out, each a machine of    *)
(* its own.  For channels of every size, no channel of Backpressure        *)
(* overflows, and the audio channels never deadlock the session's task and *)
(* the tap.  For any transfers, and any number of holds and refreshes, the *)
(* dialog of Transfer sends no CSeq twice while its requests take turns,   *)
(* and no peer is left in a call that is over.                             *)
(*                                                                         *)
(* The second machine's variables are declared here or in DialogPromises,  *)
(* which has what it promises; T!A is its definition A.                    *)
(***************************************************************************)
EXTENDS Backpressure, DialogPromises, TLAPS

CONSTANTS Refers, MaxHolds, MaxRefreshes  \* of Transfer

VARIABLES  \* of Transfer
  leg, glare_retried, asked, remote_bye, stage, copy, shared, failures, holds, refreshes,
  results, outcome, told, dropped, used

T == INSTANCE Transfer

-----------------------------------------------------------------------------
(***************************************************************************)
(* The channels.                                                           *)
(***************************************************************************)
TapOwes == IF tap = "sending" THEN tap_left ELSE 0

\* Why there is no cycle: the session's task listens to the server only with audio_out
\* empty, and the tap begins a batch only with audio_in empty.  So a batch that is under
\* way when the task begins to wait fits into audio_out, and no other begins.
RoomForBatch ==
  /\ tap = "sending" => tap_left > 0
  /\ BridgeWaitsForTap => audio_out + TapOwes <= AudioCap

Inv == TypeOK /\ RoomForBatch

-----------------------------------------------------------------------------
(* The control channel as a sequence. *)

LEMMA EmptyOut == <<>> \in Seq(Item) /\ Len(<<>>) = 0
OBVIOUS

LEMMA AppendOut ==
  ASSUME NEW s \in Seq(Item), NEW e \in Item
  PROVE  Append(s, e) \in Seq(Item) /\ Len(Append(s, e)) = Len(s) + 1
OBVIOUS

LEMMA TailOut ==
  ASSUME NEW s \in Seq(Item), s # <<>>
  PROVE  Head(s) \in Item /\ Tail(s) \in Seq(Item) /\ Len(Tail(s)) = Len(s) - 1
OBVIOUS

LEMMA SendOut ==
  ASSUME TypeOK, NEW item \in Item, Send(item)
  PROVE  out' \in Seq(Item) /\ Len(out') <= OutCap
<1>1. CASE bridge = "ended"
  BY <1>1 DEF TypeOK, Send
<1>2. CASE bridge # "ended"
  <2>1. Len(out) < OutCap /\ out' = Append(out, item)
    BY <1>2 DEF Send
  <2>2. out \in Seq(Item) /\ Len(out) \in Nat /\ OutCap \in Nat
    BY CapAssumption DEF TypeOK
  <2>3. QED
    BY <2>1, <2>2, AppendOut
<1>3. QED
  BY <1>1, <1>2

-----------------------------------------------------------------------------
(* Type correctness *)

LEMMA TypeInit == Init => TypeOK
<1> SUFFICES ASSUME Init PROVE TypeOK
  OBVIOUS
<1>1. out \in Seq(Item) /\ Len(out) <= OutCap
  BY EmptyOut, CapAssumption DEF Init
<1>2. tap_left \in 0 .. MaxBatch /\ control_in \in 0 .. InCap /\ audio_out \in 0 .. AudioCap
      /\ audio_in \in 0 .. AudioCap /\ wire \in 0 .. WireCap
      /\ server_msgs \in 0 .. MaxServerMsgs
  BY CapAssumption, BatchAssumption DEF Init
<1>3. QED
  BY <1>1, <1>2 DEF Init, TypeOK, Item

LEMMA ControllerType == ASSUME TypeOK, Controller \/ ControllerTells PROVE TypeOK'
<1> USE CapAssumption, BatchAssumption
<1>1. CASE TakeShutdown
  BY <1>1 DEF TypeOK, TakeShutdown, sessionVars, tapVars, audioVars, netVars
<1>2. CASE TakeControl
  BY <1>2 DEF TypeOK, TakeControl, sessionVars, tapVars, audioVars, netVars
<1>3. CASE ReinviteDone
  BY <1>3 DEF TypeOK, ReinviteDone, sessionVars, tapVars, audioVars, netVars
<1>4. CASE Replied
  <2>1. out' \in Seq(Item) /\ Len(out') <= OutCap
    BY <1>4, SendOut DEF Replied, Item
  <2>2. QED
    BY <1>4, <2>1 DEF TypeOK, Replied, sessionVars, tapVars, audioVars, netVars
<1>5. CASE StopQueued
  <2>1. out' \in Seq(Item) /\ Len(out') <= OutCap
    BY <1>5, SendOut DEF StopQueued, Item
  <2>2. QED
    BY <1>5, <2>1 DEF TypeOK, StopQueued, sessionVars, tapVars, audioVars, netVars
<1>6. CASE SessionOver
  BY <1>6 DEF TypeOK, SessionOver, sessionVars, tapVars, audioVars, netVars
<1>7. CASE TapOver
  BY <1>7 DEF TypeOK, TapOver, sessionVars, tapVars, audioVars, netVars
<1>8. CASE Drained
  BY <1>8 DEF TypeOK, Drained, audioVars, netVars
<1>9. CASE ControllerTells
  BY <1>9 DEF TypeOK, ControllerTells, sessionVars, tapVars, audioVars, netVars
<1>10. QED
  BY <1>1, <1>2, <1>3, <1>4, <1>5, <1>6, <1>7, <1>8, <1>9 DEF Controller

LEMMA OthersType == ASSUME TypeOK, PushEvent \/ RequestShutdown PROVE TypeOK'
<1> USE CapAssumption, BatchAssumption
<1>1. CASE PushEvent
  <2>1. out' = Append(out, "event") /\ Len(out) < OutCap
    BY <1>1 DEF PushEvent, TypeOK
  <2>2. out \in Seq(Item) /\ Len(out) \in Nat /\ "event" \in Item
    BY DEF TypeOK, Item
  <2>3. out' \in Seq(Item) /\ Len(out') <= OutCap
    BY <2>1, <2>2, AppendOut
  <2>4. QED
    BY <1>1, <2>3 DEF TypeOK, PushEvent, sessionVars, tapVars, audioVars, netVars
<1>2. CASE RequestShutdown
  BY <1>2 DEF TypeOK, RequestShutdown, sessionVars, tapVars, audioVars, netVars
<1>3. QED
  BY <1>1, <1>2

LEMMA SessionType ==
  ASSUME TypeOK,
         Session \/ HearControl \/ HearAudio \/ OwnWrite \/ SessionBreaks \/ ServerReads
  PROVE  TypeOK'
<1> USE CapAssumption, BatchAssumption
<1>1. CASE TakeEvent
  <2>1. Head(out) \in Item /\ Tail(out) \in Seq(Item) /\ Len(Tail(out)) = Len(out) - 1
    BY <1>1, TailOut DEF TypeOK, TakeEvent
  <2>2. out' \in Seq(Item) /\ Len(out') <= OutCap /\ holding' \in Item
    BY <1>1, <2>1 DEF TypeOK, TakeEvent
  <2>3. QED
    BY <1>1, <2>2 DEF TypeOK, TakeEvent, tapVars, audioVars, netVars
<1>2. CASE TakeAudio
  BY <1>2 DEF TypeOK, TakeAudio, tapVars, netVars
<1>3. CASE Write
  BY <1>3 DEF TypeOK, Write, tapVars, audioVars
<1>4. CASE HandToController
  BY <1>4 DEF TypeOK, HandToController, tapVars, audioVars, netVars
<1>5. CASE HandToTap
  BY <1>5 DEF TypeOK, HandToTap, tapVars, netVars
<1>6. CASE HandToTapFails
  BY <1>6 DEF TypeOK, HandToTapFails, tapVars, audioVars, netVars
<1>7. CASE HearControl
  BY <1>7 DEF TypeOK, HearControl, tapVars, audioVars
<1>8. CASE HearAudio
  BY <1>8 DEF TypeOK, HearAudio, tapVars, audioVars, netVars
<1>9. CASE SessionBreaks
  BY <1>9 DEF TypeOK, SessionBreaks, tapVars, audioVars, netVars
<1>10. CASE ServerReads
  BY <1>10 DEF TypeOK, ServerReads, sessionVars, tapVars, audioVars
<1>11. CASE OwnWrite
  BY <1>11 DEF TypeOK, OwnWrite, Item, tapVars, audioVars, netVars
<1>12. QED
  BY <1>1, <1>2, <1>3, <1>4, <1>5, <1>6, <1>7, <1>8, <1>9, <1>10, <1>11 DEF Session

LEMMA TapType ==
  ASSUME TypeOK, RoomForBatch, Tap \/ TapTakesFrames \/ MediaEnds
  PROVE  TypeOK'
<1> USE CapAssumption, BatchAssumption
<1>1. CASE TapPlays
  BY <1>1 DEF TypeOK, TapPlays, sessionVars, tapVars, netVars
<1>2. CASE TapSends
  BY <1>2 DEF TypeOK, RoomForBatch, TapSends, sessionVars, netVars
<1>3. CASE TapEnds
  BY <1>3 DEF TypeOK, TapEnds, sessionVars, audioVars, netVars
<1>4. CASE TapTakesFrames
  BY <1>4 DEF TypeOK, TapTakesFrames, sessionVars, audioVars, netVars
<1>5. CASE MediaEnds
  BY <1>5 DEF TypeOK, MediaEnds, sessionVars, audioVars, netVars
<1>6. QED
  BY <1>1, <1>2, <1>3, <1>4, <1>5 DEF Tap

-----------------------------------------------------------------------------
(* The batch fits *)

\* A step that leaves the tap and the audio channels alone keeps the room, unless it is the
\* session's task turning to the tap.
LEMMA RoomKept ==
  ASSUME RoomForBatch, UNCHANGED tapVars, UNCHANGED audioVars,
         bridge' = "to_tap" => bridge = "to_tap"
  PROVE  RoomForBatch'
BY DEF RoomForBatch, TapOwes, BridgeWaitsForTap, tapVars, audioVars

LEMMA RoomStep == ASSUME TypeOK, RoomForBatch, Next PROVE RoomForBatch'
<1> USE CapAssumption, BatchAssumption
<1>1. CASE Controller \/ ControllerTells
  <2>1. CASE Drained
    BY <2>1 DEF RoomForBatch, TapOwes, BridgeWaitsForTap, Drained, audioVars
  <2>2. CASE ~Drained
    BY <1>1, <2>2, RoomKept DEF Controller, TakeShutdown, TakeControl, ReinviteDone,
       Replied, StopQueued, SessionOver, TapOver, ControllerTells, sessionVars
  <2>3. QED
    BY <2>1, <2>2
<1>2. CASE PushEvent \/ RequestShutdown \/ HearControl \/ OwnWrite \/ SessionBreaks
           \/ ServerReads
  BY <1>2, RoomKept DEF PushEvent, RequestShutdown, HearControl, OwnWrite,
     SessionBreaks, ServerReads, sessionVars
<1>3. CASE TakeEvent \/ Write \/ HandToController \/ HandToTapFails
  BY <1>3, RoomKept DEF TakeEvent, Write, HandToController, HandToTapFails
<1>4. CASE TakeAudio
  BY <1>4 DEF TypeOK, RoomForBatch, TapOwes, BridgeWaitsForTap, TakeAudio, tapVars
<1>5. CASE HandToTap
  BY <1>5 DEF RoomForBatch, TapOwes, BridgeWaitsForTap, HandToTap, tapVars
<1>6. CASE HearAudio
  <2>1. audio_out = 0 /\ TapOwes \in 0 .. MaxBatch
    BY <1>6 DEF HearAudio, ServerIdle, TypeOK, TapOwes
  <2>2. audio_out' + TapOwes' <= AudioCap
    BY <1>6, <2>1 DEF HearAudio, TapOwes, tapVars, audioVars
  <2>3. QED
    BY <1>6, <2>2 DEF RoomForBatch, HearAudio, tapVars
<1>7. CASE TapPlays
  BY <1>7 DEF TypeOK, RoomForBatch, BridgeWaitsForTap, TapPlays, tapVars
<1>8. CASE TapTakesFrames
  BY <1>8 DEF RoomForBatch, BridgeWaitsForTap, TapTakesFrames, audioVars
<1>9. CASE TapSends
  BY <1>9 DEF TypeOK, RoomForBatch, TapOwes, BridgeWaitsForTap, TapSends, sessionVars
<1>10. CASE TapEnds \/ MediaEnds
  BY <1>10 DEF TypeOK, RoomForBatch, TapOwes, BridgeWaitsForTap, TapEnds, MediaEnds,
     sessionVars, audioVars
<1>11. CASE Over
  BY <1>11 DEF RoomForBatch, TapOwes, BridgeWaitsForTap, Over, vars
<1>12. QED
  BY <1>1, <1>2, <1>3, <1>4, <1>5, <1>6, <1>7, <1>8, <1>9, <1>10, <1>11
     DEF Next, Session, Tap

-----------------------------------------------------------------------------
(* The theorems *)

LEMMA InvInit == Init => Inv
BY TypeInit, CapAssumption DEF Inv, Init, RoomForBatch, TapOwes, BridgeWaitsForTap

LEMMA InvStep == Inv /\ [Next]_vars => Inv'
<1> SUFFICES ASSUME Inv, [Next]_vars PROVE Inv'
  OBVIOUS
<1>1. CASE Next
  <2>1. TypeOK /\ RoomForBatch
    BY DEF Inv
  <2>2. CASE Over
    BY <2>1, <2>2 DEF TypeOK, Over, vars, Inv, RoomForBatch, TapOwes, BridgeWaitsForTap
  <2>3. CASE ~Over
    <3>1. TypeOK'
      BY <1>1, <2>1, <2>3, ControllerType, OthersType, SessionType, TapType DEF Next
    <3>2. RoomForBatch'
      BY <1>1, <2>1, RoomStep
    <3>3. QED
      BY <3>1, <3>2 DEF Inv
  <2>4. QED
    BY <2>2, <2>3
<1>2. CASE UNCHANGED vars
  BY <1>2 DEF Inv, TypeOK, RoomForBatch, TapOwes, BridgeWaitsForTap, vars
<1>3. QED
  BY <1>1, <1>2

\* The inductive invariant holds in every reachable state: what the awaiting sends and the
\* order of the two biased selects keep true together.
THEOREM Invariance == Spec => []Inv
BY InvInit, InvStep, PTL DEF Spec

\* Every channel stays within its capacity, whatever the capacities: a send that finds no
\* room waits or gives up, in the controller, the session's task and the tap.
THEOREM ChannelsBounded == Spec => []TypeOK
<1>1. Inv => TypeOK
  BY DEF Inv
<1>2. QED
  BY <1>1, Invariance, PTL

\* The session's task and the tap never wait for each other's audio channel, provided that
\* a batch of frames is never larger than a channel.
THEOREM AudioNeverDeadlocks == Spec => []NoAudioCycle
<1>1. Inv => NoAudioCycle
  BY CapAssumption DEF Inv, TypeOK, RoomForBatch, TapOwes, NoAudioCycle,
     BridgeWaitsForTap, TapWaitsForBridge
<1>2. QED
  BY <1>1, Invariance, PTL

-----------------------------------------------------------------------------
(***************************************************************************)
(* The requests of the dialog.  A requester is a transfer or one of three  *)
(* others that are no transfer's name.                                     *)
(***************************************************************************)
Stage == {"idle", "spawned", "read", "out", "bye_due", "report", "done"}
Place == {"loop", "reinvite", "glare", "left", "bye", "byeing", "over"}

DialogType ==
  /\ leg \in {"managed", "direct"} /\ at \in Place
  /\ stage \in [T!Requester -> Stage] /\ copy \in [T!Requester -> Nat]
  /\ shared \in Nat /\ used \subseteq Nat
  /\ outcome \in [Refers -> {"none", "accepted", "failed"}]

\* Whose turn it is: the controller waits for its re-INVITE, the clean-up for its BYE.
Turns ==
  /\ stage["reinvite"] \in {"idle", "read", "out"}
  /\ stage["reinvite"] # "idle" => at = "reinvite"
  /\ stage["bye"] \in {"idle", "read", "done"}
  /\ at = "byeing" => stage["bye"] = "read"
  /\ at \notin {"byeing", "over"} => stage["bye"] = "idle"
  /\ stage["bye"] = "read" => at = "byeing"

LEMMA Requesters ==
  /\ "reinvite" \in T!Requester /\ "refresh" \in T!Requester /\ "bye" \in T!Requester
  /\ Refers \subseteq T!Requester
  /\ \A r \in T!Requester : r \in Refers \/ r \in {"reinvite", "refresh", "bye"}
BY DEF T!Requester

\* What a step can do to the numbers, whoever takes it.
LEMMA SendType ==
  ASSUME DialogType, NEW r \in T!Requester, T!Send(r)
  PROVE  shared' \in Nat /\ used' \subseteq Nat /\ copy[r] \in Nat
         /\ T!Number(r) \in Nat
<1>1. copy[r] \in Nat /\ T!Number(r) \in Nat
  BY DEF DialogType, T!Number
<1>2. shared \in Nat /\ used \subseteq Nat /\ used' = used \cup {T!Number(r)}
  BY DEF DialogType, T!Send, T!OnTheWire
<1>3. shared' = shared \/ shared' = T!Number(r)
  BY DEF T!Send
<1> QED BY <1>1, <1>2, <1>3

LEMMA DialogTypeInit == ASSUME T!Init PROVE DialogType /\ Turns
<1>1. leg \in {"managed", "direct"} /\ at = "loop" /\ shared \in Nat /\ used \subseteq Nat
  BY DEF T!Init
<1>2. /\ stage = [r \in T!Requester |-> "idle"] /\ copy = [r \in T!Requester |-> 0]
      /\ outcome = [t \in Refers |-> "none"]
  BY DEF T!Init
<1>3. stage["reinvite"] = "idle" /\ stage["bye"] = "idle"
  BY <1>2, Requesters
<1> QED BY <1>1, <1>2, <1>3 DEF DialogType, Turns, Stage, Place

\* Every step is one of these.
LEMMA DialogSteps ==
  ASSUME [T!Next]_(T!vars)
  PROVE  \/ T!SendReinvite \/ T!ReinviteAnswered \/ T!GlareOver \/ T!TakeResult \/ T!LeaveLoop
         \/ T!AskReinvite \/ T!AskShutdown \/ \E t \in Refers : T!AskTransfer(t)
         \/ \E t \in Refers : \/ T!PlanRefer(t) \/ T!SendRefer(t) \/ T!ReferAnswered(t)
                              \/ T!ByeAfterRefer(t) \/ T!ReportRefer(t)
         \/ T!RefreshTick \/ T!SendRefresh \/ T!RefreshAnswered
         \/ T!Cleanup \/ T!NoByeOwed \/ T!ResolveBye \/ T!SendBye
         \/ UNCHANGED T!vars
BY DEF T!Next, T!Controller, T!Refer, T!Refresh, T!CleanupTask, T!Server

\* What a step does to a requester's stage, to its copy, to the numbers.
StageMoves == stage' = stage
              \/ \E r \in T!Requester, s \in Stage : stage' = [stage EXCEPT ![r] = s]
CopyMoves == copy' = copy
             \/ \E r \in T!Requester, n \in Nat : copy' = [copy EXCEPT ![r] = n]

LEMMA ControllerMoves ==
  ASSUME DialogType,
         \/ T!SendReinvite \/ T!ReinviteAnswered \/ T!GlareOver \/ T!TakeResult \/ T!LeaveLoop
         \/ T!AskReinvite \/ T!AskShutdown \/ \E t \in Refers : T!AskTransfer(t)
  PROVE  leg' = leg /\ at' \in Place /\ StageMoves /\ CopyMoves
         /\ shared' \in Nat /\ used' \subseteq Nat
         /\ outcome' \in [Refers -> {"none", "accepted", "failed"}]
<1> USE Requesters DEF T!ctlVars, T!seqVars, T!referVars, DialogType, StageMoves, CopyMoves
<1>1. CASE T!SendReinvite
  <2>1. /\ T!Send("reinvite") /\ T!Advance("reinvite") /\ T!At("reinvite", "out")
        /\ UNCHANGED <<leg, at, outcome>>
    BY <1>1 DEF T!SendReinvite
  <2>2. shared' \in Nat /\ used' \subseteq Nat /\ T!Number("reinvite") \in Nat
    BY <2>1, SendType
  <2> QED BY <2>1, <2>2 DEF T!Advance, T!At, Stage
<1>2. CASE T!ReinviteAnswered
  <2>1. /\ UNCHANGED <<leg, outcome, used>> /\ at' \in {"loop", "glare"}
        /\ T!At("reinvite", "idle") /\ T!Commit("reinvite")
        /\ T!Forget("reinvite") \/ copy' = copy
    BY <1>2 DEF T!ReinviteAnswered
  <2> QED BY <2>1 DEF T!Commit, T!Forget, T!At, Stage, Place
<1>3. CASE T!GlareOver
  BY <1>3 DEF T!GlareOver, T!At, Stage, Place
<1>4. CASE T!TakeResult
  <2>1. /\ UNCHANGED <<leg, stage, copy, shared, used>> /\ at' \in {at, "left"}
        /\ outcome' = [outcome EXCEPT ![Head(results)] = "none"]
    BY <1>4 DEF T!TakeResult
  <2> QED BY <2>1 DEF Place
<1>5. CASE T!LeaveLoop \/ T!AskShutdown
  BY <1>5 DEF T!LeaveLoop, T!AskShutdown, Place
<1>6. CASE T!AskReinvite
  BY <1>6 DEF T!AskReinvite, T!Resolve, Stage, Place
<1>7. CASE \E t \in Refers : T!AskTransfer(t)
  BY <1>7 DEF T!AskTransfer, T!At, Stage
<1> QED BY <1>1, <1>2, <1>3, <1>4, <1>5, <1>6, <1>7

LEMMA ReferMoves ==
  ASSUME DialogType, NEW t \in Refers,
         \/ T!PlanRefer(t) \/ T!SendRefer(t) \/ T!ReferAnswered(t)
         \/ T!ByeAfterRefer(t) \/ T!ReportRefer(t)
  PROVE  UNCHANGED <<leg, at>> /\ StageMoves /\ CopyMoves
         /\ shared' \in Nat /\ used' \subseteq Nat
         /\ outcome' \in [Refers -> {"none", "accepted", "failed"}]
<1> USE Requesters DEF T!ctlVars, T!referVars, DialogType, StageMoves, CopyMoves
<1>1. CASE T!PlanRefer(t)
  BY <1>1 DEF T!PlanRefer, T!Resolve, T!Fail, T!At, Stage
<1>2. CASE T!SendRefer(t)
  <2>1. T!Send(t) /\ T!Advance(t) /\ T!At(t, "out") /\ UNCHANGED <<leg, at, outcome>>
    BY <1>2 DEF T!SendRefer
  <2>2. shared' \in Nat /\ used' \subseteq Nat /\ T!Number(t) \in Nat
    BY <2>1, SendType
  <2> QED BY <2>1, <2>2 DEF T!Advance, T!At, Stage
<1>3. CASE T!ReferAnswered(t)
  <2>1. /\ UNCHANGED <<leg, at, used>> /\ T!Commit(t)
        /\ T!Forget(t) \/ copy' = copy
        /\ \E s \in {"bye_due", "report"} : T!At(t, s)
        /\ \E o \in {"accepted", "failed"} : outcome' = [outcome EXCEPT ![t] = o]
    BY <1>3 DEF T!ReferAnswered, T!Fail
  <2>2. \E r \in T!Requester, s \in Stage : stage' = [stage EXCEPT ![r] = s]
    BY <2>1 DEF T!At, Stage
  <2>3. CopyMoves
    BY <2>1 DEF T!Forget
  <2>4. shared' \in Nat
    BY <2>1 DEF T!Commit
  <2>5. outcome' \in [Refers -> {"none", "accepted", "failed"}]
    BY <2>1
  <2> QED BY <2>1, <2>2, <2>3, <2>4, <2>5
<1>4. CASE T!ByeAfterRefer(t)
  <2>1. /\ UNCHANGED <<leg, at, outcome>> /\ T!At(t, "report") /\ T!Forget(t)
        /\ T!Send(t) \/ UNCHANGED <<shared, used>>
    BY <1>4 DEF T!ByeAfterRefer
  <2>2. shared' \in Nat /\ used' \subseteq Nat
    BY <2>1, SendType
  <2> QED BY <2>1, <2>2 DEF T!Forget, T!At, Stage
<1>5. CASE T!ReportRefer(t)
  BY <1>5 DEF T!ReportRefer, T!At, Stage
<1> QED BY <1>1, <1>2, <1>3, <1>4, <1>5

LEMMA OtherMoves ==
  ASSUME DialogType,
         \/ T!RefreshTick \/ T!SendRefresh \/ T!RefreshAnswered
         \/ T!Cleanup \/ T!NoByeOwed \/ T!ResolveBye \/ T!SendBye
  PROVE  leg' = leg /\ at' \in Place /\ StageMoves /\ CopyMoves
         /\ shared' \in Nat /\ used' \subseteq Nat /\ outcome' = outcome
<1> USE Requesters DEF T!ctlVars, T!seqVars, T!referVars, DialogType, StageMoves, CopyMoves
<1>1. CASE T!RefreshTick
  BY <1>1 DEF T!RefreshTick, T!Resolve, Stage
<1>2. CASE T!SendRefresh
  <2>1. /\ T!Send("refresh") /\ UNCHANGED <<leg, at, outcome>>
        /\ \/ T!At("refresh", "done") /\ T!Forget("refresh")
           \/ T!At("refresh", "out") /\ T!Advance("refresh")
    BY <1>2 DEF T!SendRefresh
  <2>2. shared' \in Nat /\ used' \subseteq Nat /\ T!Number("refresh") \in Nat
    BY <2>1, SendType
  <2> QED BY <2>1, <2>2 DEF T!Advance, T!Forget, T!At, Stage
<1>3. CASE T!RefreshAnswered
  <2>1. /\ UNCHANGED <<leg, at, outcome, used>> /\ T!Forget("refresh")
        /\ T!Commit("refresh") \/ shared' = shared
        /\ \E s \in {"idle", "done"} : T!At("refresh", s)
    BY <1>3 DEF T!RefreshAnswered
  <2>2. \E r \in T!Requester, s \in Stage : stage' = [stage EXCEPT ![r] = s]
    BY <2>1 DEF T!At, Stage
  <2>3. CopyMoves
    BY <2>1 DEF T!Forget
  <2>4. shared' \in Nat
    BY <2>1 DEF T!Commit
  <2> QED BY <2>1, <2>2, <2>3, <2>4
<1>4. CASE T!Cleanup \/ T!NoByeOwed
  BY <1>4 DEF T!Cleanup, T!NoByeOwed, T!At, T!Forget, Stage, Place
<1>5. CASE T!ResolveBye
  BY <1>5 DEF T!ResolveBye, T!Resolve, Stage, Place
<1>6. CASE T!SendBye
  <2>1. /\ UNCHANGED <<leg, outcome>> /\ at' = "over" /\ T!At("bye", "done") /\ T!Forget("bye")
        /\ used' = used \cup {T!Number("bye")} /\ shared' \in {shared, T!Number("bye")}
    BY <1>6 DEF T!SendBye, T!OnTheWire
  <2>2. T!Number("bye") \in Nat
    BY DEF T!Number
  <2> QED BY <2>1, <2>2 DEF T!Forget, T!At, Stage, Place
<1> QED BY <1>1, <1>2, <1>3, <1>4, <1>5, <1>6

LEMMA DialogTypeStep ==
  ASSUME DialogType, [T!Next]_(T!vars) PROVE DialogType'
<1>1. CASE UNCHANGED T!vars
  BY <1>1 DEF DialogType, T!vars, T!ctlVars, T!seqVars, T!referVars
<1>2. CASE ~UNCHANGED T!vars
  <2>1. /\ leg' = leg /\ at' \in Place /\ StageMoves /\ CopyMoves
        /\ shared' \in Nat /\ used' \subseteq Nat
        /\ outcome' \in [Refers -> {"none", "accepted", "failed"}]
    BY <1>2, DialogSteps, ControllerMoves, ReferMoves, OtherMoves DEF DialogType
  <2>2. stage' \in [T!Requester -> Stage] /\ copy' \in [T!Requester -> Nat]
    BY <2>1 DEF DialogType, StageMoves, CopyMoves
  <2> QED BY <2>1, <2>2 DEF DialogType
<1> QED BY <1>1, <1>2

\* A stage or a copy that is set is that requester's alone.
LEMMA AtMoves ==
  ASSUME DialogType, NEW r \in T!Requester, NEW s, T!At(r, s)
  PROVE  stage'[r] = s /\ \A q \in T!Requester : q # r => stage'[q] = stage[q]
BY DEF DialogType, T!At

LEMMA AdvanceMoves ==
  ASSUME DialogType, NEW r \in T!Requester, T!Advance(r)
  PROVE  copy'[r] = T!Number(r) /\ \A q \in T!Requester : q # r => copy'[q] = copy[q]
BY DEF DialogType, T!Advance

LEMMA ForgetMoves ==
  ASSUME DialogType, NEW r \in T!Requester, T!Forget(r)
  PROVE  \A q \in T!Requester : q # r => copy'[q] = copy[q]
BY DEF DialogType, T!Forget

LEMMA ResolveMoves ==
  ASSUME DialogType, NEW r \in T!Requester, T!Resolve(r)
  PROVE  /\ stage'[r] = "read" /\ copy'[r] = shared
         /\ \A q \in T!Requester : q # r => stage'[q] = stage[q] /\ copy'[q] = copy[q]
BY DEF DialogType, T!Resolve

LEMMA TurnsStep ==
  ASSUME T!RefersAssumption, DialogType, Turns, [T!Next]_(T!vars)
  PROVE  Turns'
<1>0. /\ "reinvite" \in T!Requester /\ "bye" \in T!Requester /\ "refresh" \in T!Requester
      /\ \A t \in Refers : t \in T!Requester /\ t \notin {"reinvite", "refresh", "bye"}
  BY Requesters DEF T!RefersAssumption
<1>1. CASE T!SendReinvite
  <2>1. at = "reinvite" /\ at' = at /\ T!At("reinvite", "out")
    BY <1>1 DEF T!SendReinvite, T!ctlVars
  <2> QED BY <1>0, <2>1, AtMoves DEF Turns
<1>2. CASE T!ReinviteAnswered
  <2>1. stage["reinvite"] = "out" /\ at' \in {"loop", "glare"} /\ T!At("reinvite", "idle")
    BY <1>2 DEF T!ReinviteAnswered
  <2> QED BY <1>0, <2>1, AtMoves DEF Turns
<1>3. CASE T!GlareOver
  <2>1. at = "glare" /\ at' = "reinvite" /\ T!At("reinvite", "read")
    BY <1>3 DEF T!GlareOver
  <2> QED BY <1>0, <2>1, AtMoves DEF Turns
<1>4. CASE T!TakeResult \/ T!LeaveLoop \/ T!AskShutdown
  <2>1. stage' = stage /\ at' \in {at, "left"} /\ (at' # at => at = "loop")
    BY <1>4 DEF T!TakeResult, T!LeaveLoop, T!AskShutdown, T!seqVars
  <2> QED BY <2>1 DEF Turns
<1>5. CASE T!AskReinvite
  <2>1. at = "loop" /\ at' = "reinvite" /\ T!Resolve("reinvite")
    BY <1>5 DEF T!AskReinvite
  <2> QED BY <1>0, <2>1, ResolveMoves DEF Turns
<1>6. ASSUME NEW r \in T!Requester, r \notin {"reinvite", "bye"}, at' = at,
             T!Resolve(r) \/ (\E s : T!At(r, s)) \/ stage' = stage
      PROVE  Turns'
  <2>1. stage'["reinvite"] = stage["reinvite"] /\ stage'["bye"] = stage["bye"]
    BY <1>0, <1>6, AtMoves, ResolveMoves
  <2> QED BY <1>6, <2>1 DEF Turns
<1>7. CASE \E t \in Refers : \/ T!AskTransfer(t) \/ T!PlanRefer(t) \/ T!SendRefer(t)
                             \/ T!ReferAnswered(t) \/ T!ByeAfterRefer(t) \/ T!ReportRefer(t)
  <2>1. PICK t \in Refers : \/ T!AskTransfer(t) \/ T!PlanRefer(t) \/ T!SendRefer(t)
                            \/ T!ReferAnswered(t) \/ T!ByeAfterRefer(t) \/ T!ReportRefer(t)
    BY <1>7
  <2>2. at' = at /\ (T!Resolve(t) \/ \E s : T!At(t, s))
    BY <2>1 DEF T!AskTransfer, T!PlanRefer, T!SendRefer, T!ReferAnswered, T!ByeAfterRefer,
                T!ReportRefer, T!Fail, T!ctlVars
  <2> QED BY <1>0, <1>6, <2>2
<1>8. CASE T!RefreshTick \/ T!SendRefresh \/ T!RefreshAnswered
  <2>1. at' = at /\ (T!Resolve("refresh") \/ \E s : T!At("refresh", s))
    BY <1>8 DEF T!RefreshTick, T!SendRefresh, T!RefreshAnswered, T!ctlVars
  <2> QED BY <1>0, <1>6, <2>1
<1>9. CASE T!Cleanup
  <2>1. at = "left" /\ at' = "bye" /\ ((\E s : T!At("refresh", s)) \/ stage' = stage)
    BY <1>9 DEF T!Cleanup
  <2>2. stage'["reinvite"] = stage["reinvite"] /\ stage'["bye"] = stage["bye"]
    BY <1>0, <2>1, AtMoves
  <2> QED BY <2>1, <2>2 DEF Turns
<1>10. CASE T!NoByeOwed
  <2>1. at = "bye" /\ at' = "over" /\ stage' = stage
    BY <1>10 DEF T!NoByeOwed, T!seqVars
  <2> QED BY <2>1 DEF Turns
<1>11. CASE T!ResolveBye
  <2>1. at = "bye" /\ at' = "byeing" /\ T!Resolve("bye")
    BY <1>11 DEF T!ResolveBye
  <2> QED BY <1>0, <2>1, ResolveMoves DEF Turns
<1>12. CASE T!SendBye
  <2>1. at = "byeing" /\ at' = "over" /\ T!At("bye", "done")
    BY <1>12 DEF T!SendBye
  <2> QED BY <1>0, <2>1, AtMoves DEF Turns
<1>13. CASE UNCHANGED T!vars
  BY <1>13 DEF Turns, T!vars, T!ctlVars, T!seqVars
<1> QED BY <1>1, <1>2, <1>3, <1>4, <1>5, <1>7, <1>8, <1>9, <1>10, <1>11, <1>12, <1>13,
           DialogSteps

-----------------------------------------------------------------------------
(* The numbers continue *)

UpTo(n) == \A u \in used : u <= n

\* Two requests are under way at once only when the BYE meets one whose number it has read.
Alone ==
  \A r, q \in T!Requester : r # q /\ T!Busy(r) /\ T!Busy(q) =>
    (r = "bye" /\ T!Published(q)) \/ (q = "bye" /\ T!Published(r))

\* What NumbersContinue rests on: whoever may still send has a copy that is up to date.
Numbers ==
  ~crowded =>
    /\ ~reused
    /\ Alone
    /\ stage["bye"] = "idle" => UpTo(shared) /\ \A r \in T!Requester : T!Busy(r) => UpTo(copy[r])
    /\ stage["bye"] = "read" => UpTo(copy["bye"])

LEMMA NumbersInit == ASSUME T!RefersAssumption, T!Init PROVE Numbers
<1>1. \A r \in T!Requester : stage[r] = "idle"
  BY DEF T!Init
<1>2. \A r \in T!Requester : ~T!Busy(r)
  BY <1>1, Requesters DEF T!Busy, T!Init
<1>3. UpTo(shared) /\ ~reused
  BY DEF T!Init, UpTo
<1> QED BY <1>1, <1>2, <1>3, Requesters DEF Numbers, Alone

\* Nobody begins, nothing is sent; the dialog may be put back to a copy that is up to date.
LEMMA NumbersKept ==
  ASSUME Numbers, UNCHANGED <<used, reused, crowded>>,
         shared' = shared
           \/ \E r \in T!Requester : r # "bye" /\ T!Busy(r) /\ shared' = copy[r],
         \A r \in T!Requester :
           /\ T!Busy(r)' => T!Busy(r) /\ copy'[r] = copy[r]
           /\ T!Busy(r)' /\ T!Published(r) => T!Published(r)' \/ stage["bye"] = "idle",
         stage'["bye"] = stage["bye"], copy'["bye"] = copy["bye"]
  PROVE  Numbers'
<1> SUFFICES ASSUME ~crowded PROVE Numbers'
  BY DEF Numbers
<1>1. ~reused /\ ~reused' /\ Alone
  BY DEF Numbers
<1>2. Alone'
  <2>1. "bye" \in T!Requester /\ (T!Busy("bye") => stage["bye"] # "idle")
    BY Requesters DEF T!Busy
  <2> QED BY <1>1, <2>1 DEF Alone
<1>3. ASSUME stage["bye"] = "idle"
      PROVE  UpTo(shared)' /\ \A r \in T!Requester : T!Busy(r)' => UpTo(copy[r])'
  BY <1>3 DEF Numbers, UpTo
<1>4. ASSUME stage["bye"] = "read" PROVE UpTo(copy["bye"])'
  BY <1>4 DEF Numbers, UpTo
<1> QED BY <1>1, <1>2, <1>3, <1>4 DEF Numbers

\* A request begins from the dialog as it is.
LEMMA NumbersResolve ==
  ASSUME DialogType, Numbers, NEW r \in T!Requester, T!Resolve(r), leg' = leg,
         r = "bye" => stage["bye"] = "idle",
         stage["bye"] \in {"idle", "read", "done"},
         \A q \in T!Requester : q # r => (T!Busy(q)' <=> T!Busy(q))
  PROVE  Numbers'
<1> SUFFICES ASSUME ~crowded' PROVE Numbers'
  BY DEF Numbers
<1>0. "bye" \in T!Requester /\ (T!Busy("bye") <=> stage["bye"] # "idle")
  BY Requesters DEF T!Busy
<1>1. /\ ~crowded /\ UNCHANGED <<shared, used, reused>>
      /\ \A q \in T!Requester : q # r /\ T!Busy(q) => r = "bye" /\ T!Published(q)
  BY DEF T!Resolve
<1>2. /\ stage'[r] = "read" /\ copy'[r] = shared
      /\ \A q \in T!Requester : q # r => stage'[q] = stage[q] /\ copy'[q] = copy[q]
  BY ResolveMoves
<1>3. stage["bye"] = "idle"
  BY <1>0, <1>1
<1>4. ~reused' /\ UpTo(shared)'
  BY <1>1, <1>3 DEF Numbers, UpTo
<1>5. \A q \in T!Requester : q # r /\ T!Busy(q)' => r = "bye" /\ T!Published(q)'
  BY <1>1, <1>2 DEF T!Published
<1>6. Alone'
  <2>1. Alone
    BY <1>1 DEF Numbers
  <2>2. \A a, b \in T!Requester : a # b /\ T!Busy(a)' /\ T!Busy(b)' => a = r \/ b = r
    BY <1>5, <2>1 DEF Alone
  <2> QED BY <1>5, <2>2 DEF Alone
<1>7. CASE r = "bye"
  BY <1>1, <1>2, <1>4, <1>6, <1>7 DEF Numbers, UpTo
<1>8. CASE r # "bye"
  <2>1. \A q \in T!Requester : T!Busy(q)' => copy'[q] = shared'
    BY <1>1, <1>2, <1>5, <1>8
  <2>2. \A q \in T!Requester : T!Busy(q)' => UpTo(copy[q])'
    BY <1>4, <2>1 DEF UpTo
  <2>3. stage'["bye"] = "idle"
    BY <1>0, <1>2, <1>3, <1>8
  <2> QED BY <1>4, <1>6, <2>2, <2>3 DEF Numbers
<1> QED BY <1>7, <1>8

\* A request takes the next number, and its sender has that number or sends no more.
LEMMA NumbersSend ==
  ASSUME DialogType, Turns, Numbers, NEW r \in T!Requester, r # "bye",
         stage[r] \in {"read", "bye_due"}, T!Send(r), leg' = leg,
         T!Busy(r)' => copy'[r] = T!Number(r),
         stage'["bye"] = stage["bye"],
         \A q \in T!Requester : q # r => (T!Busy(q)' <=> T!Busy(q))
  PROVE  Numbers'
<1> SUFFICES ASSUME ~crowded' PROVE Numbers'
  BY DEF Numbers
<1>1. ~crowded /\ used' = used \cup {T!Number(r)} /\ reused' = (reused \/ T!Number(r) \in used)
  BY DEF T!Send, T!OnTheWire
<1>2. T!Busy(r) /\ ~T!Published(r)
  BY DEF T!Busy, T!Published
<1>3. "bye" \in T!Requester /\ (T!Busy("bye") <=> stage["bye"] # "idle")
  BY Requesters DEF T!Busy
<1>4. Alone /\ ~reused
  BY <1>1 DEF Numbers
<1>5. stage["bye"] = "idle"
  BY <1>2, <1>3, <1>4 DEF Alone
<1>6. \A q \in T!Requester : q # r => ~T!Busy(q)
  <2>1. ASSUME NEW q \in T!Requester, q # r, T!Busy(q) PROVE FALSE
    <3>1. q = "bye"
      BY <1>2, <1>4, <2>1 DEF Alone
    <3> QED BY <1>3, <1>5, <2>1, <3>1
  <2> QED BY <2>1
<1>7. UpTo(copy[r]) /\ UpTo(shared)
  BY <1>1, <1>2, <1>5 DEF Numbers
<1>8. /\ copy[r] \in Nat /\ shared \in Nat /\ used \subseteq Nat /\ T!Number(r) = copy[r] + 1
  BY DEF DialogType, T!Number
<1>9. ~reused'
  <2>1. T!Number(r) \notin used
    BY <1>7, <1>8 DEF UpTo
  <2> QED BY <1>1, <1>4, <2>1
<1>10. \A u \in used' : u <= T!Number(r)
  BY <1>1, <1>7, <1>8 DEF UpTo
<1>11. UpTo(shared)'
  <2>1. shared' = T!Number(r) \/ (shared' = shared /\ shared > T!Number(r))
    BY DEF T!Send
  <2>2. \A u \in used' : u \in Nat
    BY <1>1, <1>8
  <2>3. \A u \in used' : u <= shared'
    BY <1>8, <1>10, <2>1, <2>2
  <2> QED BY <2>3 DEF UpTo
<1>12. Alone'
  BY <1>6 DEF Alone
<1>13. \A q \in T!Requester : T!Busy(q)' => UpTo(copy[q])'
  BY <1>6, <1>10 DEF UpTo
<1> QED BY <1>5, <1>9, <1>11, <1>12, <1>13 DEF Numbers

\* The BYE has read a dialog that was up to date.
LEMMA NumbersBye ==
  ASSUME DialogType, Numbers, stage["bye"] = "read", T!OnTheWire("bye"),
         stage'["bye"] = "done",
         \A q \in T!Requester :
           /\ T!Busy(q)' <=> T!Busy(q)
           /\ q # "bye" => (T!Published(q)' <=> T!Published(q))
  PROVE  Numbers'
<1> SUFFICES ASSUME ~crowded' PROVE Numbers'
  BY DEF Numbers
<1>1. ~crowded /\ reused' = (reused \/ T!Number("bye") \in used)
  BY DEF T!OnTheWire
<1>2. UpTo(copy["bye"]) /\ ~reused /\ Alone
  BY <1>1 DEF Numbers
<1>3. copy["bye"] \in Nat /\ used \subseteq Nat /\ T!Number("bye") = copy["bye"] + 1
  BY Requesters DEF DialogType, T!Number
<1>4. ~reused'
  <2>1. T!Number("bye") \notin used
    BY <1>2, <1>3 DEF UpTo
  <2> QED BY <1>1, <1>2, <2>1
<1>5. Alone'
  BY <1>2 DEF Alone
<1> QED BY <1>4, <1>5 DEF Numbers

\* Only its own stage, and the glare of a re-INVITE, make a requester busy.
LEMMA BusyElse ==
  ASSUME NEW q, stage'[q] = stage[q], q = "reinvite" => (at' = "glare" <=> at = "glare")
  PROVE  T!Busy(q)' <=> T!Busy(q)
BY DEF T!Busy

LEMMA PublishedElse ==
  ASSUME NEW q, stage'[q] = stage[q], leg' = leg
  PROVE  T!Published(q)' <=> T!Published(q)
BY DEF T!Published

\* A requester that is not the BYE is set to a stage in which it is done with its copy.
LEMMA NumbersDone ==
  ASSUME DialogType, Numbers, NEW r \in T!Requester, r # "bye",
         NEW s \in {"idle", "spawned", "report", "done"}, T!At(r, s),
         \A q \in T!Requester : q # r => copy'[q] = copy[q],
         at' = "glare" => r # "reinvite" /\ at = "glare",
         at = "glare" => r = "reinvite" \/ at' = "glare",
         UNCHANGED <<leg, used, reused, crowded>>,
         shared' = shared \/ (T!Busy(r) /\ shared' = copy[r])
  PROVE  Numbers'
<1>1. stage'[r] = s /\ \A q \in T!Requester : q # r => stage'[q] = stage[q]
  BY AtMoves
<1>2. ~T!Busy(r)'
  BY <1>1 DEF T!Busy
<1>3. \A q \in T!Requester :
        q # r => (T!Busy(q)' <=> T!Busy(q)) /\ (T!Published(q)' <=> T!Published(q))
  BY <1>1, BusyElse, PublishedElse
<1>4. "bye" \in T!Requester
  BY Requesters
<1>5. stage'["bye"] = stage["bye"] /\ copy'["bye"] = copy["bye"]
  BY <1>1, <1>4
<1> QED BY <1>2, <1>3, <1>5, NumbersKept

LEMMA NumbersStep ==
  ASSUME T!RefersAssumption, DialogType, Turns, Numbers, [T!Next]_(T!vars)
  PROVE  Numbers'
<1> USE DEF T!ctlVars
<1>0. /\ "reinvite" \in T!Requester /\ "bye" \in T!Requester /\ "refresh" \in T!Requester
      /\ \A t \in Refers : t \in T!Requester /\ t \notin {"reinvite", "refresh", "bye"}
  BY Requesters DEF T!RefersAssumption
<1>1. stage["bye"] \in {"idle", "read", "done"} /\ (at = "glare" => stage["reinvite"] = "idle")
  BY DEF Turns
\* Nothing happened to any requester.
<1>2. ASSUME UNCHANGED <<leg, stage, copy, shared, used, reused, crowded>>,
             at' = "glare" <=> at = "glare"
      PROVE  Numbers'
  <2>1. \A q \in T!Requester : (T!Busy(q)' <=> T!Busy(q)) /\ (T!Published(q)' <=> T!Published(q))
    BY <1>2, BusyElse, PublishedElse
  <2> QED BY <1>2, <2>1, NumbersKept
\* A request other than the BYE goes out, and its copy moves on with it.
<1>3. ASSUME NEW r \in T!Requester, r # "bye", stage[r] = "read", at' = at,
             T!Send(r), T!Advance(r), T!At(r, "out"), leg' = leg
      PROVE  Numbers'
  <2>1. /\ stage'[r] = "out" /\ copy'[r] = T!Number(r)
        /\ \A q \in T!Requester : q # r => stage'[q] = stage[q]
    BY <1>3, AtMoves, AdvanceMoves
  <2>2. \A q \in T!Requester : q # r => (T!Busy(q)' <=> T!Busy(q))
    BY <1>3, <2>1, BusyElse
  <2> QED BY <1>0, <1>3, <2>1, <2>2, NumbersSend
\* A request other than the BYE begins.
<1>4. ASSUME NEW r \in T!Requester, r # "bye", T!Resolve(r), leg' = leg, at' = at \/ r = "reinvite"
      PROVE  Numbers'
  <2>1. \A q \in T!Requester : q # r => (T!Busy(q)' <=> T!Busy(q))
    BY <1>4, ResolveMoves, BusyElse
  <2> QED BY <1>1, <1>4, <2>1, NumbersResolve
\* A request other than the BYE is over, and the dialog put back to its copy or not.
<1>5. ASSUME NEW r \in T!Requester, r # "bye", r # "reinvite",
             \E s \in {"idle", "spawned", "report", "done"} : T!At(r, s),
             T!Forget(r) \/ copy' = copy,
             at' = "glare" <=> at = "glare",
             UNCHANGED <<leg, used, reused, crowded>>,
             shared' = shared \/ (T!Busy(r) /\ T!Commit(r))
      PROVE  Numbers'
  <2>1. \A q \in T!Requester : q # r => copy'[q] = copy[q]
    BY <1>5, ForgetMoves
  <2>2. shared' = shared \/ (T!Busy(r) /\ shared' = copy[r])
    BY <1>5 DEF T!Commit
  <2> QED BY <1>5, <2>1, <2>2, NumbersDone
<1>6. CASE T!SendReinvite
  <2>1. /\ stage["reinvite"] = "read" /\ UNCHANGED <<leg, at>>
        /\ T!Send("reinvite") /\ T!Advance("reinvite") /\ T!At("reinvite", "out")
    BY <1>6 DEF T!SendReinvite
  <2> QED BY <1>0, <1>3, <2>1
<1>7. CASE T!ReinviteAnswered
  <2>1. /\ stage["reinvite"] = "out" /\ UNCHANGED <<leg, used, reused, crowded>>
        /\ T!At("reinvite", "idle") /\ T!Commit("reinvite")
        /\ \/ at' = "loop" /\ T!Forget("reinvite")
           \/ at' = "glare" /\ copy' = copy
    BY <1>7 DEF T!ReinviteAnswered
  <2>2. /\ T!Busy("reinvite") /\ at = "reinvite" /\ stage["bye"] = "idle"
        /\ shared' = shared \/ shared' = copy["reinvite"]
    BY <2>1 DEF T!Busy, T!Commit, Turns
  <2>3. CASE at' = "loop"
    <3>1. \A q \in T!Requester : q # "reinvite" => copy'[q] = copy[q]
      BY <1>0, <2>1, <2>3, ForgetMoves
    <3> QED BY <1>0, <2>1, <2>2, <2>3, <3>1, NumbersDone
  <2>4. CASE at' = "glare"
    <3>1. \A q \in T!Requester : q # "reinvite" => stage'[q] = stage[q]
      BY <1>0, <2>1, AtMoves
    <3>2. \A q \in T!Requester : T!Busy(q)' => T!Busy(q)
      BY <2>2, <3>1, BusyElse
    <3> QED BY <1>0, <2>1, <2>2, <2>4, <3>1, <3>2, NumbersKept
  <2> QED BY <2>1, <2>3, <2>4
<1>8. CASE T!GlareOver
  <2>1. /\ at = "glare" /\ at' = "reinvite" /\ T!At("reinvite", "read")
        /\ UNCHANGED <<leg, copy, shared, used, reused, crowded>>
    BY <1>8 DEF T!GlareOver
  <2>2. \A q \in T!Requester : q # "reinvite" => stage'[q] = stage[q]
    BY <1>0, <2>1, AtMoves
  <2>3. T!Busy("reinvite") /\ ~T!Published("reinvite")
    BY <1>1, <2>1 DEF T!Busy, T!Published
  <2>4. \A q \in T!Requester : (T!Busy(q)' => T!Busy(q)) /\ (T!Published(q) => T!Published(q)')
    BY <2>1, <2>2, <2>3, BusyElse, PublishedElse
  <2> QED BY <1>0, <2>1, <2>2, <2>4, NumbersKept
<1>9. CASE T!TakeResult \/ T!LeaveLoop \/ T!AskShutdown \/ T!NoByeOwed
  <2>1. /\ UNCHANGED <<leg, stage, copy, shared, used, reused, crowded>>
        /\ at' = "glare" <=> at = "glare"
    BY <1>9 DEF T!TakeResult, T!LeaveLoop, T!AskShutdown, T!NoByeOwed, T!seqVars
  <2> QED BY <1>2, <2>1
<1>10. CASE T!AskReinvite
  <2>1. T!Resolve("reinvite") /\ leg' = leg
    BY <1>10 DEF T!AskReinvite
  <2> QED BY <1>0, <1>4, <2>1
<1>11. ASSUME NEW t \in Refers, T!AskTransfer(t) \/ T!ReportRefer(t) PROVE Numbers'
  <2>1. /\ \E s \in {"spawned", "done"} : T!At(t, s)
        /\ UNCHANGED <<leg, at, copy, shared, used, reused, crowded>>
    BY <1>11 DEF T!AskTransfer, T!ReportRefer
  <2> QED BY <1>0, <1>5, <2>1
<1>12. ASSUME NEW t \in Refers, T!PlanRefer(t) PROVE Numbers'
  <2>1. /\ UNCHANGED <<leg, at>>
        /\ \/ T!Resolve(t)
           \/ T!At(t, "report") /\ UNCHANGED <<copy, shared, used, reused, crowded>>
    BY <1>12 DEF T!PlanRefer, T!Fail
  <2> QED BY <1>0, <1>4, <1>5, <2>1
<1>13. ASSUME NEW t \in Refers, T!SendRefer(t) PROVE Numbers'
  <2>1. /\ stage[t] = "read" /\ UNCHANGED <<leg, at>>
        /\ T!Send(t) /\ T!Advance(t) /\ T!At(t, "out")
    BY <1>13 DEF T!SendRefer
  <2> QED BY <1>0, <1>3, <2>1
<1>14. ASSUME NEW t \in Refers, T!ReferAnswered(t) PROVE Numbers'
  <2>1. /\ stage[t] = "out" /\ UNCHANGED <<leg, at, used, reused, crowded>> /\ T!Commit(t)
        /\ \/ T!At(t, "report") /\ T!Forget(t)
           \/ leg = "managed" /\ T!At(t, "bye_due") /\ copy' = copy
    BY <1>14 DEF T!ReferAnswered, T!Fail
  <2>2. T!Busy(t)
    BY <2>1 DEF T!Busy
  <2>3. CASE T!At(t, "report") /\ T!Forget(t)
    BY <1>0, <1>5, <2>1, <2>2, <2>3
  <2>4. CASE leg = "managed" /\ T!At(t, "bye_due") /\ copy' = copy
    <3>1. shared' = shared /\ \A q \in T!Requester : q # t => stage'[q] = stage[q]
      BY <1>0, <2>1, <2>4, AtMoves DEF T!Commit
    <3>2. \A q \in T!Requester : (T!Busy(q)' => T!Busy(q)) /\ ~T!Published(q)
      BY <2>1, <2>2, <2>4, <3>1, BusyElse DEF T!Published
    <3> QED BY <1>0, <2>1, <2>4, <3>1, <3>2, NumbersKept
  <2> QED BY <2>1, <2>3, <2>4
<1>15. ASSUME NEW t \in Refers, T!ByeAfterRefer(t) PROVE Numbers'
  <2>1. /\ stage[t] = "bye_due" /\ UNCHANGED <<leg, at>> /\ T!At(t, "report") /\ T!Forget(t)
        /\ T!Send(t) \/ UNCHANGED <<shared, used, reused, crowded>>
    BY <1>15 DEF T!ByeAfterRefer
  <2>2. CASE T!Send(t)
    <3>1. /\ stage'[t] = "report"
          /\ \A q \in T!Requester : q # t => stage'[q] = stage[q]
      BY <1>0, <2>1, AtMoves
    <3>2. ~T!Busy(t)' /\ \A q \in T!Requester : q # t => (T!Busy(q)' <=> T!Busy(q))
      BY <1>0, <2>1, <3>1, BusyElse DEF T!Busy
    <3> QED BY <1>0, <2>1, <2>2, <3>1, <3>2, NumbersSend
  <2> QED BY <1>0, <1>5, <2>1, <2>2
<1>16. CASE T!RefreshTick
  <2>1. T!Resolve("refresh") /\ UNCHANGED <<leg, at>>
    BY <1>16 DEF T!RefreshTick
  <2> QED BY <1>0, <1>4, <2>1
<1>17. CASE T!SendRefresh
  <2>1. /\ stage["refresh"] = "read" /\ UNCHANGED <<leg, at>> /\ T!Send("refresh")
        /\ \/ T!At("refresh", "done")
           \/ T!At("refresh", "out") /\ T!Advance("refresh")
    BY <1>17 DEF T!SendRefresh
  <2>2. CASE T!At("refresh", "done")
    <3>1. /\ stage'["refresh"] = "done"
          /\ \A q \in T!Requester : q # "refresh" => stage'[q] = stage[q]
      BY <1>0, <2>2, AtMoves
    <3>2. /\ ~T!Busy("refresh")'
          /\ \A q \in T!Requester : q # "refresh" => (T!Busy(q)' <=> T!Busy(q))
      BY <1>0, <2>1, <3>1, BusyElse DEF T!Busy
    <3> QED BY <1>0, <2>1, <3>1, <3>2, NumbersSend
  <2> QED BY <1>0, <1>3, <2>1, <2>2
<1>18. CASE T!RefreshAnswered
  <2>1. /\ stage["refresh"] = "out" /\ UNCHANGED <<leg, at, used, reused, crowded>>
        /\ T!Forget("refresh") /\ (T!Commit("refresh") \/ shared' = shared)
        /\ \E s \in {"idle", "done"} : T!At("refresh", s)
    BY <1>18 DEF T!RefreshAnswered
  <2>2. T!Busy("refresh")
    BY <2>1 DEF T!Busy
  <2> QED BY <1>0, <1>5, <2>1, <2>2
<1>19. CASE T!Cleanup
  <2>1. /\ at = "left" /\ at' = "bye" /\ UNCHANGED <<leg, shared, used, reused, crowded>>
        /\ \/ T!At("refresh", "done") /\ T!Forget("refresh")
           \/ UNCHANGED <<stage, copy>>
    BY <1>19 DEF T!Cleanup
  <2> QED BY <1>0, <1>2, <1>5, <2>1
<1>20. CASE T!ResolveBye
  <2>1. at = "bye" /\ at' = "byeing" /\ T!Resolve("bye") /\ leg' = leg
    BY <1>20 DEF T!ResolveBye
  <2>2. stage["bye"] = "idle"
    BY <2>1 DEF Turns
  <2>3. \A q \in T!Requester : q # "bye" => (T!Busy(q)' <=> T!Busy(q))
    BY <1>0, <2>1, ResolveMoves, BusyElse
  <2> QED BY <1>0, <1>1, <2>1, <2>2, <2>3, NumbersResolve
<1>21. CASE T!SendBye
  <2>1. at = "byeing" /\ at' = "over" /\ T!At("bye", "done") /\ T!OnTheWire("bye") /\ leg' = leg
    BY <1>21 DEF T!SendBye
  <2>2. /\ stage["bye"] = "read" /\ stage'["bye"] = "done"
        /\ \A q \in T!Requester : q # "bye" => stage'[q] = stage[q]
    BY <1>0, <2>1, AtMoves DEF Turns
  <2>3. /\ T!Busy("bye") /\ T!Busy("bye")'
        /\ \A q \in T!Requester : q # "bye" =>
             (T!Busy(q)' <=> T!Busy(q)) /\ (T!Published(q)' <=> T!Published(q))
    BY <2>1, <2>2, BusyElse, PublishedElse DEF T!Busy
  <2> QED BY <2>1, <2>2, <2>3, NumbersBye
<1>22. CASE UNCHANGED T!vars
  BY <1>22, <1>2 DEF T!vars, T!seqVars
<1> QED BY <1>6, <1>7, <1>8, <1>9, <1>10, <1>11, <1>12, <1>13, <1>14, <1>15, <1>16, <1>17,
           <1>18, <1>19, <1>20, <1>21, <1>22, DialogSteps

-----------------------------------------------------------------------------
(* Nobody is left in the call *)

Gone == peer = "out" \/ bye_lost

\* What PeerLetGo rests on: a mark stands for a peer that is gone, and an accepted transfer
\* of an inbound leg is reported after its BYE.
Farewell ==
  /\ remote_bye \/ at = "over" => Gone
  /\ \A t \in Refers : leg = "managed" /\ outcome[t] = "accepted" => stage[t] = "bye_due" \/ Gone
  /\ results = <<>> \/ \E t \in Refers : results = <<t>> /\ stage[t] = "done"

LEMMA FarewellInit == ASSUME T!Init PROVE Farewell
<1>1. \A t \in Refers : outcome[t] # "accepted"
  BY DEF T!Init
<1> QED BY <1>1 DEF T!Init, Farewell

\* A step that says no goodbye and accepts nothing.
LEMMA FarewellKept ==
  ASSUME Farewell, UNCHANGED <<leg, outcome, results, remote_bye>>,
         at' = "over" => Gone', Gone => Gone',
         \A t \in Refers : stage[t] \in {"bye_due", "done"} => stage'[t] = stage[t]
  PROVE  Farewell'
BY DEF Farewell

LEMMA FarewellStep ==
  ASSUME T!RefersAssumption, DialogType, Farewell, [T!Next]_(T!vars)
  PROVE  Farewell'
<1> USE DEF T!ctlVars, T!seqVars, T!referVars, T!peerVars
<1>0. /\ "reinvite" \in T!Requester /\ "bye" \in T!Requester /\ "refresh" \in T!Requester
      /\ \A t \in Refers : t \in T!Requester /\ t \notin {"reinvite", "refresh", "bye"}
  BY Requesters DEF T!RefersAssumption
\* A transfer moves on from a stage in which it owes nothing and has reported nothing.
<1>1. ASSUME NEW t \in Refers, stage[t] \notin {"bye_due", "done"},
             T!Resolve(t) \/ \E s : T!At(t, s),
             UNCHANGED <<leg, at, outcome, results, remote_bye, peer, bye_lost>>
      PROVE  Farewell'
  <2>1. \A q \in Refers : q # t => stage'[q] = stage[q]
    BY <1>0, <1>1, AtMoves, ResolveMoves
  <2> QED BY <1>1, <2>1, FarewellKept DEF Farewell, Gone
\* Another requester moves on.
<1>2. ASSUME NEW r \in {"reinvite", "refresh", "bye"},
             T!Resolve(r) \/ (\E s : T!At(r, s)) \/ stage' = stage,
             UNCHANGED <<leg, outcome, results, remote_bye>>,
             at' = "over" => Gone', Gone => Gone'
      PROVE  Farewell'
  <2>1. r \in T!Requester /\ \A t \in Refers : t \in T!Requester /\ t # r
    BY <1>0
  <2>2. \A t \in Refers : stage'[t] = stage[t]
    BY <1>2, <2>1, AtMoves, ResolveMoves
  <2> QED BY <1>2, <2>2, FarewellKept
<1>3. CASE T!SendReinvite \/ T!ReinviteAnswered \/ T!GlareOver \/ T!AskReinvite
  <2>1. /\ T!Resolve("reinvite") \/ \E s : T!At("reinvite", s)
        /\ UNCHANGED <<leg, outcome, results, remote_bye, peer, bye_lost>> /\ at' # "over"
    BY <1>3 DEF T!SendReinvite, T!ReinviteAnswered, T!GlareOver, T!AskReinvite
  <2> QED BY <1>2, <2>1 DEF Gone
<1>4. CASE T!RefreshTick \/ T!SendRefresh \/ T!RefreshAnswered
  <2>1. /\ T!Resolve("refresh") \/ \E s : T!At("refresh", s)
        /\ UNCHANGED <<leg, outcome, results, remote_bye, peer, bye_lost, at>>
    BY <1>4 DEF T!RefreshTick, T!SendRefresh, T!RefreshAnswered
  <2> QED BY <1>2, <2>1 DEF Farewell, Gone
<1>5. CASE T!Cleanup \/ T!LeaveLoop
  <2>1. /\ stage' = stage \/ \E s : T!At("refresh", s)
        /\ UNCHANGED <<leg, outcome, results, remote_bye, peer, bye_lost>> /\ at' # "over"
    BY <1>5 DEF T!Cleanup, T!LeaveLoop
  <2> QED BY <1>2, <2>1 DEF Gone
<1>6. CASE T!NoByeOwed
  <2>1. /\ stage' = stage /\ remote_bye
        /\ UNCHANGED <<leg, outcome, results, remote_bye, peer, bye_lost>>
    BY <1>6 DEF T!NoByeOwed
  <2> QED BY <1>2, <2>1 DEF Farewell, Gone
<1>7. CASE T!ResolveBye \/ T!SendBye
  <2>1. /\ T!Resolve("bye") \/ \E s : T!At("bye", s)
        /\ UNCHANGED <<leg, outcome, results, remote_bye, bye_lost>>
        /\ peer' = "out" \/ (peer' = peer /\ at' # "over")
    BY <1>7 DEF T!ResolveBye, T!SendBye
  <2> QED BY <1>2, <2>1 DEF Gone
<1>8. CASE T!AskShutdown
  <2>1. /\ UNCHANGED <<leg, at, stage, outcome, results, bye_lost>>
        /\ peer' = "out" \/ UNCHANGED <<peer, remote_bye>>
    BY <1>8 DEF T!AskShutdown
  <2> QED BY <2>1 DEF Farewell, Gone
<1>9. CASE T!TakeResult
  <2>1. PICK t \in Refers : results = <<t>> /\ stage[t] = "done"
    BY <1>9 DEF T!TakeResult, Farewell
  <2> DEFINE first == Head(results)
  <2>2. /\ results' = Tail(results) /\ outcome' = [outcome EXCEPT ![first] = "none"]
        /\ UNCHANGED <<leg, stage, peer, bye_lost>> /\ at' # "over"
        /\ remote_bye' => remote_bye \/ (leg = "managed" /\ outcome[first] = "accepted")
    <3>1. CASE outcome[first] = "accepted"
      BY <1>9, <3>1 DEF T!TakeResult
    <3>2. CASE outcome[first] # "accepted"
      BY <1>9, <3>2 DEF T!TakeResult
    <3> QED BY <3>1, <3>2
  <2>3. first = t /\ Tail(results) = <<>>
    BY <2>1
  <2> HIDE DEF first
  <2>4. remote_bye' => Gone'
    BY <2>1, <2>2, <2>3 DEF Farewell, Gone
  <2>5. \A q \in Refers : outcome'[q] = "accepted" => outcome[q] = "accepted"
    BY <2>2, <2>3 DEF DialogType
  <2> QED BY <2>2, <2>3, <2>4, <2>5 DEF Farewell, Gone
<1>10. ASSUME NEW t \in Refers, T!AskTransfer(t) \/ T!SendRefer(t) PROVE Farewell'
  BY <1>1, <1>10 DEF T!AskTransfer, T!SendRefer
<1>11. ASSUME NEW t \in Refers, T!PlanRefer(t) PROVE Farewell'
  <2>1. /\ stage[t] = "spawned"
        /\ UNCHANGED <<leg, at, results, remote_bye, peer, bye_lost>>
        /\ \/ T!Resolve(t) /\ outcome' = outcome
           \/ T!At(t, "report") /\ outcome' = [outcome EXCEPT ![t] = "failed"]
    BY <1>11 DEF T!PlanRefer, T!Fail
  <2>2. CASE T!Resolve(t) /\ outcome' = outcome
    BY <1>1, <2>1, <2>2
  <2>3. CASE T!At(t, "report") /\ outcome' = [outcome EXCEPT ![t] = "failed"]
    <3>1. /\ \A q \in Refers : q # t => stage'[q] = stage[q] /\ outcome'[q] = outcome[q]
          /\ outcome'[t] = "failed"
      BY <1>0, <2>3, AtMoves DEF DialogType
    <3> QED BY <2>1, <3>1 DEF Farewell, Gone
  <2> QED BY <2>1, <2>2, <2>3
<1>12. ASSUME NEW t \in Refers, T!ReferAnswered(t) PROVE Farewell'
  <2>1. /\ stage[t] = "out"
        /\ UNCHANGED <<leg, at, results, remote_bye, peer, bye_lost>>
        /\ \/ /\ outcome' = [outcome EXCEPT ![t] = "accepted"]
              /\ leg = "managed" => T!At(t, "bye_due")
              /\ \E s : T!At(t, s)
           \/ T!At(t, "report") /\ outcome' = [outcome EXCEPT ![t] = "failed"]
    BY <1>12 DEF T!ReferAnswered, T!Fail
  <2>2. /\ \A q \in Refers : q # t => stage'[q] = stage[q] /\ outcome'[q] = outcome[q]
        /\ outcome'[t] = "accepted" /\ leg = "managed" => stage'[t] = "bye_due"
    BY <1>0, <2>1, AtMoves DEF DialogType
  <2> QED BY <2>1, <2>2 DEF Farewell, Gone
<1>13. ASSUME NEW t \in Refers, T!ByeAfterRefer(t) PROVE Farewell'
  <2>1. /\ stage[t] = "bye_due" /\ UNCHANGED <<leg, at, results, remote_bye, outcome>>
        /\ T!At(t, "report") /\ Gone'
    BY <1>13 DEF T!ByeAfterRefer, Gone
  <2>2. \A q \in Refers : q # t => stage'[q] = stage[q]
    BY <1>0, <2>1, AtMoves
  <2> QED BY <2>1, <2>2 DEF Farewell
<1>14. ASSUME NEW t \in Refers, T!ReportRefer(t) PROVE Farewell'
  <2>1. /\ stage[t] = "report" /\ UNCHANGED <<leg, at, remote_bye, peer, bye_lost>>
        /\ T!At(t, "done")
        /\ \/ results' = <<t>> /\ outcome' = outcome
           \/ results' = results /\ outcome' = [outcome EXCEPT ![t] = "none"]
    BY <1>14 DEF T!ReportRefer
  <2>2. /\ stage'[t] = "done" /\ \A q \in Refers : q # t => stage'[q] = stage[q]
        /\ \A q \in Refers : outcome'[q] = "accepted" => outcome[q] = "accepted"
    BY <1>0, <2>1, AtMoves DEF DialogType
  <2>3. results' = <<>> \/ \E q \in Refers : results' = <<q>> /\ stage'[q] = "done"
    BY <2>1, <2>2 DEF Farewell
  <2> QED BY <2>1, <2>2, <2>3 DEF Farewell, Gone
<1>15. CASE UNCHANGED T!vars
  BY <1>15 DEF T!vars, Farewell, Gone
<1> QED BY <1>3, <1>4, <1>5, <1>6, <1>7, <1>8, <1>9, <1>10, <1>11, <1>12, <1>13, <1>14, <1>15,
           DialogSteps

-----------------------------------------------------------------------------
DialogInv == DialogType /\ Turns /\ Numbers /\ Farewell

\* The inductive invariant of the dialog, for any transfers and any bounds.
THEOREM DialogInvariance == ASSUME T!RefersAssumption PROVE T!Spec => []DialogInv
<1>1. T!Init => DialogInv
  BY DialogTypeInit, NumbersInit, FarewellInit DEF DialogInv
<1>2. DialogInv /\ [T!Next]_(T!vars) => DialogInv'
  BY DialogTypeStep, TurnsStep, NumbersStep, FarewellStep DEF DialogInv
<1> QED BY <1>1, <1>2, PTL DEF T!Spec

\* transfer.rs:109: as long as two requests are not under way at once, no CSeq is sent twice,
\* whatever the re-INVITEs with their retries, the transfers, the refreshes without an answer
\* and the BYE do to the dialog they share; nor when the BYE meets one of them in flight.
THEOREM NumbersAlwaysContinue == ASSUME T!RefersAssumption PROVE T!Spec => []NumbersContinue
<1>1. DialogInv => NumbersContinue
  BY DEF DialogInv, Numbers, NumbersContinue
<1> QED BY <1>1, DialogInvariance, PTL

\* call.rs:1800: a call that is over has no peer in it, although on an inbound leg the BYE of
\* an accepted transfer is the transfer's to send and not the clean-up's; the one exception is
\* a BYE of a transfer that could not be sent.
THEOREM PeerAlwaysLetGo == ASSUME T!RefersAssumption PROVE T!Spec => []PeerLetGo
<1>1. DialogInv => PeerLetGo
  BY DEF DialogInv, Farewell, Gone, PeerLetGo
<1> QED BY <1>1, DialogInvariance, PTL
=============================================================================
