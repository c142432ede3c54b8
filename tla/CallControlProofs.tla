------------------------- MODULE CallControlProofs -------------------------
(***************************************************************************)
(* What CallControl keeps true for every setting of its bounds: the types, *)
(* the books on the park and on the reconnect episodes, and the window of  *)
(* an episode; that a call has one live session, that its redials never    *)
(* stall, that it gives up only after its window, that its audio follows   *)
(* the newest session, that the tap ends up on hold when the controller    *)
(* says so, and that it lives the life of CallLifecycle.                   *)
(* Parts of this have hypotheses, and TLC refutes them without: Apart, that*)
(* a call is never parked and reconnecting at once, of which OneFeature,   *)
(* that it is not configured for both, is enough; and KeepsUp, that the    *)
(* tap's command queue never fills.                                        *)
(***************************************************************************)
EXTENDS CallControl, TLAPS

\* TypeOK and ParkBooks need each other: the gauge only stays a natural number because
\* it is 1 whenever it is decremented.
Inv == TypeOK /\ ParkBooks /\ EpisodeBooks /\ RedialTimersArmed

-----------------------------------------------------------------------------
(* Sequences and sessions *)

LEMMA EmptyIsSeq == ASSUME NEW S PROVE <<>> \in Seq(S)
OBVIOUS

LEMMA AppendType == ASSUME NEW S, NEW s \in Seq(S), NEW e \in S PROVE Append(s, e) \in
       Seq(S)
OBVIOUS

LEMMA HeadTailType ==
  ASSUME NEW S, NEW s \in Seq(S), s # <<>> PROVE Head(s) \in S /\ Tail(s) \in Seq(S)
OBVIOUS

LEMMA FirstSession == 1 \in Session
BY BoundsAssumption DEF Session

\* A plain command, a numbered one, and an unpark with a session are tap commands.
LEMMA CommandTypes ==
  /\ \A op \in {"park", "hold", "unhold", "announce", "other"} : Cmd(op) \in TapCommand
  /\ \A op \in {"hold", "announce"}, k \in Nat : [op |-> op, n |-> k] \in TapCommand
  /\ \A s \in Session : [op |-> "unpark", n |-> s] \in TapCommand
BY DEF TapCommand, Cmd

LEMMA TapSendType ==
  ASSUME TapType, NEW c \in TapCommand, TapSend(c) \/ TapTrySend(c)
  PROVE  tap_cmds' \in Seq(TapCommand)
BY AppendType DEF TapType, TapSend, TapTrySend

LEMMA SendStopType == ASSUME SessionType, SendStop PROVE SessionType'
BY DEF SessionType, SessionState, SendStop

\* A dial hands the controller a session of the right type and empty channels.
LEMMA DialType ==
  ASSUME SessionType, NEW url \in Url, Dial(url)
  PROVE  /\ SessionType'
         /\ cur + 1 \in Session /\ cur' = cur + 1
         /\ bridge_alive' \in BOOLEAN /\ control_open' \in BOOLEAN
         /\ control_in' \in Seq(BridgeIn)
<1>1. Fresh("dialing", url) \in SessionState
  BY DEF Fresh, SessionState, Phase, DisconnectReason
<1>2. SessionType'
  BY <1>1 DEF SessionType, Dial
<1>3. QED
  BY <1>2, EmptyIsSeq DEF Dial

-----------------------------------------------------------------------------
(* The books *)

\* Whatever breaks the loop settles an open park and an open episode.
LEMMA FinishBooks ==
  ASSUME BooksType, ParkBooks, EpisodeBooks, InLoop, parked \in BOOLEAN, NEW t, Finish(t)
  PROVE  BooksType' /\ ParkBooks' /\ EpisodeBooks'
<1>1. ~InLoop'
  BY DEF Finish, InLoop
<1>2. slot = parked /\ gauge = IF parked THEN 1 ELSE 0
  BY DEF ParkBooks, BooksType
<1>3. slot' = FALSE
  BY <1>2 DEF Finish
<1>4. gauge' = 0
  BY <1>2 DEF Finish
<1>5. ParkBooks'
  BY <1>1, <1>3, <1>4 DEF ParkBooks
<1>6. EpisodeBooks'
  BY <1>1 DEF Finish, EpisodeBooks, BooksType
<1>7. BooksType'
  BY <1>3, <1>4 DEF Finish, BooksType
<1>8. QED
  BY <1>5, <1>6, <1>7

\* A step that neither parks, redials nor leaves the loop leaves them alone.
LEMMA BooksUntouched ==
  ASSUME BooksType, ParkBooks, EpisodeBooks, UNCHANGED bookVars,
         parked' = parked, reconnecting' = reconnecting, InLoop' = InLoop
  PROVE  BooksType' /\ ParkBooks' /\ EpisodeBooks'
BY DEF BooksType, ParkBooks, EpisodeBooks, bookVars

\* The other tasks do not touch the controller's locals.
LEMMA ControllerUntouched ==
  ASSUME Inv, UNCHANGED controllerLocals, held' = held
  PROVE  ControllerType' /\ BooksType' /\ ParkBooks' /\ EpisodeBooks' /\ RedialTimersArmed'
<1> USE DEF controllerLocals, loopVars, bridgeVars, parkVars, redialVars
<1>1. ControllerType'
  BY DEF Inv, TypeOK, ControllerType
<1>2. BooksType' /\ ParkBooks' /\ EpisodeBooks'
  BY BooksUntouched DEF Inv, TypeOK, InLoop
<1>3. RedialTimersArmed'
  BY DEF Inv, RedialTimersArmed
<1>4. QED
  BY <1>1, <1>2, <1>3

LEMMA BridgeTerminationType == \A r : bridge_termination(r) \in CallTermination
BY DEF bridge_termination, CallTermination

LEMMA FinishType ==
  ASSUME NEW t \in CallTermination, Finish(t)
  PROVE  pc' = "draining" /\ termination' \in CallTermination
BY DEF Finish

-----------------------------------------------------------------------------
LEMMA InitInv == ASSUME Init PROVE Inv
<1>1. ControllerType
  BY FirstSession DEF Init, ControllerType, NoSession
<1>2. BooksType
  BY DEF Init, BooksType
<1>3. park_cmds \in Seq(ParkCommand) /\ control_in \in Seq(BridgeIn)
      /\ tap_cmds \in Seq(TapCommand)
  BY EmptyIsSeq DEF Init
<1>4. RequestType
  BY <1>3 DEF Init, RequestType
<1>5. SessionType
  BY DEF Init, SessionType, Fresh, SessionState, Phase, Url, DisconnectReason
<1>6. TapType
  BY <1>3, FirstSession DEF Init, TapType
<1>7. ParkBooks
  BY DEF Init, ParkBooks
<1>8. EpisodeBooks
  BY DEF Init, EpisodeBooks
<1>9. RedialTimersArmed
  BY DEF Init, RedialTimersArmed
<1>10. QED
  BY <1>1, <1>2, <1>4, <1>5, <1>6, <1>7, <1>8, <1>9 DEF Inv, TypeOK

-----------------------------------------------------------------------------
(* The steps of the other tasks *)

LEMMA RequestStep ==
  ASSUME Inv, RequestShutdown \/ \E c \in ParkCommand : OperatorAsks(c)
  PROVE  Inv'
<1> USE DEF wireVars, tapVars, promptVars, holdVars
<1>1. UNCHANGED <<controllerLocals, sess, tapVars, promptVars, holdVars>>
  BY DEF RequestShutdown, OperatorAsks
<1>2. RequestType'
  <2>1. CASE RequestShutdown
    BY <2>1 DEF RequestShutdown, Inv, TypeOK, RequestType
  <2>2. ASSUME NEW c \in ParkCommand, OperatorAsks(c) PROVE RequestType'
    BY <2>2, AppendType DEF OperatorAsks, Inv, TypeOK, RequestType
  <2>3. QED
    BY <2>1, <2>2
<1>3. SessionType' /\ TapType'
  BY <1>1 DEF Inv, TypeOK, SessionType, TapType
<1>4. QED
  BY <1>1, <1>2, <1>3, ControllerUntouched DEF Inv, TypeOK

LEMMA BridgeStep ==
  ASSUME Inv, NEW s \in Session, Bridge(s)
  PROVE  Inv'
<1> USE DEF bridgeRest, handleVars, wireVars, tapVars, promptVars, holdVars
<1>1. UNCHANGED <<bridgeRest, wireVars>>
  BY DEF Bridge, BridgeConnects, BridgeConnectFails, BridgeSendsStop, BridgeBreaks,
         BridgeOrphaned, EndSession
<1>2. SessionType'
  <2>1. CASE BridgeConnects(s)
    <3>1. sess[s] \in SessionState
      BY DEF Inv, TypeOK, SessionType
    <3>2. [sess[s] EXCEPT !.phase = "live", !.ready = TRUE] \in SessionState
      BY <3>1 DEF SessionState, Phase
    <3>3. QED
      BY <2>1, <3>2 DEF BridgeConnects, Inv, TypeOK, SessionType
  <2>2. ASSUME NEW r \in DisconnectReason, EndSession(s, r) PROVE SessionType'
    <3>1. sess[s] \in SessionState
      BY DEF Inv, TypeOK, SessionType
    <3>2. [sess[s] EXCEPT !.phase = "ended", !.result = r] \in SessionState
      BY <3>1 DEF SessionState, Phase
    <3>3. QED
      BY <2>2, <3>2 DEF EndSession, Inv, TypeOK, SessionType
  <2>3. QED
    BY <2>1, <2>2 DEF Bridge, BridgeConnectFails, BridgeSendsStop, BridgeBreaks,
                      BridgeOrphaned, DisconnectReason
<1>3. RequestType' /\ TapType'
  BY <1>1 DEF Inv, TypeOK, RequestType, TapType
<1>4. QED
  BY <1>1, <1>2, <1>3, ControllerUntouched DEF Inv, TypeOK

LEMMA HearStep ==
  ASSUME Inv, NEW m \in BridgeIn, BridgeHears(m)
  PROVE  Inv'
<1> USE DEF bridgeRest, handleVars, tapVars, promptVars, holdVars
<1>1. UNCHANGED <<bridgeRest, sess>>
  BY DEF BridgeHears
<1>2. RequestType'
  BY <1>1, AppendType DEF BridgeHears, Inv, TypeOK, RequestType
<1>3. SessionType' /\ TapType'
  BY <1>1 DEF Inv, TypeOK, SessionType, TapType
<1>4. QED
  BY <1>1, <1>2, <1>3, ControllerUntouched DEF Inv, TypeOK

LEMMA TapStep ==
  ASSUME Inv, Tap
  PROVE  Inv'
<1> USE DEF tapRestOfCall, handleVars, wireVars, holdVars, promptVars
<1>1. UNCHANGED tapRestOfCall /\ held' = held
  BY DEF Tap, TapSeesDrop, FrameWaits, FrameSent, FrameFails, TapCommands, PromptPlayed,
         MediaEnds, TapEnds, TapParks, TapUnparks, TapHolds, TapUnholds, TapAnnounces,
         TapTakesOther, TapTakes
<1>2. TapType'
  <2> USE DEF Inv, TypeOK, TapType, AnnounceEnd, ResolvePrompt
  <2>1. ASSUME NEW r \in TapDisconnect, TapEnds(r) PROVE TapType'
    BY <2>1, EmptyIsSeq DEF TapEnds
  <2>2. CASE TapSeesDrop
    BY <2>1, <2>2 DEF TapSeesDrop, TapDisconnect
  <2>3. CASE FrameWaits \/ FrameSent
    BY <2>3 DEF FrameWaits, FrameSent
  <2>4. CASE FrameFails
    BY <2>1, <2>4 DEF FrameFails, TapDisconnect
  <2>5. CASE PromptPlayed
    BY <2>5 DEF PromptPlayed
  <2>6. CASE \E r \in TapDisconnect : MediaEnds(r)
    BY <2>1, <2>6 DEF MediaEnds
  <2>7. CASE TapCommands
    <3>1. Head(tap_cmds) \in TapCommand /\ tap_cmds' \in Seq(TapCommand)
      BY <2>7, HeadTailType DEF TapCommands, TapParks, TapUnparks, TapHolds, TapUnholds,
                                TapAnnounces, TapTakesOther, TapTakes
    <3>2. CASE TapParks
      BY <3>1, <3>2 DEF TapParks, TapTakes
    <3>3. CASE TapUnparks
      BY <3>1, <3>3 DEF TapUnparks, TapTakes, TapCommand
    <3>4. CASE TapHolds
      <4>1. hold_ack' \in {"none", "yes", "no", "gone"}
        BY <3>4 DEF TapHolds, TapAnswersHold
      <4>2. ws_prompt' \in AnnounceEnd \cup {"none", "playing"}
        BY <3>4 DEF TapHolds
      <4>3. tap_held' \in BOOLEAN
        BY <3>4 DEF TapHolds
      <4>4. tap_prompt' \in Nat
        BY <3>4 DEF TapHolds
      <4>5. QED
        BY <3>1, <3>4, <4>1, <4>2, <4>3, <4>4 DEF TapHolds, TapTakes
    <3>5. CASE TapUnholds
      BY <3>1, <3>5 DEF TapUnholds, TapTakes
    <3>6. CASE TapAnnounces
      BY <3>1, <3>6 DEF TapAnnounces, TapTakes, TapCommand
    <3>7. CASE TapTakesOther
      BY <3>1, <3>7 DEF TapTakesOther, TapTakes
    <3>8. QED
      BY <2>7, <3>2, <3>3, <3>4, <3>5, <3>6, <3>7 DEF TapCommands
  <2>8. QED
    BY <2>2, <2>3, <2>4, <2>5, <2>6, <2>7 DEF Tap
<1>3. SessionType' /\ RequestType'
  BY <1>1 DEF Inv, TypeOK, SessionType, RequestType
<1>4. QED
  BY <1>1, <1>2, <1>3, ControllerUntouched DEF Inv, TypeOK

-----------------------------------------------------------------------------
(* The controller's arms *)

LEMMA ShutdownStep == ASSUME Inv, Shutdown PROVE Inv'
<1> USE DEF bridgeVars, parkVars, redialVars, wireVars, tapVars, promptVars, holdVars
<1>1. ControllerType'
  BY DEF Inv, TypeOK, ControllerType, Shutdown, Finish, CallTermination
<1>2. BooksType' /\ ParkBooks' /\ EpisodeBooks'
  BY FinishBooks DEF Inv, TypeOK, ControllerType, Shutdown, InLoop
<1>3. SessionType'
  BY SendStopType DEF Inv, TypeOK, Shutdown
<1>4. RequestType' /\ TapType'
  BY DEF Inv, TypeOK, RequestType, TapType, Shutdown
<1>5. RedialTimersArmed'
  BY DEF Inv, RedialTimersArmed, Shutdown
<1>6. QED
  BY <1>1, <1>2, <1>3, <1>4, <1>5 DEF Inv, TypeOK

LEMMA ServerHangupStep == ASSUME Inv, ServerHangup PROVE Inv'
<1> USE DEF bridgeVars, parkVars, redialVars, handleVars, tapVars, promptVars, holdVars
<1>1. ControllerType'
  BY DEF Inv, TypeOK, ControllerType, ServerHangup, Finish, CallTermination
<1>2. BooksType' /\ ParkBooks' /\ EpisodeBooks'
  BY FinishBooks
   DEF Inv, TypeOK, ControllerType, ServerHangup, ServerSaid, BeforeControl, InLoop
<1>3. SessionType'
  BY SendStopType DEF Inv, TypeOK, ServerHangup
<1>4. RequestType' /\ TapType'
  BY HeadTailType DEF Inv, TypeOK, RequestType, TapType, ServerHangup, ServerSaid
<1>5. RedialTimersArmed'
  BY DEF Inv, RedialTimersArmed, ServerHangup
<1>6. QED
  BY <1>1, <1>2, <1>3, <1>4, <1>5 DEF Inv, TypeOK

LEMMA ForwardToTapStep == ASSUME Inv, ForwardToTap PROVE Inv'
<1> USE DEF loopVars, bridgeVars, parkVars, redialVars, bookVars, handleVars, wireVars,
          tapRest, tapVars, promptVars, holdVars
<1>1. ControllerType'
  BY DEF Inv, TypeOK, ControllerType, ForwardToTap
<1>2. BooksType' /\ ParkBooks' /\ EpisodeBooks'
  BY BooksUntouched DEF Inv, TypeOK, ForwardToTap, InLoop, ServerSaid, BeforeControl
<1>3. RequestType'
  BY HeadTailType DEF Inv, TypeOK, RequestType, ForwardToTap, ServerSaid
<1>4. SessionType'
  BY DEF Inv, TypeOK, SessionType, ForwardToTap
<1>5. TapType'
  BY CommandTypes, TapSendType DEF Inv, TypeOK, TapType, ForwardToTap
<1>6. RedialTimersArmed'
  BY DEF Inv, RedialTimersArmed, ForwardToTap
<1>7. QED
  BY <1>1, <1>2, <1>3, <1>4, <1>5, <1>6 DEF Inv, TypeOK

LEMMA ServerParkStep == ASSUME Inv, ServerPark PROVE Inv'
<1> USE DEF loopVars, bridgeVars, parkVars, redialVars, bookVars, handleVars, wireVars,
          tapRest, tapVars, promptVars, holdVars
<1>1. ControllerType'
  BY DEF Inv, TypeOK, ControllerType, ServerPark
<1>2. BooksType' /\ ParkBooks' /\ EpisodeBooks'
  BY BooksUntouched DEF Inv, TypeOK, ServerPark, InLoop, ServerSaid, BeforeControl
<1>3. RequestType'
  BY HeadTailType, AppendType
   DEF Inv, TypeOK, RequestType, ServerPark, ServerSaid, ParkCommand
<1>4. SessionType'
  BY DEF Inv, TypeOK, SessionType, ServerPark
<1>5. TapType'
  BY DEF Inv, TypeOK, TapType, ServerPark
<1>6. RedialTimersArmed'
  BY DEF Inv, RedialTimersArmed, ServerPark
<1>7. QED
  BY <1>1, <1>2, <1>3, <1>4, <1>5, <1>6 DEF Inv, TypeOK

LEMMA ServerHoldStep == ASSUME Inv, ServerHold PROVE Inv'
<1> USE DEF loopVars, bridgeVars, parkVars, redialVars, bookVars, handleVars, wireVars,
          tapRest, tapVars, promptVars, holdVars
<1>1. ControllerType'
  BY DEF Inv, TypeOK, ControllerType, ServerHold, ServerSaid, BeforeControl
<1>2. BooksType' /\ ParkBooks' /\ EpisodeBooks'
  BY BooksUntouched DEF Inv, TypeOK, ServerHold, InLoop, ServerSaid, BeforeControl
<1>3. RequestType'
  BY HeadTailType DEF Inv, TypeOK, RequestType, ServerHold, ServerSaid
<1>4. SessionType'
  BY DEF Inv, TypeOK, SessionType, ServerHold
<1>5. TapType'
  BY CommandTypes, TapSendType DEF Inv, TypeOK, TapType, ServerHold
<1>6. RedialTimersArmed'
  BY DEF Inv, RedialTimersArmed, ServerHold
<1>7. QED
  BY <1>1, <1>2, <1>3, <1>4, <1>5, <1>6 DEF Inv, TypeOK

LEMMA HoldAckedStep == ASSUME Inv, HoldAcked PROVE Inv'
<1> USE DEF loopVars, bridgeVars, parkVars, redialVars, bookVars, handleVars, wireVars,
          tapRest, tapVars, promptVars, holdVars
<1>1. ControllerType'
  BY DEF Inv, TypeOK, ControllerType, HoldAcked
<1>2. BooksType' /\ ParkBooks' /\ EpisodeBooks'
  BY BooksUntouched DEF Inv, TypeOK, HoldAcked, InLoop
<1>3. RequestType'
  BY DEF Inv, TypeOK, RequestType, HoldAcked
<1>4. SessionType'
  BY DEF Inv, TypeOK, SessionType, HoldAcked
<1>5. TapType'
  BY DEF Inv, TypeOK, TapType, HoldAcked
<1>6. RedialTimersArmed'
  BY DEF Inv, RedialTimersArmed, HoldAcked
<1>7. QED
  BY <1>1, <1>2, <1>3, <1>4, <1>5, <1>6 DEF Inv, TypeOK

LEMMA HoldRefusedStep == ASSUME Inv, HoldRefused PROVE Inv'
<1> USE DEF loopVars, bridgeVars, parkVars, redialVars, bookVars, handleVars, wireVars,
          tapRest, tapVars, promptVars, holdVars
<1>1. ControllerType'
  BY DEF Inv, TypeOK, ControllerType, HoldRefused
<1>2. BooksType' /\ ParkBooks' /\ EpisodeBooks'
  BY BooksUntouched DEF Inv, TypeOK, HoldRefused, InLoop
<1>3. RequestType'
  BY DEF Inv, TypeOK, RequestType, HoldRefused
<1>4. SessionType'
  BY DEF Inv, TypeOK, SessionType, HoldRefused
<1>5. TapType'
  BY CommandTypes, TapSendType DEF Inv, TypeOK, TapType, HoldRefused
<1>6. RedialTimersArmed'
  BY DEF Inv, RedialTimersArmed, HoldRefused
<1>7. QED
  BY <1>1, <1>2, <1>3, <1>4, <1>5, <1>6 DEF Inv, TypeOK

LEMMA HoldReinviteDoneStep == ASSUME Inv, HoldReinviteDone PROVE Inv'
<1> USE DEF loopVars, bridgeVars, parkVars, redialVars, bookVars, handleVars, wireVars,
          tapRest, tapVars, promptVars, holdVars
<1>1. ControllerType'
  <2>1. pc' = "select" /\ held' \in BOOLEAN
    BY DEF Inv, TypeOK, ControllerType, HoldReinviteDone
  <2>2. QED
    BY <2>1 DEF Inv, TypeOK, ControllerType, HoldReinviteDone
<1>2. BooksType' /\ ParkBooks' /\ EpisodeBooks'
  BY BooksUntouched DEF Inv, TypeOK, HoldReinviteDone, InLoop
<1>3. RequestType'
  BY DEF Inv, TypeOK, RequestType, HoldReinviteDone
<1>4. SessionType'
  BY DEF Inv, TypeOK, SessionType, HoldReinviteDone
<1>5. TapType'
  BY CommandTypes, TapSendType DEF Inv, TypeOK, TapType, HoldReinviteDone
<1>6. RedialTimersArmed'
  BY DEF Inv, RedialTimersArmed, HoldReinviteDone
<1>7. QED
  BY <1>1, <1>2, <1>3, <1>4, <1>5, <1>6 DEF Inv, TypeOK

LEMMA ServerResumeStep == ASSUME Inv, ServerResume PROVE Inv'
<1> USE DEF loopVars, bridgeVars, parkVars, redialVars, bookVars, handleVars, wireVars,
          tapRest, tapVars, promptVars, holdVars
<1>1. ControllerType'
  BY DEF Inv, TypeOK, ControllerType, ServerResume, ServerSaid, BeforeControl
<1>2. BooksType' /\ ParkBooks' /\ EpisodeBooks'
  BY BooksUntouched DEF Inv, TypeOK, ServerResume, InLoop, ServerSaid, BeforeControl
<1>3. RequestType'
  BY HeadTailType DEF Inv, TypeOK, RequestType, ServerResume, ServerSaid
<1>4. SessionType'
  BY DEF Inv, TypeOK, SessionType, ServerResume
<1>5. TapType'
  BY DEF Inv, TypeOK, TapType, ServerResume
<1>6. RedialTimersArmed'
  BY DEF Inv, RedialTimersArmed, ServerResume
<1>7. QED
  BY <1>1, <1>2, <1>3, <1>4, <1>5, <1>6 DEF Inv, TypeOK

LEMMA ResumeReinviteDoneStep == ASSUME Inv, ResumeReinviteDone PROVE Inv'
<1> USE DEF loopVars, bridgeVars, parkVars, redialVars, bookVars, handleVars, wireVars,
          tapRest, tapVars, promptVars, holdVars
<1>1. ControllerType'
  <2>1. pc' = "select" /\ held' \in BOOLEAN
    BY DEF Inv, TypeOK, ControllerType, ResumeReinviteDone
  <2>2. QED
    BY <2>1 DEF Inv, TypeOK, ControllerType, ResumeReinviteDone
<1>2. BooksType' /\ ParkBooks' /\ EpisodeBooks'
  BY BooksUntouched DEF Inv, TypeOK, ResumeReinviteDone, InLoop
<1>3. RequestType'
  BY DEF Inv, TypeOK, RequestType, ResumeReinviteDone
<1>4. SessionType'
  BY DEF Inv, TypeOK, SessionType, ResumeReinviteDone
<1>5. TapType'
  BY CommandTypes, TapSendType DEF Inv, TypeOK, TapType, ResumeReinviteDone
<1>6. RedialTimersArmed'
  BY DEF Inv, RedialTimersArmed, ResumeReinviteDone
<1>7. QED
  BY <1>1, <1>2, <1>3, <1>4, <1>5, <1>6 DEF Inv, TypeOK

LEMMA ControlClosedStep == ASSUME Inv, ControlClosed PROVE Inv'
<1> USE DEF loopVars, bridgeVars, parkVars, redialVars, bookVars, handleVars, wireVars,
          tapRest, tapVars, promptVars, holdVars
<1>1. ControllerType'
  <2>1. control_open' \in BOOLEAN
    BY DEF ControlClosed
  <2>2. QED
    BY <2>1 DEF Inv, TypeOK, ControllerType, ControlClosed
<1>2. BooksType' /\ ParkBooks' /\ EpisodeBooks'
  BY BooksUntouched DEF Inv, TypeOK, ControlClosed, InLoop
<1>3. RequestType'
  BY DEF Inv, TypeOK, RequestType, ControlClosed
<1>4. SessionType'
  BY DEF Inv, TypeOK, SessionType, ControlClosed
<1>5. TapType'
  BY DEF Inv, TypeOK, TapType, ControlClosed
<1>6. RedialTimersArmed'
  BY DEF Inv, RedialTimersArmed, ControlClosed
<1>7. QED
  BY <1>1, <1>2, <1>3, <1>4, <1>5, <1>6 DEF Inv, TypeOK

LEMMA ParkCallStep == ASSUME Inv, ParkCall PROVE Inv'
<1> USE DEF loopVars, bridgeVars, parkVars, redialVars, bookVars, handleVars, wireVars,
          tapRest, tapVars, promptVars, holdVars
<1>1. ControllerType'
  BY DEF Inv, TypeOK, ControllerType, ParkCall
<1>2. BooksType' /\ ParkBooks' /\ EpisodeBooks'
  <2>1. pc = "select" /\ ~parked
    BY DEF ParkCall, NextParkCmd, BeforePark, BeforeControl
  <2>2. gauge = 0
    BY <2>1 DEF Inv, ParkBooks
  <2>3. gauge' = 1
    BY <2>2 DEF ParkCall
  <2>4. slot' = TRUE /\ parked' = TRUE /\ pc' = "select"
    BY <2>1 DEF ParkCall
  <2>5. ParkBooks'
    BY <2>3, <2>4 DEF ParkBooks, InLoop
  <2>6. EpisodeBooks'
    BY DEF Inv, EpisodeBooks, ParkCall, InLoop
  <2>7. BooksType'
    BY <2>3, <2>4 DEF Inv, TypeOK, BooksType, ParkCall
  <2>8. QED
    BY <2>5, <2>6, <2>7
<1>3. RequestType'
  BY HeadTailType DEF Inv, TypeOK, RequestType, ParkCall, NextParkCmd
<1>4. SessionType'
  BY SendStopType DEF Inv, TypeOK, SessionType, ParkCall
<1>5. TapType'
  BY CommandTypes, TapSendType DEF Inv, TypeOK, TapType, ParkCall
<1>6. RedialTimersArmed'
  BY DEF Inv, RedialTimersArmed, ParkCall
<1>7. QED
  BY <1>1, <1>2, <1>3, <1>4, <1>5, <1>6 DEF Inv, TypeOK

LEMMA ParkRefusedStep == ASSUME Inv, ParkRefused PROVE Inv'
<1> USE DEF loopVars, bridgeVars, parkVars, redialVars, bookVars, handleVars, wireVars,
          tapRest, tapVars, promptVars, holdVars
<1>1. ControllerType'
  BY DEF Inv, TypeOK, ControllerType, ParkRefused
<1>2. BooksType' /\ ParkBooks' /\ EpisodeBooks'
  <2>1. BooksType'
    BY DEF Inv, TypeOK, ControllerType, BooksType, ParkRefused
  <2>2. ParkBooks'
    BY DEF Inv, TypeOK, BooksType, ParkBooks, ParkRefused, NextParkCmd, BeforePark,
           BeforeControl, InLoop
  <2>3. EpisodeBooks'
    BY DEF Inv, TypeOK, EpisodeBooks, ParkRefused, InLoop
  <2>4. QED
    BY <2>1, <2>2, <2>3
<1>3. RequestType'
  BY HeadTailType DEF Inv, TypeOK, RequestType, ParkRefused, NextParkCmd
<1>4. SessionType'
  BY DEF Inv, TypeOK, SessionType, ParkRefused
<1>5. TapType'
  BY DEF Inv, TypeOK, TapType, ParkRefused
<1>6. RedialTimersArmed'
  BY DEF Inv, RedialTimersArmed, ParkRefused
<1>7. QED
  BY <1>1, <1>2, <1>3, <1>4, <1>5, <1>6 DEF Inv, TypeOK

LEMMA RetrieveCallStep == ASSUME Inv, RetrieveCall PROVE Inv'
<1> USE DEF loopVars, bridgeVars, parkVars, redialVars, bookVars, handleVars, wireVars,
          tapRest, tapVars, promptVars, holdVars
<1>1. ControllerType'
  BY DEF Inv, TypeOK, ControllerType, RetrieveCall, Dial
<1>2. BooksType' /\ ParkBooks' /\ EpisodeBooks'
  <2>1. pc = "select" /\ parked
    BY DEF RetrieveCall, NextParkCmd, BeforePark, BeforeControl
  <2>2. gauge = 1
    BY <2>1 DEF Inv, ParkBooks, InLoop
  <2>3. gauge' = 0
    BY <2>2 DEF RetrieveCall
  <2>4. slot' = FALSE /\ parked' = FALSE
    BY DEF RetrieveCall
  <2>5. ParkBooks'
    BY <2>3, <2>4 DEF ParkBooks
  <2>6. EpisodeBooks'
    BY DEF Inv, EpisodeBooks, RetrieveCall, InLoop
  <2>7. UNCHANGED <<episodes, recovered, exhausted>>
    BY DEF RetrieveCall
  <2>8. BooksType'
    BY <2>3, <2>4, <2>7 DEF Inv, TypeOK, BooksType
  <2>9. QED
    BY <2>5, <2>6, <2>8
<1>3. RequestType'
  <2>1. park_cmds' \in Seq(ParkCommand)
    BY HeadTailType DEF Inv, TypeOK, RequestType, RetrieveCall, NextParkCmd
  <2>2. control_in' \in Seq(BridgeIn)
    BY EmptyIsSeq DEF RetrieveCall, Dial
  <2>3. QED
    BY <2>1, <2>2 DEF Inv, TypeOK, RequestType, RetrieveCall, Dial
<1>4. SessionType'
  BY DialType DEF Inv, TypeOK, SessionType, RetrieveCall, Url
<1>5. TapType'
  BY CommandTypes, TapSendType DEF Inv, TypeOK, TapType, RetrieveCall, Dial
<1>6. RedialTimersArmed'
  BY DEF Inv, RedialTimersArmed, RetrieveCall
<1>7. QED
  BY <1>1, <1>2, <1>3, <1>4, <1>5, <1>6 DEF Inv, TypeOK

LEMMA RetrieveIgnoredStep == ASSUME Inv, RetrieveIgnored PROVE Inv'
<1> USE DEF loopVars, bridgeVars, parkVars, redialVars, bookVars, handleVars, wireVars,
          tapRest, tapVars, promptVars, holdVars
<1>1. ControllerType'
  BY DEF Inv, TypeOK, ControllerType, RetrieveIgnored
<1>2. BooksType' /\ ParkBooks' /\ EpisodeBooks'
  BY BooksUntouched DEF Inv, TypeOK, RetrieveIgnored, InLoop
<1>3. RequestType'
  BY HeadTailType DEF Inv, TypeOK, RequestType, RetrieveIgnored, NextParkCmd
<1>4. SessionType'
  BY DEF Inv, TypeOK, SessionType, RetrieveIgnored
<1>5. TapType'
  BY DEF Inv, TypeOK, TapType, RetrieveIgnored
<1>6. RedialTimersArmed'
  BY DEF Inv, RedialTimersArmed, RetrieveIgnored
<1>7. QED
  BY <1>1, <1>2, <1>3, <1>4, <1>5, <1>6 DEF Inv, TypeOK

LEMMA ParkTimeoutStep == ASSUME Inv, ParkTimeout PROVE Inv'
<1> USE DEF loopVars, bridgeVars, parkVars, redialVars, bookVars, handleVars, wireVars,
          tapRest, tapVars, promptVars, holdVars
<1>1. ControllerType'
  <2>1. park_deadline_armed' \in BOOLEAN
    BY DEF ParkTimeout
  <2>2. CASE ParkTimeoutAction = "keep"
    BY <2>1, <2>2 DEF Inv, TypeOK, ControllerType, ParkTimeout
  <2>3. CASE ParkTimeoutAction # "keep"
    BY <2>1, <2>3 DEF Inv, TypeOK, ControllerType, ParkTimeout, Finish, CallTermination
  <2>4. QED
    BY <2>2, <2>3
<1>2. BooksType' /\ ParkBooks' /\ EpisodeBooks'
  <2>1. BooksType'
    BY FinishBooks
     DEF Inv, TypeOK, ControllerType, ParkTimeout, BeforeTimers, BeforePark, BeforeControl,
         InLoop, BooksType
  <2>2. ParkBooks'
    BY FinishBooks
     DEF Inv, TypeOK, ControllerType, ParkTimeout, BeforeTimers, BeforePark, BeforeControl,
         InLoop, ParkBooks
  <2>3. EpisodeBooks'
    BY FinishBooks
     DEF Inv, TypeOK, ControllerType, ParkTimeout, BeforeTimers, BeforePark, BeforeControl,
         InLoop, EpisodeBooks
  <2>4. QED
    BY <2>1, <2>2, <2>3
<1>3. RequestType'
  BY DEF Inv, TypeOK, RequestType, ParkTimeout
<1>4. SessionType'
  BY DEF Inv, TypeOK, SessionType, ParkTimeout
<1>5. TapType'
  BY DEF Inv, TypeOK, TapType, ParkTimeout
<1>6. RedialTimersArmed'
  BY DEF Inv, RedialTimersArmed, ParkTimeout
<1>7. QED
  BY <1>1, <1>2, <1>3, <1>4, <1>5, <1>6 DEF Inv, TypeOK

LEMMA RedialStep == ASSUME Inv, Redial PROVE Inv'
<1> USE DEF loopVars, bridgeVars, parkVars, redialVars, bookVars, handleVars, wireVars,
          tapRest, tapVars, promptVars, holdVars
<1>1. ControllerType'
  BY DEF Inv, TypeOK, ControllerType, Redial, Dial
<1>2. BooksType' /\ ParkBooks' /\ EpisodeBooks'
  BY BooksUntouched DEF Inv, TypeOK, Redial, InLoop
<1>3. RequestType'
  BY EmptyIsSeq DEF Inv, TypeOK, RequestType, Redial, Dial
<1>4. SessionType'
  BY DialType DEF Inv, TypeOK, SessionType, Redial, Url
<1>5. TapType'
  BY DEF Inv, TypeOK, TapType, Redial
<1>6. RedialTimersArmed'
  BY DEF Inv, RedialTimersArmed, Redial
<1>7. QED
  BY <1>1, <1>2, <1>3, <1>4, <1>5, <1>6 DEF Inv, TypeOK

LEMMA RedialRecoveredStep == ASSUME Inv, RedialRecovered PROVE Inv'
<1> USE DEF loopVars, bridgeVars, parkVars, redialVars, bookVars, handleVars, wireVars,
          tapRest, tapVars, promptVars, holdVars
<1>1. ControllerType'
  BY DEF Inv, TypeOK, ControllerType, RedialRecovered, NoSession
<1>2. BooksType' /\ ParkBooks' /\ EpisodeBooks'
  <2>1. BooksType'
    BY DEF Inv, TypeOK, BooksType, RedialRecovered
  <2>2. ParkBooks'
    BY DEF Inv, ParkBooks, RedialRecovered, InLoop
  <2>3. EpisodeBooks'
    BY DEF Inv, TypeOK, BooksType, EpisodeBooks, RedialRecovered, RedialReady, BeforeTimers,
           BeforePark, BeforeControl, InLoop
  <2>4. QED
    BY <2>1, <2>2, <2>3
<1>3. RequestType'
  BY DEF Inv, TypeOK, RequestType, RedialRecovered
<1>4. SessionType'
  BY DEF Inv, TypeOK, SessionType, RedialRecovered
<1>5. TapType'
  BY CommandTypes, TapSendType
   DEF Inv, TypeOK, TapType, RedialRecovered, ControllerType, NoSession
<1>6. RedialTimersArmed'
  BY DEF Inv, RedialTimersArmed, RedialRecovered
<1>7. QED
  BY <1>1, <1>2, <1>3, <1>4, <1>5, <1>6 DEF Inv, TypeOK

LEMMA RedialNotReadyStep == ASSUME Inv, RedialNotReady PROVE Inv'
<1> USE DEF loopVars, bridgeVars, parkVars, redialVars, bookVars, handleVars, wireVars,
          tapRest, tapVars, promptVars, holdVars
<1>1. ControllerType'
  BY DEF Inv, TypeOK, ControllerType, RedialNotReady, NoSession
<1>2. BooksType' /\ ParkBooks' /\ EpisodeBooks'
  BY BooksUntouched DEF Inv, TypeOK, RedialNotReady, InLoop
<1>3. RequestType'
  BY DEF Inv, TypeOK, RequestType, RedialNotReady
<1>4. SessionType'
  BY DEF Inv, TypeOK, SessionType, RedialNotReady
<1>5. TapType'
  BY DEF Inv, TypeOK, TapType, RedialNotReady
<1>6. RedialTimersArmed'
  BY DEF Inv, RedialTimersArmed, RedialNotReady
<1>7. QED
  BY <1>1, <1>2, <1>3, <1>4, <1>5, <1>6 DEF Inv, TypeOK

LEMMA WindowElapsedStep == ASSUME Inv, WindowElapsed PROVE Inv'
<1> USE DEF loopVars, bridgeVars, parkVars, redialVars, bookVars, handleVars, wireVars,
          tapRest, tapVars, promptVars, holdVars
<1>1. ControllerType'
  <2>1. reconnecting' = FALSE /\ reconnect_backoff_armed' = FALSE
    BY DEF WindowElapsed
  <2>2. /\ reconnect_deadline_armed' = FALSE /\ window_closed' = TRUE
        /\ UNCHANGED <<bridge_result, cur, bridge_alive, control_open, parked,
                       park_deadline_armed, held, reconnect_ready_rx, pending_unpark>>
    BY DEF WindowElapsed
  <2>3. CASE StartPrompt /\ UNCHANGED loopVars
    BY <2>1, <2>2, <2>3 DEF Inv, TypeOK, ControllerType
  <2>4. CASE Finish(bridge_termination(bridge_result))
    <3>1. pc' = "draining" /\ termination' \in CallTermination
      BY <2>4, FinishType, BridgeTerminationType
    <3>2. QED
      BY <2>1, <2>2, <3>1 DEF Inv, TypeOK, ControllerType
  <2>5. QED
    BY <2>3, <2>4 DEF WindowElapsed
<1>2. BooksType' /\ ParkBooks' /\ EpisodeBooks'
  <2>1. BooksType'
    BY FinishBooks
     DEF Inv, TypeOK, ControllerType, WindowElapsed, BeforeDeadline, BeforeTimers,
         BeforePark, BeforeControl, InLoop, BooksType
  <2>2. ParkBooks'
    BY FinishBooks
     DEF Inv, TypeOK, ControllerType, WindowElapsed, BeforeDeadline, BeforeTimers,
         BeforePark, BeforeControl, InLoop, ParkBooks
  <2>3. EpisodeBooks'
    BY FinishBooks
     DEF Inv, TypeOK, ControllerType, WindowElapsed, BeforeDeadline, BeforeTimers,
         BeforePark, BeforeControl, InLoop, EpisodeBooks, BooksType
  <2>4. QED
    BY <2>1, <2>2, <2>3
<1>3. RequestType'
  BY DEF Inv, TypeOK, RequestType, WindowElapsed
<1>4. SessionType'
  BY DEF Inv, TypeOK, SessionType, WindowElapsed
<1>5. TapType'
  BY CommandTypes, TapSendType DEF Inv, TypeOK, TapType, WindowElapsed, StartPrompt
<1>6. RedialTimersArmed'
  BY DEF Inv, RedialTimersArmed, WindowElapsed
<1>7. QED
  BY <1>1, <1>2, <1>3, <1>4, <1>5, <1>6 DEF Inv, TypeOK

LEMMA PromptOverStep == ASSUME Inv, PromptOver PROVE Inv'
<1> USE DEF loopVars, bridgeVars, parkVars, redialVars, bookVars, handleVars, wireVars,
          tapRest, tapVars, promptVars, holdVars
<1>1. ControllerType'
  BY FinishType, BridgeTerminationType DEF Inv, TypeOK, ControllerType, PromptOver
<1>2. BooksType' /\ ParkBooks' /\ EpisodeBooks'
  BY FinishBooks
   DEF Inv, TypeOK, ControllerType, PromptOver, InLoop, BeforeDeadline, BeforeTimers,
       BeforePark, BeforeControl
<1>3. RequestType'
  BY DEF Inv, TypeOK, RequestType, PromptOver
<1>4. SessionType'
  BY DEF Inv, TypeOK, SessionType, PromptOver
<1>5. TapType'
  BY DEF Inv, TypeOK, TapType, PromptOver
<1>6. RedialTimersArmed'
  BY DEF Inv, RedialTimersArmed, PromptOver
<1>7. QED
  BY <1>1, <1>2, <1>3, <1>4, <1>5, <1>6 DEF Inv, TypeOK

\* What every branch of the bridge arm does to the controller's locals.
LEMMA BridgeEndsType ==
  ASSUME Inv, BridgeEnds(sess[cur].result)
  PROVE  /\ bridge_result' \in DisconnectReason \cup {"none"} /\ bridge_alive' \in BOOLEAN
         /\ UNCHANGED <<cur, control_open, parked, park_deadline_armed, held>>
<1>1. sess[cur] \in SessionState
  BY DEF Inv, TypeOK, SessionType, ControllerType
<1>2. sess[cur].result \in DisconnectReason \cup {"none"}
  BY <1>1 DEF SessionState
<1>3. bridge_result' = sess[cur].result /\ bridge_alive' = FALSE
  BY DEF BridgeEnds
<1>4. UNCHANGED <<cur, control_open, parkVars, holdVars>>
  BY DEF BridgeEnds
<1>5. QED
  BY <1>2, <1>3, <1>4 DEF parkVars, holdVars

LEMMA DetachedSessionEndsStep == ASSUME Inv, DetachedSessionEnds PROVE Inv'
<1> USE DEF loopVars, bridgeVars, parkVars, redialVars, bookVars, handleVars, wireVars,
          tapRest, tapVars, promptVars, holdVars
<1>1. ControllerType'
  <2>1. UNCHANGED <<loopVars, redialVars>>
    BY DEF DetachedSessionEnds
  <2>2. /\ bridge_result' \in DisconnectReason \cup {"none"} /\ bridge_alive' \in BOOLEAN
        /\ UNCHANGED <<cur, control_open, parked, park_deadline_armed, held>>
    BY BridgeEndsType DEF DetachedSessionEnds
  <2>3. QED
    BY <2>1, <2>2 DEF Inv, TypeOK, ControllerType
<1>2. BooksType' /\ ParkBooks' /\ EpisodeBooks'
  BY BooksUntouched DEF Inv, TypeOK, DetachedSessionEnds, InLoop, BridgeEnds
<1>3. RequestType'
  BY DEF Inv, TypeOK, RequestType, DetachedSessionEnds, BridgeEnds
<1>4. SessionType'
  BY DEF Inv, TypeOK, SessionType, DetachedSessionEnds, BridgeEnds
<1>5. TapType'
  BY DEF Inv, TypeOK, TapType, DetachedSessionEnds, BridgeEnds
<1>6. RedialTimersArmed'
  BY DEF Inv, RedialTimersArmed, DetachedSessionEnds
<1>7. QED
  BY <1>1, <1>2, <1>3, <1>4, <1>5, <1>6 DEF Inv, TypeOK

LEMMA RedialFailedStep == ASSUME Inv, RedialFailed PROVE Inv'
<1> USE DEF loopVars, bridgeVars, parkVars, redialVars, bookVars, handleVars, wireVars,
          tapRest, tapVars, promptVars, holdVars
<1>1. ControllerType'
  BY BridgeEndsType DEF Inv, TypeOK, ControllerType, RedialFailed, NoSession
<1>2. BooksType' /\ ParkBooks' /\ EpisodeBooks'
  BY BooksUntouched DEF Inv, TypeOK, RedialFailed, InLoop, BridgeEnds
<1>3. RequestType'
  BY DEF Inv, TypeOK, RequestType, RedialFailed, BridgeEnds
<1>4. SessionType'
  BY DEF Inv, TypeOK, SessionType, RedialFailed, BridgeEnds
<1>5. TapType'
  BY DEF Inv, TypeOK, TapType, RedialFailed, BridgeEnds
<1>6. RedialTimersArmed'
  BY DEF Inv, RedialTimersArmed, RedialFailed
<1>7. QED
  BY <1>1, <1>2, <1>3, <1>4, <1>5, <1>6 DEF Inv, TypeOK

LEMMA SessionDropsStep == ASSUME Inv, SessionDrops PROVE Inv'
<1> USE DEF loopVars, bridgeVars, parkVars, redialVars, bookVars, handleVars, wireVars,
          tapRest, tapVars, promptVars, holdVars
<1>1. ControllerType'
  <2>1. pc' \in {"select", "hold_ack", "hold_reinvite", "resume_reinvite", "draining", "done"}
        /\ termination' \in CallTermination \cup {"none"}
    BY FinishType, BridgeTerminationType DEF Inv, TypeOK, ControllerType, SessionDrops
  <2>2. /\ reconnecting' \in BOOLEAN /\ reconnect_backoff_armed' \in BOOLEAN
        /\ reconnect_deadline_armed' \in BOOLEAN
        /\ UNCHANGED <<reconnect_ready_rx, pending_unpark, window_closed>>
    BY DEF Inv, TypeOK, ControllerType, SessionDrops
  <2>3. /\ bridge_result' \in DisconnectReason \cup {"none"} /\ bridge_alive' \in BOOLEAN
        /\ UNCHANGED <<cur, control_open, parked, park_deadline_armed, held>>
    BY BridgeEndsType DEF SessionDrops
  <2>4. QED
    BY <2>1, <2>2, <2>3 DEF Inv, TypeOK, ControllerType
<1>2. BooksType' /\ ParkBooks' /\ EpisodeBooks'
  <2>1. BooksType'
    BY FinishBooks
     DEF Inv, TypeOK, ControllerType, SessionDrops, BridgeEnds, BeforeBridge,
         BeforeDeadline, BeforeTimers, BeforePark, BeforeControl, InLoop, BooksType
  <2>2. ParkBooks'
    BY FinishBooks
     DEF Inv, TypeOK, ControllerType, SessionDrops, BridgeEnds, BeforeBridge,
         BeforeDeadline, BeforeTimers, BeforePark, BeforeControl, InLoop, ParkBooks
  <2>3. EpisodeBooks'
    BY FinishBooks
     DEF Inv, TypeOK, ControllerType, SessionDrops, BridgeEnds, BeforeBridge,
         BeforeDeadline, BeforeTimers, BeforePark, BeforeControl, InLoop, EpisodeBooks,
         BooksType
  <2>4. QED
    BY <2>1, <2>2, <2>3
<1>3. RequestType'
  BY DEF Inv, TypeOK, RequestType, SessionDrops, BridgeEnds
<1>4. SessionType'
  BY DEF Inv, TypeOK, SessionType, SessionDrops, BridgeEnds
<1>5. TapType'
  BY CommandTypes, TapSendType DEF Inv, TypeOK, TapType, SessionDrops, BridgeEnds
<1>6. RedialTimersArmed'
  BY DEF Inv, RedialTimersArmed, SessionDrops
<1>7. QED
  BY <1>1, <1>2, <1>3, <1>4, <1>5, <1>6 DEF Inv, TypeOK

LEMMA SessionLostStep == ASSUME Inv, SessionLost PROVE Inv'
<1> USE DEF loopVars, bridgeVars, parkVars, redialVars, bookVars, handleVars, wireVars,
          tapRest, tapVars, promptVars, holdVars
<1>1. ControllerType'
  <2>1. pc' \in {"select", "hold_ack", "hold_reinvite", "resume_reinvite", "draining", "done"}
        /\ termination' \in CallTermination \cup {"none"}
    BY FinishType, BridgeTerminationType DEF Inv, TypeOK, ControllerType, SessionLost
  <2>2. UNCHANGED redialVars
    BY DEF SessionLost
  <2>3. /\ bridge_result' \in DisconnectReason \cup {"none"} /\ bridge_alive' \in BOOLEAN
        /\ UNCHANGED <<cur, control_open, parked, park_deadline_armed, held>>
    BY BridgeEndsType DEF SessionLost
  <2>4. QED
    BY <2>1, <2>2, <2>3 DEF Inv, TypeOK, ControllerType
<1>2. BooksType' /\ ParkBooks' /\ EpisodeBooks'
  <2>1. BooksType'
    BY FinishBooks
     DEF Inv, TypeOK, ControllerType, SessionLost, BridgeEnds, BeforeBridge, BeforeDeadline,
         BeforeTimers, BeforePark, BeforeControl, InLoop, BooksType
  <2>2. ParkBooks'
    BY FinishBooks
     DEF Inv, TypeOK, ControllerType, SessionLost, BridgeEnds, BeforeBridge, BeforeDeadline,
         BeforeTimers, BeforePark, BeforeControl, InLoop, ParkBooks
  <2>3. EpisodeBooks'
    BY FinishBooks
     DEF Inv, TypeOK, ControllerType, SessionLost, BridgeEnds, BeforeBridge, BeforeDeadline,
         BeforeTimers, BeforePark, BeforeControl, InLoop, EpisodeBooks, BooksType
  <2>4. QED
    BY <2>1, <2>2, <2>3
<1>3. RequestType'
  BY DEF Inv, TypeOK, RequestType, SessionLost, BridgeEnds
<1>4. SessionType'
  BY DEF Inv, TypeOK, SessionType, SessionLost, BridgeEnds
<1>5. TapType'
  BY CommandTypes, TapSendType
   DEF Inv, TypeOK, TapType, SessionLost, BridgeEnds, StartPrompt
<1>6. RedialTimersArmed'
  BY DEF Inv, RedialTimersArmed, SessionLost
<1>7. QED
  BY <1>1, <1>2, <1>3, <1>4, <1>5, <1>6 DEF Inv, TypeOK

LEMMA TapEndedStep == ASSUME Inv, TapEnded PROVE Inv'
<1> USE DEF loopVars, bridgeVars, parkVars, redialVars, bookVars, handleVars, wireVars,
          tapRest, tapVars, promptVars, holdVars
<1>1. ControllerType'
  BY DEF Inv, TypeOK, ControllerType, TapEnded, Finish, CallTermination
<1>2. BooksType' /\ ParkBooks' /\ EpisodeBooks'
  BY FinishBooks
   DEF Inv, TypeOK, ControllerType, TapEnded, InLoop, BeforeTap, BeforeBridge,
       BeforeDeadline, BeforeTimers, BeforePark, BeforeControl
<1>3. RequestType'
  BY DEF Inv, TypeOK, RequestType, TapEnded
<1>4. SessionType'
  BY SendStopType DEF Inv, TypeOK, SessionType, TapEnded
<1>5. TapType'
  BY DEF Inv, TypeOK, TapType, TapEnded
<1>6. RedialTimersArmed'
  BY DEF Inv, RedialTimersArmed, TapEnded
<1>7. QED
  BY <1>1, <1>2, <1>3, <1>4, <1>5, <1>6 DEF Inv, TypeOK

LEMMA BridgeAbortedStep == ASSUME Inv, BridgeAborted PROVE Inv'
<1> USE DEF loopVars, bridgeVars, parkVars, redialVars, bookVars, handleVars, wireVars,
          tapRest, tapVars, promptVars, holdVars
<1>1. ControllerType'
  BY DEF Inv, TypeOK, ControllerType, BridgeAborted
<1>2. BooksType' /\ ParkBooks' /\ EpisodeBooks'
  BY BooksUntouched DEF Inv, TypeOK, BridgeAborted, InLoop
<1>3. RequestType'
  BY DEF Inv, TypeOK, RequestType, BridgeAborted
<1>4. SessionType'
  <2>1. sess[cur] \in SessionState /\ cur \in Session
    BY DEF Inv, TypeOK, SessionType, ControllerType
  <2>2. [sess[cur] EXCEPT !.phase = "ended", !.result = "aborted"] \in SessionState
    BY <2>1 DEF SessionState, Phase, DisconnectReason
  <2>3. QED
    BY <2>1, <2>2 DEF BridgeAborted, Inv, TypeOK, SessionType
<1>5. TapType'
  BY DEF Inv, TypeOK, TapType, BridgeAborted
<1>6. RedialTimersArmed'
  BY DEF Inv, RedialTimersArmed, BridgeAborted
<1>7. QED
  BY <1>1, <1>2, <1>3, <1>4, <1>5, <1>6 DEF Inv, TypeOK

LEMMA TapDrainedStep == ASSUME Inv, TapDrained PROVE Inv'
<1> USE DEF loopVars, bridgeVars, parkVars, redialVars, bookVars, handleVars, wireVars,
          tapRest, tapVars, promptVars, holdVars
<1>1. ControllerType'
  BY DEF Inv, TypeOK, ControllerType, TapDrained
<1>2. BooksType' /\ ParkBooks' /\ EpisodeBooks'
  BY BooksUntouched DEF Inv, TypeOK, TapDrained, InLoop
<1>3. RequestType'
  BY DEF Inv, TypeOK, RequestType, TapDrained
<1>4. SessionType'
  BY DEF Inv, TypeOK, SessionType, TapDrained
<1>5. TapType'
  BY EmptyIsSeq DEF Inv, TypeOK, TapType, TapDrained, TapDisconnect
<1>6. RedialTimersArmed'
  BY DEF Inv, RedialTimersArmed, TapDrained
<1>7. QED
  BY <1>1, <1>2, <1>3, <1>4, <1>5, <1>6 DEF Inv, TypeOK

LEMMA RunReturnsStep == ASSUME Inv, RunReturns PROVE Inv'
<1> USE DEF loopVars, bridgeVars, parkVars, redialVars, bookVars, handleVars, wireVars,
          tapRest, tapVars, promptVars, holdVars
<1>1. ControllerType'
  BY DEF Inv, TypeOK, ControllerType, RunReturns
<1>2. BooksType' /\ ParkBooks' /\ EpisodeBooks'
  BY BooksUntouched DEF Inv, TypeOK, RunReturns, InLoop
<1>3. RequestType'
  BY DEF Inv, TypeOK, RequestType, RunReturns
<1>4. SessionType'
  BY DEF Inv, TypeOK, SessionType, RunReturns
<1>5. TapType'
  BY DEF Inv, TypeOK, TapType, RunReturns
<1>6. RedialTimersArmed'
  BY DEF Inv, RedialTimersArmed, RunReturns
<1>7. QED
  BY <1>1, <1>2, <1>3, <1>4, <1>5, <1>6 DEF Inv, TypeOK

-----------------------------------------------------------------------------
LEMMA ControllerStep == ASSUME Inv, Controller PROVE Inv'
BY ShutdownStep, ServerHangupStep, ForwardToTapStep, ServerParkStep, ControlClosedStep,
   ServerHoldStep, HoldAckedStep, HoldRefusedStep, HoldReinviteDoneStep, ServerResumeStep,
   ResumeReinviteDoneStep, ParkCallStep, ParkRefusedStep, RetrieveCallStep,
   RetrieveIgnoredStep, ParkTimeoutStep, RedialStep, RedialRecoveredStep,
   RedialNotReadyStep, WindowElapsedStep, PromptOverStep, DetachedSessionEndsStep,
   RedialFailedStep, SessionDropsStep, SessionLostStep, TapEndedStep, BridgeAbortedStep,
   TapDrainedStep, RunReturnsStep
 DEF Controller

LEMMA StutterStep == ASSUME Inv, UNCHANGED vars PROVE Inv'
<1> USE DEF vars, loopVars, bridgeVars, parkVars, redialVars, bookVars, handleVars,
       wireVars, tapVars, promptVars, holdVars
<1>1. ControllerType' /\ BooksType' /\ ParkBooks' /\ EpisodeBooks' /\ RedialTimersArmed'
  BY ControllerUntouched DEF controllerLocals
<1>2. RequestType' /\ SessionType' /\ TapType'
  BY DEF Inv, TypeOK, RequestType, SessionType, TapType
<1>3. QED
  BY <1>1, <1>2 DEF Inv, TypeOK

LEMMA NextInv == ASSUME Inv, [Next]_vars PROVE Inv'
<1>1. CASE Controller
  BY <1>1, ControllerStep
<1>2. CASE RequestShutdown \/ \E c \in ParkCommand : OperatorAsks(c)
  BY <1>2, RequestStep
<1>3. CASE \E s \in Session : (InLoop \/ s = cur) /\ Bridge(s)
  BY <1>3, BridgeStep
<1>4. CASE \E m \in BridgeIn : BridgeHears(m)
  BY <1>4, HearStep
<1>5. CASE Tap
  BY <1>5, TapStep
<1>6. CASE UNCHANGED vars
  BY <1>6, StutterStep
<1>7. QED
  BY <1>1, <1>2, <1>3, <1>4, <1>5, <1>6 DEF Next, Over

\* The inductive invariant holds in every reachable state of every configuration.
THEOREM Invariance == Spec => []Inv
<1>1. Init => Inv
  BY InitInv
<1>2. Inv /\ [Next]_vars => Inv'
  BY NextInv
<1>3. QED
  BY <1>1, <1>2, PTL DEF Spec

\* Every channel, counter and local of the call keeps its type; in particular the
\* parked-calls gauge never goes below zero and what the tap is handed as a new session
\* is one.
THEOREM TypeCorrect == Spec => []TypeOK
<1>1. Inv => TypeOK
  BY DEF Inv
<1>2. QED
  BY <1>1, Invariance, PTL

\* Whatever ends a park (retrieve, timeout, BYE, drain, a reconnect window that closes
\* over it) the registry slot and the gauge are given back, and only then.
THEOREM ParkBooksKept == Spec => []ParkBooks
<1>1. Inv => ParkBooks
  BY DEF Inv
<1>2. QED
  BY <1>1, Invariance, PTL

\* Every reconnect episode is counted exactly once, whatever cuts it short; none runs
\* without its window, and no redial timer outside one (call.rs:2184).
THEOREM EpisodesSettled == Spec => []EpisodeSettled
<1>1. Inv => EpisodeSettled
  BY DEF Inv, EpisodeSettled
<1>2. QED
  BY <1>1, Invariance, PTL

-----------------------------------------------------------------------------
(***************************************************************************)
(* Sessions, redials and audio.  Park and reconnect use the same two tap   *)
(* commands and the same session slot without knowing of each other; what  *)
(* follows holds of a call that is never in both at once (the README says  *)
(* what happens to one that is), and so of every call that has at most one *)
(* of the two features.                                                    *)
(***************************************************************************)
Apart == ~(parked /\ reconnecting)
OneFeature == ~(ParkEnabled /\ ReconnectEnabled)

\* What a call does was configured.
Features == (parked => ParkEnabled) /\ (reconnecting => ReconnectEnabled)

\* The session, redial and prompt state, and how the call ended.
core == <<termination, bridge_result, cur, bridge_alive, parked, redialVars,
          episodes, recovered, exhausted, sess, promptVars>>

\* The arms that leave all of it alone.
Minor ==
  \/ ForwardToTap \/ ServerPark \/ ControlClosed
  \/ ServerHold \/ HoldAcked \/ HoldRefused \/ HoldReinviteDone
  \/ ServerResume \/ ResumeReinviteDone
  \/ ParkRefused \/ RetrieveIgnored \/ TapDrained \/ RunReturns

\* The arms that break the loop, whatever else is going on.
Breaks ==
  \/ Shutdown \/ ServerHangup \/ TapEnded \/ PromptOver
  \/ ParkTimeout /\ ParkTimeoutAction # "keep"

\* The world outside the three tasks, and the steps in which nothing happens.
Outside ==
  \/ RequestShutdown \/ \E c \in ParkCommand : OperatorAsks(c)
  \/ \E m \in BridgeIn : BridgeHears(m)
  \/ UNCHANGED vars

-----------------------------------------------------------------------------
(* What the steps leave alone *)

LEMMA MinorTouches ==
  ASSUME Inv, Minor
  PROVE  UNCHANGED core /\ InLoop' = InLoop
<1> USE DEF core, redialVars, promptVars, InLoop
<1>1. CASE ForwardToTap \/ ServerPark \/ ControlClosed
  BY <1>1 DEF ForwardToTap, ServerPark, ControlClosed, loopVars, bridgeVars, parkVars, bookVars
<1>2. CASE ServerHold \/ HoldAcked
  BY <1>2 DEF ServerHold, HoldAcked, ServerSaid, BeforeControl, bridgeVars, parkVars, bookVars
<1>3. CASE HoldRefused \/ HoldReinviteDone
  BY <1>3 DEF HoldRefused, HoldReinviteDone, bridgeVars, parkVars, bookVars
<1>4. CASE ServerResume \/ ResumeReinviteDone
  BY <1>4 DEF ServerResume, ResumeReinviteDone, ServerSaid, BeforeControl, bridgeVars,
              parkVars, bookVars
<1>5. CASE ParkRefused \/ RetrieveIgnored
  BY <1>5 DEF ParkRefused, RetrieveIgnored, loopVars, bridgeVars, parkVars, bookVars, tapVars
<1>6. CASE TapDrained \/ RunReturns
  BY <1>6 DEF TapDrained, RunReturns, loopVars, bridgeVars, parkVars, bookVars
<1> QED BY <1>1, <1>2, <1>3, <1>4, <1>5, <1>6 DEF Minor

LEMMA BreaksTouch ==
  ASSUME Inv, Breaks
  PROVE  /\ pc = "select" /\ pc' = "draining" /\ ~InLoop'
         /\ UNCHANGED <<bridgeVars, parked, redialVars, tapVars, holdVars>>
         /\ sess' = sess \/ SendStop
         /\ ParkTimeout \/ Shutdown \/ ServerHangup \/ TapEnded \/ PromptOver
<1> USE DEF InLoop, Finish, BeforeDeadline, BeforeTimers, BeforePark, BeforeControl, parkVars
<1>1. CASE Shutdown
  BY <1>1 DEF Shutdown
<1>2. CASE ServerHangup
  BY <1>2 DEF ServerHangup, ServerSaid
<1>3. CASE TapEnded
  BY <1>3 DEF TapEnded, BeforeTap, BeforeBridge
<1>4. CASE PromptOver
  BY <1>4 DEF PromptOver
<1>5. CASE ParkTimeout /\ ParkTimeoutAction # "keep"
  BY <1>5 DEF ParkTimeout
<1> QED BY <1>1, <1>2, <1>3, <1>4, <1>5 DEF Breaks

LEMMA OutsideTouches ==
  ASSUME Outside
  PROVE  UNCHANGED <<core, controllerLocals, sess, tapVars, promptVars, holdVars>>
<1> USE DEF core, controllerLocals, loopVars, bridgeVars, parkVars, redialVars, bookVars,
            promptVars
<1>1. CASE RequestShutdown \/ \E c \in ParkCommand : OperatorAsks(c)
  BY <1>1 DEF RequestShutdown, OperatorAsks
<1>2. CASE \E m \in BridgeIn : BridgeHears(m)
  BY <1>2 DEF BridgeHears, bridgeRest
<1>3. CASE UNCHANGED vars
  BY <1>3 DEF vars, tapVars, holdVars
<1> QED BY <1>1, <1>2, <1>3 DEF Outside

\* A session's task moves its own session on, towards its end.
LEMMA BridgeTouches ==
  ASSUME Inv, NEW s \in Session, Bridge(s)
  PROVE  /\ UNCHANGED <<controllerLocals, tapVars, promptVars, holdVars>>
         /\ \A q \in Session : q # s => sess'[q] = sess[q]
         /\ sess'[s].stop = sess[s].stop
         /\ sess[s].phase \in {"dialing", "live"} /\ sess'[s].phase \in {"live", "ended"}
<1>1. sess \in [Session -> SessionState]
  BY DEF Inv, TypeOK, SessionType
<1>2. CASE BridgeConnects(s)
  BY <1>1, <1>2 DEF BridgeConnects, bridgeRest, SessionState
<1>3. ASSUME NEW r, EndSession(s, r), sess[s].phase \in {"dialing", "live"}
      PROVE  /\ UNCHANGED <<controllerLocals, tapVars, promptVars, holdVars>>
             /\ \A q \in Session : q # s => sess'[q] = sess[q]
             /\ sess'[s].stop = sess[s].stop /\ sess'[s].phase = "ended"
  BY <1>1, <1>3 DEF EndSession, bridgeRest, SessionState
<1>4. CASE BridgeConnectFails(s)
  BY <1>3, <1>4 DEF BridgeConnectFails
<1>5. CASE BridgeSendsStop(s)
  BY <1>3, <1>5 DEF BridgeSendsStop
<1>6. CASE BridgeOrphaned(s)
  BY <1>3, <1>6 DEF BridgeOrphaned
<1>7. CASE \E r \in DisconnectReason : BridgeBreaks(s, r)
  BY <1>3, <1>7 DEF BridgeBreaks
<1> QED BY <1>2, <1>4, <1>5, <1>6, <1>7 DEF Bridge

LEMMA TapTouches ==
  ASSUME Inv, Tap
  PROVE  /\ UNCHANGED <<controllerLocals, sess, prompts, held, holds>>
         /\ ws_prompt' = "none" <=> ws_prompt = "none"
         /\ tap = "running" /\ InLoop
<1> USE DEF tapRestOfCall, AnnounceEnd, ResolvePrompt, TapRuns
<1>1. CASE TapSeesDrop \/ FrameFails
  BY <1>1 DEF TapSeesDrop, FrameFails, ForwardsFrames, TapEnds, promptVars, holdVars
<1>2. CASE FrameWaits \/ FrameSent \/ PromptPlayed
  BY <1>2 DEF FrameWaits, FrameSent, PromptPlayed, ForwardsFrames, promptVars, holdVars
<1>3. CASE \E r \in TapDisconnect : MediaEnds(r)
  BY <1>3 DEF MediaEnds, TapEnds
<1>4. CASE TapCommands
  <2>1. UNCHANGED <<controllerLocals, sess, prompts, held, holds>> /\ TapRuns
    BY <1>4 DEF TapCommands, TapParks, TapUnparks, TapHolds, TapUnholds, TapAnnounces,
                TapTakesOther, TapTakes
  <2>2. ws_prompt' = "none" <=> ws_prompt = "none"
    BY <1>4 DEF TapCommands, TapParks, TapUnparks, TapHolds, TapUnholds, TapAnnounces,
                TapTakesOther
  <2> QED BY <2>1, <2>2
<1> QED BY <1>1, <1>2, <1>3, <1>4 DEF Tap

\* Every step is one of these.
LEMMA Steps ==
  ASSUME [Next]_vars
  PROVE  \/ Minor \/ Breaks \/ Outside \/ Tap \/ \E s \in Session : Bridge(s)
         \/ ParkTimeout /\ ParkTimeoutAction = "keep"
         \/ ParkCall \/ RetrieveCall \/ Redial \/ RedialRecovered \/ RedialNotReady
         \/ WindowElapsed
         \/ DetachedSessionEnds \/ RedialFailed \/ SessionDrops \/ SessionLost
         \/ BridgeAborted
BY DEF Next, Controller, Minor, Breaks, Outside, Over

-----------------------------------------------------------------------------
(* One session at a time *)

LEMMA FeaturesInit == ASSUME Init PROVE Features
BY DEF Init, Features

LEMMA FeaturesStep == ASSUME Inv, Features, [Next]_vars PROVE Features'
<1> USE DEF Features
<1>1. CASE Minor
  BY <1>1, MinorTouches DEF core, redialVars
<1>2. CASE Breaks
  BY <1>2, BreaksTouch DEF redialVars
<1>3. CASE Outside \/ Tap \/ \E s \in Session : Bridge(s)
  <2>1. UNCHANGED controllerLocals
    BY <1>3, OutsideTouches, TapTouches, BridgeTouches
  <2> QED BY <2>1 DEF controllerLocals, parkVars, redialVars
<1>4. CASE ParkTimeout /\ ParkTimeoutAction = "keep"
  BY <1>4 DEF ParkTimeout, redialVars
<1>5. CASE ParkCall \/ RetrieveCall \/ Redial
  BY <1>5 DEF ParkCall, RetrieveCall, Redial, parkVars, redialVars
<1>6. CASE RedialRecovered \/ RedialNotReady \/ WindowElapsed
  BY <1>6 DEF RedialRecovered, RedialNotReady, WindowElapsed, parkVars
<1>7. CASE DetachedSessionEnds \/ RedialFailed \/ SessionDrops \/ SessionLost
  BY <1>7 DEF DetachedSessionEnds, RedialFailed, SessionDrops, SessionLost, BridgeEnds,
              parkVars, redialVars
<1>8. CASE BridgeAborted
  BY <1>8 DEF BridgeAborted, parkVars, redialVars
<1> QED BY <1>1, <1>2, <1>3, <1>4, <1>5, <1>6, <1>7, <1>8, Steps

\* A session that is still up has been told to stop.
Closing(s) == sess[s].phase \in {"dialing", "live"} => sess[s].stop

\* What OneLiveSession rests on: whoever dials has first told the current session to stop,
\* or has seen it end.
SessionBooks ==
  /\ OneLiveSession
  /\ parked => Closing(cur)
  /\ reconnecting /\ reconnect_backoff_armed => Ended(cur)

\* No session comes back to life, and none that was told to stop is told otherwise.
Nearer ==
  \A s \in Session :
    /\ sess'[s].phase \in {"dialing", "live"} => sess[s].phase \in {"dialing", "live"}
    /\ sess[s].stop => sess'[s].stop
    /\ Ended(s) => Ended(s)'

LEMMA NearerKeeps ==
  ASSUME Inv, SessionBooks, Nearer, cur' = cur,
         parked' => parked \/ Closing(cur)',
         (reconnecting /\ reconnect_backoff_armed)'
           => (reconnecting /\ reconnect_backoff_armed) \/ Ended(cur)'
  PROVE  SessionBooks'
<1>1. cur \in Session
  BY DEF Inv, TypeOK, ControllerType
<1>2. OneLiveSession'
  BY DEF SessionBooks, OneLiveSession, Nearer
<1>3. Closing(cur) => Closing(cur)'
  BY <1>1 DEF Nearer, Closing
<1>4. Ended(cur) => Ended(cur)'
  BY <1>1 DEF Nearer
<1> QED BY <1>2, <1>3, <1>4 DEF SessionBooks

LEMMA SameSessions == ASSUME sess' = sess PROVE Nearer
BY DEF Nearer, Ended

LEMMA SendStopNearer ==
  ASSUME Inv, SendStop
  PROVE  Nearer /\ (sess[cur].phase \in {"dialing", "live"} => sess'[cur].stop)
         /\ \A s \in Session : sess'[s].phase = sess[s].phase
<1>1. sess \in [Session -> SessionState] /\ cur \in Session
  BY DEF Inv, TypeOK, SessionType, ControllerType
<1>2. \A s \in Session : sess'[s] = IF s = cur THEN [sess[s] EXCEPT
                           !.stop = @ \/ sess[s].phase \in {"dialing", "live"}] ELSE sess[s]
  BY <1>1 DEF SendStop
<1>3. \A s \in Session : /\ sess'[s].phase = sess[s].phase
                         /\ sess[s].stop => sess'[s].stop
                         /\ s = cur /\ sess[s].phase \in {"dialing", "live"} => sess'[s].stop
  BY <1>1, <1>2 DEF SessionState
<1> QED BY <1>1, <1>3 DEF Nearer, Ended

LEMMA BridgeNearer == ASSUME Inv, NEW s \in Session, Bridge(s) PROVE Nearer
<1>1. /\ \A q \in Session : q # s => sess'[q] = sess[q]
      /\ sess'[s].stop = sess[s].stop
      /\ sess[s].phase \in {"dialing", "live"} /\ sess'[s].phase \in {"live", "ended"}
  BY BridgeTouches
<1> QED BY <1>1 DEF Nearer, Ended

\* A dial is safe when the session it replaces is being closed.
LEMMA DialKeepsOne ==
  ASSUME Inv, OneLiveSession, Closing(cur), NEW url \in Url, Dial(url)
  PROVE  OneLiveSession'
<1>1. cur' = cur + 1 /\ sess' = [sess EXCEPT ![cur + 1] = Fresh("dialing", url)]
  BY DEF Dial
<1>2. \A s \in Session : s # cur' => sess'[s] = sess[s]
  BY <1>1 DEF Inv, TypeOK, SessionType
<1>3. \A s \in Session : sess[s].phase \in {"dialing", "live"} => s = cur \/ sess[s].stop
  BY DEF OneLiveSession
<1>4. sess[cur].phase \in {"dialing", "live"} => sess[cur].stop
  BY DEF Closing
<1> QED BY <1>2, <1>3, <1>4 DEF OneLiveSession

LEMMA SessionInit == ASSUME Init PROVE SessionBooks
<1>1. \A s \in Session : s # 1 => sess[s].phase = "unused"
  BY DEF Init, Fresh
<1> QED BY <1>1 DEF Init, SessionBooks, OneLiveSession

LEMMA SessionStep ==
  ASSUME Apart, Inv, SessionBooks, [Next]_vars
  PROVE  SessionBooks'
<1> USE DEF redialVars
<1>1. CASE Minor
  BY <1>1, MinorTouches, SameSessions, NearerKeeps DEF core
<1>2. CASE Breaks
  BY <1>2, BreaksTouch, SameSessions, SendStopNearer, NearerKeeps DEF bridgeVars
<1>3. CASE Outside \/ Tap
  <2>1. UNCHANGED <<controllerLocals, sess>>
    BY <1>3, OutsideTouches, TapTouches
  <2> QED BY <2>1, SameSessions, NearerKeeps DEF controllerLocals, bridgeVars, parkVars
<1>4. CASE \E s \in Session : Bridge(s)
  <2>1. UNCHANGED controllerLocals /\ Nearer
    BY <1>4, BridgeTouches, BridgeNearer
  <2> QED BY <2>1, NearerKeeps DEF controllerLocals, bridgeVars, parkVars
<1>5. CASE ParkTimeout /\ ParkTimeoutAction = "keep"
  <2>1. UNCHANGED <<sess, cur, parked, redialVars>>
    BY <1>5 DEF ParkTimeout, bridgeVars
  <2> QED BY <2>1, SameSessions, NearerKeeps
<1>6. CASE ParkCall
  <2>1. SendStop /\ UNCHANGED <<cur, redialVars>> /\ cur \in Session
    BY <1>6 DEF ParkCall, bridgeVars, Inv, TypeOK, ControllerType
  <2>2. Nearer /\ Closing(cur)'
    BY <2>1, SendStopNearer DEF Closing
  <2> QED BY <2>1, <2>2, NearerKeeps
<1>7. CASE RetrieveCall
  <2>1. /\ Dial("configured") \/ Dial("operator")
        /\ parked /\ ~parked' /\ UNCHANGED redialVars
    BY <1>7 DEF RetrieveCall
  <2>2. OneLiveSession'
    BY <2>1, DialKeepsOne DEF SessionBooks, Url
  <2>3. ~reconnecting'
    BY <2>1 DEF Apart
  <2> QED BY <2>1, <2>2, <2>3 DEF SessionBooks
<1>8. CASE Redial
  <2>1. /\ Dial("configured") /\ reconnecting /\ reconnect_backoff_armed
        /\ ~reconnect_backoff_armed' /\ parked' = parked
    BY <1>8 DEF Redial, parkVars
  <2>2. Closing(cur)
    BY <2>1 DEF SessionBooks, Closing, Ended
  <2>3. OneLiveSession'
    BY <2>1, <2>2, DialKeepsOne DEF SessionBooks, Url
  <2>4. ~parked'
    BY <2>1 DEF Apart
  <2> QED BY <2>1, <2>3, <2>4 DEF SessionBooks
<1>9. CASE RedialRecovered \/ RedialNotReady \/ WindowElapsed
  <2>1. /\ UNCHANGED <<sess, cur, parked>>
        /\ ~reconnecting' \/ UNCHANGED <<reconnecting, reconnect_backoff_armed>>
    BY <1>9 DEF RedialRecovered, RedialNotReady, WindowElapsed, bridgeVars, parkVars
  <2> QED BY <2>1, SameSessions, NearerKeeps
<1>10. CASE DetachedSessionEnds \/ RedialFailed \/ SessionDrops \/ SessionLost
  <2>1. UNCHANGED <<sess, cur, parked>> /\ Ended(cur)
    BY <1>10 DEF DetachedSessionEnds, RedialFailed, SessionDrops, SessionLost, BridgeEnds,
                 BridgeReady, parkVars
  <2>2. Ended(cur)'
    BY <2>1 DEF Ended
  <2> QED BY <2>1, <2>2, SameSessions, NearerKeeps
<1>11. CASE BridgeAborted
  <2>1. /\ sess' = [sess EXCEPT ![cur].phase = "ended", ![cur].result = "aborted"]
        /\ UNCHANGED <<cur, parked, redialVars>>
    BY <1>11 DEF BridgeAborted, bridgeVars, parkVars
  <2>2. sess \in [Session -> SessionState] /\ cur \in Session
    BY DEF Inv, TypeOK, SessionType, ControllerType
  <2>3. Nearer
    BY <2>1, <2>2 DEF Nearer, Ended, SessionState
  <2> QED BY <2>1, <2>3, NearerKeeps
<1> QED BY <1>1, <1>2, <1>3, <1>4, <1>5, <1>6, <1>7, <1>8, <1>9, <1>10, <1>11, Steps

-----------------------------------------------------------------------------
(* The redial *)

LEMMA RedialStalls ==
  ASSUME Apart, Inv, RedialNeverStalls, [Next]_vars
  PROVE  RedialNeverStalls'
<1> USE DEF redialVars, RedialNeverStalls
<1>0. ~(parked /\ reconnecting)
  BY DEF Apart
<1>1. CASE Minor
  BY <1>1, MinorTouches DEF core
<1>2. CASE Breaks
  BY <1>2, BreaksTouch
<1>3. CASE Outside \/ Tap \/ \E s \in Session : Bridge(s)
  <2>1. UNCHANGED controllerLocals
    BY <1>3, OutsideTouches, TapTouches, BridgeTouches
  <2> QED BY <2>1 DEF controllerLocals, bridgeVars, loopVars, InLoop
<1>4. CASE ParkTimeout /\ ParkTimeoutAction = "keep"
  BY <1>4 DEF ParkTimeout, bridgeVars, loopVars, InLoop
<1>5. CASE ParkCall \/ RetrieveCall \/ DetachedSessionEnds
  <2>1. UNCHANGED <<redialVars, loopVars>>
    BY <1>5 DEF ParkCall, RetrieveCall, DetachedSessionEnds
  <2>2. CASE ParkCall
    BY <2>1, <2>2 DEF ParkCall, bridgeVars, loopVars, InLoop
  <2>3. CASE RetrieveCall \/ DetachedSessionEnds
    BY <1>0, <2>1, <2>3 DEF RetrieveCall, DetachedSessionEnds
  <2> QED BY <1>5, <2>2, <2>3
<1>6. CASE Redial
  BY <1>6 DEF Redial, Dial
<1>7. CASE RedialRecovered \/ WindowElapsed
  BY <1>7 DEF RedialRecovered, WindowElapsed
<1>8. CASE RedialNotReady
  BY <1>8 DEF RedialNotReady, bridgeVars, loopVars, InLoop
<1>9. CASE RedialFailed
  BY <1>9 DEF RedialFailed
<1>10. CASE SessionDrops
  BY <1>10 DEF SessionDrops, Finish, InLoop
<1>11. CASE SessionLost
  BY <1>11 DEF SessionLost
<1>12. CASE BridgeAborted
  BY <1>12 DEF BridgeAborted, bridgeVars, loopVars, InLoop
<1> QED BY <1>1, <1>2, <1>3, <1>4, <1>5, <1>6, <1>7, <1>8, <1>9, <1>10, <1>11, <1>12, Steps

-----------------------------------------------------------------------------
(* Giving up *)

\* The tap takes its commands as fast as they come: none is refused for want of room.
KeepsUp == Len(tap_cmds) < TapQueueCap

\* The failure prompt of a call that may redial comes after a window, or after an end that
\* is not to be redialled; then nothing is dialled any more.
PromptBooks ==
  ReconnectEnabled /\ InLoop /\ ws_prompt # "none" =>
    \/ window_closed
    \/ ~bridge_alive /\ ~reconnecting /\ ~reconnect_eligible(bridge_result)

GiveUpBooks == GivesUpAfterWindow /\ PromptBooks

LEMMA DropTermination ==
  \A r : bridge_termination(r) = "WsDisconnect" <=> reconnect_eligible(r)
BY DEF bridge_termination, reconnect_eligible

LEMMA GiveUpInit == ASSUME Init PROVE GiveUpBooks
BY DEF Init, GiveUpBooks, GivesUpAfterWindow, PromptBooks

\* What neither ends the loop nor moves the books of the prompt.
LEMMA GiveUpUntouched ==
  ASSUME Inv, GiveUpBooks,
         UNCHANGED <<termination, window_closed, bridge_alive, bridge_result, reconnecting>>,
         InLoop' => InLoop, tap # "running" => tap' # "running",
         InLoop' /\ ws_prompt' # "none" => ws_prompt # "none"
  PROVE  GiveUpBooks'
BY DEF GiveUpBooks, GivesUpAfterWindow, PromptBooks

LEMMA GiveUpStep ==
  ASSUME OneFeature, Inv, Features, KeepsUp, GiveUpBooks, [Next]_vars
  PROVE  GiveUpBooks'
<1> USE DEF redialVars, promptVars
<1>0. (reconnecting \/ ReconnectEnabled) => ~parked
  BY DEF OneFeature, Features
<1>1. CASE Minor
  <2>1. UNCHANGED core /\ InLoop' = InLoop
    BY <1>1, MinorTouches
  <2>2. tap # "running" => tap' # "running"
    BY <1>1 DEF Minor, ForwardToTap, ServerPark, ControlClosed, ServerHold, HoldAcked,
       HoldRefused, HoldReinviteDone, ServerResume, ResumeReinviteDone, ParkRefused,
       RetrieveIgnored, TapDrained, RunReturns, tapVars, tapRest
  <2> QED BY <2>1, <2>2, GiveUpUntouched DEF core
<1>2. CASE Breaks
  <2>1. ~InLoop' /\ tap' = tap /\ InLoop
    BY <1>2, BreaksTouch DEF tapVars, InLoop
  <2>2. CASE PromptOver
    <3>1. /\ ws_prompt # "none" /\ termination' = bridge_termination(bridge_result)
          /\ window_closed' = window_closed
      BY <2>2 DEF PromptOver, Finish
    <3> QED BY <1>0, <2>1, <3>1, DropTermination
            DEF GiveUpBooks, PromptBooks, GivesUpAfterWindow
  <2>3. CASE ~PromptOver
    <3>1. termination' # "WsDisconnect"
      BY <1>2, <2>3 DEF Breaks, Shutdown, ServerHangup, TapEnded, ParkTimeout, Finish
    <3> QED BY <2>1, <3>1 DEF GiveUpBooks, PromptBooks, GivesUpAfterWindow
  <2> QED BY <2>2, <2>3
<1>3. CASE Outside
  <2>1. UNCHANGED <<controllerLocals, tap, ws_prompt>>
    BY <1>3, OutsideTouches DEF tapVars
  <2> QED BY <2>1, GiveUpUntouched
          DEF controllerLocals, bridgeVars, loopVars, bookVars, InLoop
<1>4. CASE Tap
  <2>1. UNCHANGED controllerLocals /\ (ws_prompt' = "none" <=> ws_prompt = "none")
        /\ tap = "running"
    BY <1>4, TapTouches
  <2> QED BY <2>1, GiveUpUntouched
          DEF controllerLocals, bridgeVars, loopVars, bookVars, InLoop
<1>5. CASE \E s \in Session : Bridge(s)
  <2>1. UNCHANGED <<controllerLocals, tap, ws_prompt>>
    BY <1>5, BridgeTouches DEF tapVars
  <2> QED BY <2>1, GiveUpUntouched
          DEF controllerLocals, bridgeVars, loopVars, bookVars, InLoop
<1>6. CASE ParkTimeout /\ ParkTimeoutAction = "keep"
  BY <1>6, GiveUpUntouched DEF ParkTimeout, bridgeVars, loopVars, bookVars, InLoop, tapVars
<1>7. CASE ParkCall
  BY <1>7, GiveUpUntouched DEF ParkCall, bridgeVars, loopVars, InLoop, tapRest
<1>8. CASE RetrieveCall
  <2>1. parked /\ UNCHANGED <<loopVars, tap>>
    BY <1>8 DEF RetrieveCall, tapRest
  <2>2. ~ReconnectEnabled
    BY <1>0, <2>1
  <2> QED BY <2>2 DEF GiveUpBooks, GivesUpAfterWindow, PromptBooks
<1>9. CASE Redial
  <2>1. /\ reconnecting /\ UNCHANGED <<loopVars, window_closed, tap, ws_prompt, bridge_result>>
        /\ reconnecting' = reconnecting
    BY <1>9 DEF Redial, Dial, tapVars
  <2> QED BY <2>1 DEF GiveUpBooks, GivesUpAfterWindow, PromptBooks, loopVars, bookVars, InLoop
<1>10. CASE RedialRecovered
  <2>1. reconnecting /\ UNCHANGED <<loopVars, bridgeVars, window_closed, tap, ws_prompt>>
    BY <1>10 DEF RedialRecovered, RedialReady, tapRest
  <2> QED BY <2>1 DEF GiveUpBooks, GivesUpAfterWindow, PromptBooks, loopVars, bridgeVars, InLoop
<1>11. CASE RedialNotReady
  BY <1>11, GiveUpUntouched DEF RedialNotReady, bridgeVars, loopVars, bookVars, InLoop, tapVars
<1>12. CASE WindowElapsed
  <2>1. window_closed'
    BY <1>12 DEF WindowElapsed
  <2> QED BY <2>1 DEF GiveUpBooks, GivesUpAfterWindow, PromptBooks
<1>13. CASE DetachedSessionEnds
  <2>1. parked /\ UNCHANGED <<loopVars, tap>>
    BY <1>13 DEF DetachedSessionEnds, BridgeEnds, tapRest, bookVars
  <2>2. ~ReconnectEnabled
    BY <1>0, <2>1
  <2> QED BY <2>2 DEF GiveUpBooks, GivesUpAfterWindow, PromptBooks
<1>14. CASE RedialFailed
  <2>1. /\ reconnecting /\ UNCHANGED <<loopVars, window_closed, tap, ws_prompt>>
    BY <1>14 DEF RedialFailed, BridgeEnds, tapRest
  <2> QED BY <2>1 DEF GiveUpBooks, GivesUpAfterWindow, PromptBooks, loopVars, bookVars, InLoop
<1>15. CASE SessionDrops
  <2>0. bridge_alive /\ ~reconnecting /\ pc = "select" /\ UNCHANGED <<tap, ws_prompt>>
    BY <1>15 DEF SessionDrops, BridgeEnds, BridgeReady, BeforeBridge, BeforeDeadline,
                 BeforeTimers, BeforePark, BeforeControl, tapRest
  <2>1. CASE TapAccepts
    <3>1. UNCHANGED <<loopVars, window_closed>>
      BY <1>15, <2>1 DEF SessionDrops
    <3> QED BY <2>0, <3>1 DEF GiveUpBooks, GivesUpAfterWindow, PromptBooks, loopVars, InLoop
  <2>2. CASE ~TapAccepts
    <3>1. tap' # "running"
      BY <2>0, <2>2 DEF TapAccepts, KeepsUp
    <3>2. ~InLoop'
      BY <1>15, <2>2 DEF SessionDrops, Finish, InLoop
    <3> QED BY <3>1, <3>2 DEF GiveUpBooks, GivesUpAfterWindow, PromptBooks
  <2> QED BY <2>1, <2>2
<1>16. CASE SessionLost
  <2>0. /\ bridge_alive' = FALSE /\ bridge_result' = sess[cur].result
        /\ ~reconnecting' /\ tap' = tap /\ window_closed' = window_closed
        /\ ~(ReconnectEnabled /\ reconnect_eligible(sess[cur].result))
    BY <1>16 DEF SessionLost, BridgeEnds, tapRest
  <2>1. CASE Finish(bridge_termination(bridge_result'))
    <3>1. ~InLoop' /\ termination' = bridge_termination(sess[cur].result)
      BY <2>0, <2>1 DEF Finish, InLoop
    <3> QED BY <2>0, <3>1, DropTermination DEF GiveUpBooks, GivesUpAfterWindow, PromptBooks
  <2>2. CASE UNCHANGED <<loopVars, bookVars>>
    BY <2>0, <2>2 DEF GiveUpBooks, GivesUpAfterWindow, PromptBooks, loopVars, bookVars
  <2> QED BY <1>16, <2>1, <2>2 DEF SessionLost
<1>17. CASE BridgeAborted
  BY <1>17, GiveUpUntouched DEF BridgeAborted, bridgeVars, loopVars, bookVars, InLoop, tapVars
<1> QED BY <1>1, <1>2, <1>3, <1>4, <1>5, <1>6, <1>7, <1>8, <1>9, <1>10, <1>11, <1>12, <1>13,
           <1>14, <1>15, <1>16, <1>17, Steps

-----------------------------------------------------------------------------
(* The life of the call *)

\* The part of Lifecycle that says which mode may follow which.
LifecycleSafety == L!Init /\ [][L!Next]_callMode

LEMMA ModeStep ==
  ASSUME Apart, Apart', Inv, [Next]_vars
  PROVE  [L!Next]_callMode
<1> USE DEF callMode, L!Next, L!Park, L!Retrieve, L!Drop, L!Recover, L!Apologise, L!HangUp
<1>0. ~(parked /\ reconnecting)
  BY DEF Apart
<1>1. CASE Minor
  BY <1>1, MinorTouches DEF core, redialVars, promptVars
<1>2. CASE Breaks
  BY <1>2, BreaksTouch DEF InLoop
<1>3. CASE Outside \/ Tap \/ \E s \in Session : Bridge(s)
  <2>1. UNCHANGED controllerLocals /\ (ws_prompt' = "none" <=> ws_prompt = "none")
    BY <1>3, OutsideTouches, TapTouches, BridgeTouches DEF promptVars
  <2> QED BY <2>1 DEF controllerLocals, loopVars, parkVars, redialVars, InLoop
<1>4. CASE ParkTimeout /\ ParkTimeoutAction = "keep"
  BY <1>4 DEF ParkTimeout, loopVars, redialVars, promptVars, InLoop
<1>5. CASE ParkCall \/ RetrieveCall
  <2>1. UNCHANGED <<loopVars, redialVars, promptVars>> /\ parked' = ~parked
    BY <1>5 DEF ParkCall, RetrieveCall
  <2>2. InLoop' = InLoop /\ ~reconnecting
    BY <1>0, <1>5, <2>1 DEF Apart, ParkCall, RetrieveCall, loopVars, redialVars, InLoop
  <2> QED BY <2>1, <2>2 DEF redialVars, promptVars
<1>6. CASE Redial \/ RedialNotReady
  BY <1>6 DEF Redial, RedialNotReady, loopVars, parkVars, promptVars, InLoop
<1>7. CASE RedialRecovered
  <2>1. /\ reconnecting /\ ~reconnecting' /\ InLoop /\ InLoop'
        /\ UNCHANGED <<parked, ws_prompt>>
    BY <1>7 DEF RedialRecovered, RedialReady, BeforeTimers, BeforePark, BeforeControl,
                loopVars, parkVars, promptVars, InLoop
  <2> QED BY <1>0, <2>1
<1>8. CASE WindowElapsed
  <2>1. reconnecting /\ parked' = parked /\ InLoop
    BY <1>8 DEF WindowElapsed, BeforeDeadline, BeforeTimers, BeforePark, BeforeControl,
                parkVars, InLoop
  <2>2. ~InLoop' \/ ws_prompt' = "playing"
    BY <1>8 DEF WindowElapsed, StartPrompt, Finish, InLoop
  <2> QED BY <1>0, <2>1, <2>2
<1>9. CASE DetachedSessionEnds \/ RedialFailed
  BY <1>9 DEF DetachedSessionEnds, RedialFailed, BridgeEnds, loopVars, parkVars, redialVars,
              promptVars, InLoop
<1>10. CASE SessionDrops
  <2>1. /\ ~parked /\ ~parked' /\ ~reconnecting /\ ws_prompt' = ws_prompt /\ InLoop
    BY <1>10 DEF SessionDrops, BridgeEnds, BeforeBridge, BeforeDeadline, BeforeTimers,
                 BeforePark, BeforeControl, parkVars, promptVars, InLoop
  <2> QED BY <2>1
<1>11. CASE SessionLost
  <2>1. /\ ~parked /\ ~parked' /\ ~reconnecting /\ ~reconnecting' /\ InLoop
    BY <1>11 DEF SessionLost, BridgeEnds, BeforeBridge, BeforeDeadline, BeforeTimers,
                 BeforePark, BeforeControl, parkVars, redialVars, InLoop
  <2>2. ~InLoop' \/ ws_prompt' = "playing"
    BY <1>11 DEF SessionLost, StartPrompt, Finish, InLoop
  <2> QED BY <2>1, <2>2
<1>12. CASE BridgeAborted
  BY <1>12 DEF BridgeAborted, loopVars, parkVars, redialVars, promptVars, InLoop
<1> QED BY <1>1, <1>2, <1>3, <1>4, <1>5, <1>6, <1>7, <1>8, <1>9, <1>10, <1>11, <1>12, Steps

-----------------------------------------------------------------------------
(* The tap command queue *)

\* The places of the queue of tap commands, oldest first.
Places == 1 .. Len(tap_cmds)

LEMMA QueueAppend ==
  ASSUME Inv, NEW c, tap_cmds' = Append(tap_cmds, c)
  PROVE  /\ Len(tap_cmds) \in Nat /\ Len(tap_cmds') = Len(tap_cmds) + 1
         /\ tap_cmds'[Len(tap_cmds) + 1] = c
         /\ \A k \in Places : tap_cmds'[k] = tap_cmds[k]
BY DEF Inv, TypeOK, TapType, Places

LEMMA QueueTail ==
  ASSUME Inv, tap_cmds # <<>>, tap_cmds' = Tail(tap_cmds)
  PROVE  /\ Len(tap_cmds) \in Nat \ {0} /\ Len(tap_cmds') = Len(tap_cmds) - 1
         /\ \A k \in Places' : tap_cmds'[k] = tap_cmds[k + 1]
         /\ Head(tap_cmds) = tap_cmds[1]
<1>1. tap_cmds \in Seq(TapCommand)
  BY DEF Inv, TypeOK, TapType
<1>2. Len(tap_cmds) \in Nat \ {0}
  BY <1>1
<1>3. Len(tap_cmds') = Len(tap_cmds) - 1
  BY <1>1, <1>2
<1> QED BY <1>1, <1>2, <1>3 DEF Places

-----------------------------------------------------------------------------
(* Hold *)

HoldOps == {"hold", "unhold"}

\* No hold and no unhold is queued after place i.
NoHoldAfter(i) == \A k \in Places : k > i => tap_cmds[k].op \notin HoldOps

\* The hold the controller waits for is at place i, and nothing there is mistaken for it.
Awaited(i) ==
  /\ tap_cmds[i].op = "hold" /\ tap_cmds[i].n = holds
  /\ NoHoldAfter(i)
  /\ \A k \in Places : k < i /\ tap_cmds[k].op = "hold" => tap_cmds[k].n < holds

\* Whatever is still queued leaves the tap where the controller believes it to be.
HoldSettles ==
  /\ \A i \in Places : tap_cmds[i].op = "hold"
       => \E j \in Places : j > i /\ tap_cmds[j].op = "unhold"
  /\ \A i \in Places : tap_cmds[i].op = "unhold" => ~held
  /\ NoHoldAfter(0) => tap_held = held

\* What HoldAgrees rests on, at every stop of the controller.
HoldNumbers == \A i \in Places : tap_cmds[i].op = "hold" => tap_cmds[i].n <= holds
HoldAsked ==
  pc = "hold_ack" =>
    hold_ack # "gone" /\ (hold_ack = "none" => \E i \in Places : Awaited(i))
HoldGranted ==
  pc = "hold_reinvite" \/ (pc = "hold_ack" /\ hold_ack = "yes") => tap_held /\ NoHoldAfter(0)
HoldBooks ==
  InLoop /\ tap = "running" =>
    /\ HoldNumbers
    /\ pc \in {"hold_ack", "hold_reinvite"} => ~held
    /\ HoldAsked
    /\ HoldGranted
    /\ pc \in {"select", "resume_reinvite"} => HoldSettles

LEMMA HoldInit == ASSUME Init PROVE HoldBooks
<1>1. Places = {}
  BY DEF Init, Places
<1> QED BY <1>1 DEF Init, HoldBooks, HoldNumbers, HoldAsked, HoldGranted, HoldSettles, NoHoldAfter

\* What neither holds nor resumes, whether it hands the tap another command or not.
LEMMA HoldUntouched ==
  ASSUME Inv, HoldBooks,
         ~InLoop' \/ tap' # "running" \/ UNCHANGED <<pc, tap, holdVars, tap_held>>,
         tap' = "running" => \/ tap_cmds' = tap_cmds
                             \/ \E c : c.op \notin HoldOps /\ tap_cmds' = Append(tap_cmds, c)
  PROVE  HoldBooks'
<1> SUFFICES ASSUME InLoop', tap' = "running", UNCHANGED <<pc, tap, holdVars, tap_held>>
             PROVE  HoldBooks'
  BY DEF HoldBooks
<1> USE DEF holdVars, InLoop
<1>1. CASE tap_cmds' = tap_cmds
  BY <1>1 DEF HoldBooks, HoldNumbers, HoldAsked, HoldGranted, HoldSettles, NoHoldAfter,
              Awaited, Places
<1>2. CASE \E c : c.op \notin HoldOps /\ tap_cmds' = Append(tap_cmds, c)
  <2>1. PICK c : c.op \notin HoldOps /\ tap_cmds' = Append(tap_cmds, c)
    BY <1>2
  <2>2. /\ Len(tap_cmds) \in Nat
        /\ Places \subseteq Places'
        /\ \A k \in Places' : k \in Places \/ k = Len(tap_cmds) + 1
        /\ \A k \in Places : tap_cmds'[k] = tap_cmds[k]
        /\ tap_cmds'[Len(tap_cmds) + 1].op \notin HoldOps
    BY <2>1, QueueAppend DEF Places
  <2>3. \A k \in Places' : tap_cmds'[k].op \in HoldOps => k \in Places
    BY <2>2
  <2>4. \A i : NoHoldAfter(i)' <=> NoHoldAfter(i)
    BY <2>2, <2>3 DEF NoHoldAfter
  <2>5. HoldNumbers => HoldNumbers'
    BY <2>2, <2>3 DEF HoldNumbers, HoldOps
  <2>6. \A i \in Places : Awaited(i) => Awaited(i)'
    BY <2>2, <2>3, <2>4 DEF Awaited, HoldOps
  <2>7. HoldAsked => HoldAsked'
    BY <2>2, <2>6 DEF HoldAsked
  <2>8. HoldGranted => HoldGranted'
    BY <2>4 DEF HoldGranted
  <2>9. HoldSettles => HoldSettles'
    BY <2>2, <2>3, <2>4 DEF HoldSettles, HoldOps
  <2> QED BY <2>5, <2>7, <2>8, <2>9 DEF HoldBooks
<1> QED BY <1>1, <1>2

\* An unhold at the end of the queue undoes every hold before it.
LEMMA UnholdSettles ==
  ASSUME Inv, HoldNumbers, tap_cmds' = Append(tap_cmds, Cmd("unhold")), ~held',
         holds' = holds, pc' = "select"
  PROVE  HoldBooks'
<1>1. /\ Len(tap_cmds) \in Nat
      /\ Len(tap_cmds) + 1 \in Places'
      /\ \A k \in Places' : k \in Places \/ k = Len(tap_cmds) + 1
      /\ \A k \in Places : k < Len(tap_cmds) + 1 /\ tap_cmds'[k] = tap_cmds[k]
      /\ tap_cmds'[Len(tap_cmds) + 1].op = "unhold"
  BY QueueAppend DEF Places, Cmd
<1>2. HoldSettles'
  BY <1>1 DEF HoldSettles, NoHoldAfter, HoldOps, Places
<1>3. HoldNumbers'
  BY <1>1 DEF HoldNumbers
<1> QED BY <1>2, <1>3 DEF HoldBooks, HoldAsked, HoldGranted

\* The arms that answer a hold or a resume.
LEMMA HoldArms ==
  ASSUME Inv, KeepsUp, HoldBooks,
         \/ ServerHold \/ HoldAcked \/ HoldRefused \/ HoldReinviteDone
         \/ ServerResume \/ ResumeReinviteDone
  PROVE  HoldBooks'
<1> SUFFICES ASSUME tap' = "running" PROVE HoldBooks'
  BY DEF HoldBooks
<1>0. /\ tap = "running" /\ tap_held' = tap_held /\ InLoop /\ TapAccepts
      /\ held \in BOOLEAN /\ holds \in Nat
  BY DEF ServerHold, HoldAcked, HoldRefused, HoldReinviteDone, ServerResume, ResumeReinviteDone,
         ServerSaid, BeforeControl, tapVars, tapRest, InLoop, TapAccepts, KeepsUp,
         Inv, TypeOK, ControllerType, TapType
<1>1. CASE ServerHold
  <2>1. CASE UNCHANGED <<pc, tap_cmds, hold_ack, holds>>
    BY <1>0, <1>1, <2>1, HoldUntouched DEF ServerHold, holdVars
  <2>2. CASE /\ ~held /\ HoldAvailable /\ TapAccepts
             /\ holds' = holds + 1
             /\ TapSend([op |-> "hold", n |-> holds + 1])
             /\ pc' = "hold_ack"
             /\ hold_ack' = "none"
    <3>1. held' = held
      BY <1>1 DEF ServerHold
    <3>2. /\ Len(tap_cmds) \in Nat
          /\ Len(tap_cmds) + 1 \in Places'
          /\ \A k \in Places' : k \in Places \/ k = Len(tap_cmds) + 1
          /\ \A k \in Places : k < Len(tap_cmds) + 1 /\ tap_cmds'[k] = tap_cmds[k]
          /\ tap_cmds'[Len(tap_cmds) + 1] = [op |-> "hold", n |-> holds + 1]
      BY <2>2, QueueAppend DEF Places, TapSend
    <3>3. \A i \in Places : tap_cmds[i].op = "hold" => tap_cmds[i].n <= holds
      BY <1>0 DEF HoldBooks, HoldNumbers
    <3>4. \A i \in Places : tap_cmds[i].op = "hold" => tap_cmds[i].n \in Nat
      BY DEF Inv, TypeOK, TapType, TapCommand, Places
    <3>5. \A i \in Places : tap_cmds[i].op = "hold" =>
            tap_cmds[i].n <= holds + 1 /\ tap_cmds[i].n < holds + 1
      BY <1>0, <3>3, <3>4
    <3>6. HoldNumbers'
      BY <1>0, <2>2, <3>2, <3>5 DEF HoldNumbers
    <3>7. \A i : i = Len(tap_cmds) + 1 => Awaited(i)'
      BY <2>2, <3>2, <3>5 DEF Awaited, NoHoldAfter, Places
    <3>8. \E i \in Places' : Awaited(i)'
      BY <3>2, <3>7
    <3>9. HoldAsked'
      BY <2>2, <3>8 DEF HoldAsked
    <3> QED BY <2>2, <3>1, <3>6, <3>9 DEF HoldBooks, HoldGranted
  <2> QED BY <1>1, <2>1, <2>2 DEF ServerHold
<1>2. CASE HoldAcked
  BY <1>0, <1>2 DEF HoldAcked, holdVars, tapVars, HoldBooks, HoldNumbers, HoldAsked, HoldGranted,
                    NoHoldAfter, Places
<1>3. CASE HoldRefused
  BY <1>0, <1>3, UnholdSettles DEF HoldRefused, TapTrySend, HoldBooks
<1>4. CASE HoldReinviteDone
  <2>1. pc = "hold_reinvite" /\ pc' = "select" /\ holds' = holds /\ ~held
        /\ HoldNumbers /\ HoldGranted
    BY <1>0, <1>4 DEF HoldReinviteDone, HoldBooks
  <2>2. CASE held' = TRUE /\ UNCHANGED tap_cmds
    <3>1. tap_held /\ \A k \in Places : tap_cmds[k].op \notin HoldOps
      BY <2>1 DEF HoldGranted, NoHoldAfter, Places
    <3>2. HoldSettles'
      BY <1>0, <2>2, <3>1 DEF HoldSettles, HoldOps, Places
    <3> QED BY <2>1, <2>2, <3>2 DEF HoldBooks, HoldNumbers, HoldAsked, HoldGranted, Places
  <2>3. CASE TapTrySend(Cmd("unhold")) /\ UNCHANGED held
    BY <1>0, <2>1, <2>3, UnholdSettles DEF TapTrySend
  <2> QED BY <1>4, <2>2, <2>3 DEF HoldReinviteDone
<1>5. CASE ServerResume
  <2>1. /\ UNCHANGED <<tapVars, holdVars>>
        /\ pc = "select" /\ pc' \in {"select", "resume_reinvite"}
    BY <1>5 DEF ServerResume, ServerSaid, BeforeControl
  <2> QED BY <1>0, <2>1 DEF tapVars, holdVars, HoldBooks, HoldNumbers, HoldAsked, HoldGranted,
             HoldSettles, NoHoldAfter, Places
<1>6. CASE ResumeReinviteDone
  <2>1. pc = "resume_reinvite" /\ pc' = "select" /\ UNCHANGED <<hold_ack, holds>>
        /\ HoldNumbers
    BY <1>0, <1>6 DEF ResumeReinviteDone, HoldBooks
  <2>2. CASE held' = FALSE /\ TapTrySend(Cmd("unhold"))
    BY <1>0, <2>1, <2>2, UnholdSettles DEF TapTrySend
  <2>3. CASE UNCHANGED <<held, tap_cmds>>
    BY <1>0, <2>1, <2>3 DEF HoldBooks, HoldNumbers, HoldAsked, HoldGranted, HoldSettles,
                            NoHoldAfter, Places
  <2> QED BY <1>6, <2>2, <2>3 DEF ResumeReinviteDone
<1> QED BY <1>1, <1>2, <1>3, <1>4, <1>5, <1>6

\* The tap takes its oldest command: what is left moves up one place.
LEMMA HoldTakes ==
  ASSUME Inv, HoldBooks, TapCommands PROVE HoldBooks'
<1>0. /\ tap_cmds # <<>> /\ tap_cmds' = Tail(tap_cmds) /\ tap = "running" /\ InLoop
      /\ UNCHANGED <<pc, tap, held, holds>>
  BY DEF TapCommands, TapParks, TapUnparks, TapHolds, TapUnholds, TapAnnounces, TapTakesOther,
         TapTakes, TapRuns, tapRestOfCall, controllerLocals, loopVars
<1>1. /\ Len(tap_cmds) \in Nat \ {0}
      /\ \A k \in Places' : k + 1 \in Places /\ k < k + 1 /\ tap_cmds'[k] = tap_cmds[k + 1]
      /\ \A k \in Places : k = 1 \/ (k > 1 /\ k - 1 \in Places' /\ tap_cmds'[k - 1] = tap_cmds[k])
      /\ 1 \in Places /\ Head(tap_cmds) = tap_cmds[1]
  BY <1>0, QueueTail DEF Places
<1>2. HoldNumbers /\ HoldNumbers'
  <2>1. HoldNumbers
    BY <1>0 DEF HoldBooks
  <2>2. HoldNumbers'
    <3>1. ASSUME NEW k \in Places', tap_cmds'[k].op = "hold" PROVE tap_cmds'[k].n <= holds'
      <4>1. k + 1 \in Places /\ tap_cmds'[k] = tap_cmds[k + 1]
        BY <1>1, <3>1
      <4> QED BY <1>0, <2>1, <3>1, <4>1 DEF HoldNumbers
    <3> QED BY <3>1 DEF HoldNumbers
  <2> QED BY <2>1, <2>2
<1>3. \A i, k \in Places' : (k < i <=> k + 1 < i + 1) /\ (k > i <=> k + 1 > i + 1)
  BY DEF Places
<1>4. \A i \in Places' : Awaited(i + 1) => Awaited(i)'
  <2>1. SUFFICES ASSUME NEW i \in Places', Awaited(i + 1) PROVE Awaited(i)'
    OBVIOUS
  <2>2. tap_cmds'[i].op = "hold" /\ tap_cmds'[i].n = holds'
    BY <1>0, <1>1, <2>1 DEF Awaited
  <2>3. NoHoldAfter(i)'
    BY <1>1, <1>3, <2>1 DEF Awaited, NoHoldAfter
  <2>4. \A k \in Places' : k < i /\ tap_cmds'[k].op = "hold" => tap_cmds'[k].n < holds'
    <3>1. ASSUME NEW k \in Places', k < i, tap_cmds'[k].op = "hold"
          PROVE  tap_cmds'[k].n < holds'
      <4>1. k + 1 \in Places /\ k + 1 < i + 1 /\ tap_cmds'[k] = tap_cmds[k + 1]
        BY <1>1, <1>3, <3>1
      <4> QED BY <1>0, <2>1, <3>1, <4>1 DEF Awaited
    <3> QED BY <3>1
  <2> QED BY <2>2, <2>3, <2>4 DEF Awaited
<1>5. NoHoldAfter(0) => NoHoldAfter(0)'
  BY <1>1 DEF NoHoldAfter, Places
<1>6. NoHoldAfter(0)' <=> \A k \in Places : k > 1 => tap_cmds[k].op \notin HoldOps
  <2>1. \A k \in Places' : k > 0 /\ k + 1 > 1
    BY DEF Places
  <2>2. \A k \in Places : k > 1 => k - 1 > 0
    BY DEF Places
  <2> QED BY <1>1, <2>1, <2>2 DEF NoHoldAfter
<1>7. ASSUME HoldSettles
      PROVE  /\ \A i \in Places' : tap_cmds'[i].op = "hold"
                  => \E j \in Places' : j > i /\ tap_cmds'[j].op = "unhold"
             /\ \A i \in Places' : tap_cmds'[i].op = "unhold" => ~held'
  <2>1. ASSUME NEW i \in Places', tap_cmds'[i].op = "hold"
        PROVE  \E j \in Places' : j > i /\ tap_cmds'[j].op = "unhold"
    <3>1. PICK k \in Places : k > i + 1 /\ tap_cmds[k].op = "unhold"
      BY <1>1, <1>7, <2>1 DEF HoldSettles
    <3>2. k - 1 \in Places' /\ k - 1 > i /\ tap_cmds'[k - 1].op = "unhold"
      BY <1>1, <3>1 DEF Places
    <3> QED BY <3>2
  <2>2. \A i \in Places' : tap_cmds'[i].op = "unhold" => ~held'
    BY <1>0, <1>1, <1>7 DEF HoldSettles
  <2> QED BY <2>1, <2>2
<1>8. CASE Head(tap_cmds).op \notin HoldOps
  <2>1. UNCHANGED <<tap_held, hold_ack>>
    BY <1>8 DEF TapCommands, TapParks, TapUnparks, TapHolds, TapUnholds, TapAnnounces,
                TapTakesOther, TapTakes, HoldOps
  <2>2. HoldAsked => HoldAsked'
    <3>1. \A i \in Places : Awaited(i) => i # 1
      BY <1>1, <1>8 DEF Awaited, HoldOps
    <3>2. \A i \in Places : Awaited(i) => i - 1 \in Places' /\ (i - 1) + 1 = i
      BY <1>1, <3>1 DEF Places
    <3> QED BY <1>0, <1>4, <2>1, <3>2 DEF HoldAsked
  <2>3. NoHoldAfter(0)' => NoHoldAfter(0)
    BY <1>1, <1>6, <1>8 DEF NoHoldAfter
  <2>4. HoldSettles => HoldSettles'
    <3>1. NoHoldAfter(0)' => NoHoldAfter(0) /\ UNCHANGED <<tap_held, held>>
      BY <1>0, <2>1, <2>3
    <3> QED BY <1>7, <3>1 DEF HoldSettles
  <2>5. HoldGranted => HoldGranted'
    BY <1>0, <1>5, <2>1 DEF HoldGranted
  <2> QED BY <1>0, <1>2, <2>2, <2>4, <2>5 DEF HoldBooks
<1>9. CASE Head(tap_cmds).op = "hold"
  <2>1. TapHolds
    BY <1>9 DEF TapCommands, TapParks, TapUnparks, TapHolds, TapUnholds, TapAnnounces,
                TapTakesOther, TapTakes
  <2>2. ~NoHoldAfter(0)
    BY <1>1, <1>9 DEF NoHoldAfter, HoldOps
  <2>3. pc # "hold_reinvite" /\ ~(pc = "hold_ack" /\ hold_ack = "yes")
    BY <1>0, <2>2 DEF HoldBooks, HoldGranted
  <2>4. HoldSettles => \E k \in Places' : tap_cmds'[k].op = "unhold"
    <3>1. HoldSettles => \E k \in Places : k > 1 /\ tap_cmds[k].op = "unhold"
      BY <1>1, <1>9 DEF HoldSettles
    <3> QED BY <1>1, <3>1
  <2>5. HoldSettles => HoldSettles'
    <3>1. HoldSettles => ~NoHoldAfter(0)'
      BY <2>4 DEF NoHoldAfter, HoldOps, Places
    <3> QED BY <1>7, <3>1 DEF HoldSettles
  <2>6. ASSUME pc = "hold_ack" PROVE HoldAsked' /\ HoldGranted'
    <3>0. hold_ack \in {"none", "no"}
      BY <1>0, <2>3, <2>6 DEF HoldBooks, HoldAsked, Inv, TypeOK, TapType
    <3>1. CASE hold_ack = "no"
      BY <1>0, <2>1, <2>6, <3>1 DEF TapHolds, TapAnswersHold, HoldAsked, HoldGranted
    <3>2. CASE hold_ack = "none"
      <4>1. PICK i \in Places : Awaited(i)
        BY <1>0, <2>6, <3>2 DEF HoldBooks, HoldAsked
      <4>2. CASE i = 1
        <5>1. Head(tap_cmds).n = holds /\ NoHoldAfter(0)'
          BY <1>1, <1>6, <4>1, <4>2 DEF Awaited, NoHoldAfter
        <5> QED BY <1>0, <2>1, <2>6, <3>2, <5>1
                DEF TapHolds, TapAnswersHold, HoldAsked, HoldGranted
      <4>3. CASE i # 1
        <5>1. i > 1 /\ i - 1 \in Places' /\ (i - 1) + 1 = i /\ 1 < i
          BY <1>1, <4>3 DEF Places
        <5>2. Awaited(i - 1)'
          BY <1>4, <4>1, <5>1
        <5>3. Head(tap_cmds).n < holds /\ Head(tap_cmds).n \in Nat /\ holds \in Nat
          BY <1>1, <1>9, <4>1, <5>1 DEF Awaited, Inv, TypeOK, TapType, TapCommand, Places
        <5>4. Head(tap_cmds).n # holds
          BY <5>3
        <5>5. hold_ack' = hold_ack
          BY <2>1, <5>4 DEF TapHolds, TapAnswersHold
        <5> QED BY <1>0, <2>6, <3>2, <5>1, <5>2, <5>5 DEF HoldAsked, HoldGranted
      <4> QED BY <4>2, <4>3
    <3> QED BY <3>0, <3>1, <3>2
  <2>7. ASSUME pc # "hold_ack" PROVE HoldAsked' /\ HoldGranted'
    BY <1>0, <2>3, <2>7 DEF HoldAsked, HoldGranted
  <2> QED BY <1>0, <1>2, <2>3, <2>5, <2>6, <2>7 DEF HoldBooks
<1>10. CASE Head(tap_cmds).op = "unhold"
  <2>1. tap_held' = FALSE /\ hold_ack' = hold_ack
    BY <1>10 DEF TapCommands, TapParks, TapUnparks, TapHolds, TapUnholds, TapAnnounces,
                TapTakesOther, TapTakes
  <2>2. ~NoHoldAfter(0)
    BY <1>1, <1>10 DEF NoHoldAfter, HoldOps
  <2>3. HoldGranted'
    BY <1>0, <2>1, <2>2 DEF HoldBooks, HoldGranted
  <2>4. HoldSettles => HoldSettles'
    <3>1. HoldSettles => ~held /\ ~held'
      BY <1>0, <1>1, <1>10 DEF HoldSettles
    <3>2. held' \in BOOLEAN
      BY <1>0 DEF Inv, TypeOK, ControllerType
    <3> QED BY <1>7, <2>1, <3>1, <3>2 DEF HoldSettles
  <2>5. HoldAsked => HoldAsked'
    <3>1. \A i \in Places : Awaited(i) => i # 1
      BY <1>1, <1>10 DEF Awaited
    <3>2. \A i \in Places : Awaited(i) => i - 1 \in Places' /\ (i - 1) + 1 = i
      BY <1>1, <3>1 DEF Places
    <3> QED BY <1>0, <1>4, <2>1, <3>2 DEF HoldAsked
  <2> QED BY <1>0, <1>2, <2>3, <2>4, <2>5 DEF HoldBooks
<1> QED BY <1>8, <1>9, <1>10 DEF HoldOps

LEMMA HoldStep ==
  ASSUME Inv, KeepsUp, HoldBooks, [Next]_vars
  PROVE  HoldBooks'
<1>0. /\ \A s : [op |-> "unpark", n |-> s].op \notin HoldOps
      /\ \A k : [op |-> "announce", n |-> k].op \notin HoldOps
      /\ Cmd("park").op \notin HoldOps /\ Cmd("other").op \notin HoldOps
  BY DEF Cmd, HoldOps
<1>1. CASE Minor
  <2>1. CASE \/ ServerHold \/ HoldAcked \/ HoldRefused \/ HoldReinviteDone
             \/ ServerResume \/ ResumeReinviteDone
    BY <2>1, HoldArms
  <2>2. CASE ForwardToTap
    BY <1>0, <2>2, HoldUntouched DEF ForwardToTap, TapTrySend, loopVars, tapRest
  <2>3. CASE ServerPark \/ ControlClosed \/ ParkRefused \/ RetrieveIgnored
    <3>1. UNCHANGED <<loopVars, tapVars, holdVars>>
      BY <2>3 DEF ServerPark, ControlClosed, ParkRefused, RetrieveIgnored
    <3> QED BY <3>1, HoldUntouched DEF loopVars, tapVars
  <2>4. CASE TapDrained \/ RunReturns
    BY <2>4 DEF TapDrained, RunReturns, InLoop, HoldBooks, loopVars
  <2> QED BY <1>1, <2>1, <2>2, <2>3, <2>4 DEF Minor
<1>2. CASE Breaks
  BY <1>2, BreaksTouch DEF HoldBooks
<1>3. CASE Outside \/ \E s \in Session : Bridge(s)
  <2>1. UNCHANGED <<controllerLocals, tapVars, holdVars>>
    BY <1>3, OutsideTouches, BridgeTouches
  <2> QED BY <2>1, HoldUntouched DEF controllerLocals, loopVars, tapVars
<1>4. CASE ParkTimeout /\ ParkTimeoutAction = "keep"
  BY <1>4, HoldUntouched DEF ParkTimeout, loopVars, tapVars
<1>5. CASE ParkCall
  BY <1>0, <1>5, HoldUntouched DEF ParkCall, TapSend, loopVars, tapRest
<1>6. CASE RetrieveCall
  BY <1>0, <1>6, HoldUntouched DEF RetrieveCall, TapTrySend, loopVars, tapRest
<1>7. CASE Redial \/ RedialNotReady \/ BridgeAborted
  <2>1. UNCHANGED <<loopVars, tapVars, holdVars>>
    BY <1>7 DEF Redial, RedialNotReady, BridgeAborted
  <2> QED BY <2>1, HoldUntouched DEF loopVars, tapVars
<1>8. CASE RedialRecovered
  BY <1>0, <1>8, HoldUntouched DEF RedialRecovered, TapTrySend, loopVars, tapRest
<1>9. CASE WindowElapsed \/ SessionLost
  <2>1. \/ pc' = "draining"
        \/ StartPrompt /\ UNCHANGED <<loopVars, tap, tap_held, holdVars>>
    BY <1>9 DEF WindowElapsed, SessionLost, BridgeEnds, Finish, tapRest
  <2> QED BY <1>0, <2>1, HoldUntouched DEF StartPrompt, TapSend, loopVars, InLoop, HoldBooks
<1>10. CASE DetachedSessionEnds \/ RedialFailed
  BY <1>10, HoldUntouched DEF DetachedSessionEnds, RedialFailed, BridgeEnds, loopVars, tapRest
<1>11. CASE SessionDrops
  <2>1. \/ pc' = "draining"
        \/ TapSend(Cmd("park")) /\ UNCHANGED <<loopVars, tap, tap_held, holdVars>>
    BY <1>11 DEF SessionDrops, BridgeEnds, Finish, tapRest
  <2> QED BY <1>0, <2>1, HoldUntouched DEF TapSend, loopVars, InLoop, HoldBooks
<1>12. CASE Tap
  <2>1. CASE TapCommands
    BY <2>1, HoldTakes
  <2>2. CASE TapSeesDrop \/ FrameFails \/ \E r \in TapDisconnect : MediaEnds(r)
    <3>1. \/ \E r \in TapDisconnect : TapEnds(r)
          \/ UNCHANGED <<controllerLocals, tap, tap_cmds, tap_held, holdVars>>
      BY <2>2 DEF TapSeesDrop, FrameFails, MediaEnds, TapDisconnect, tapRestOfCall
    <3>2. CASE \E r \in TapDisconnect : TapEnds(r)
      BY <3>2 DEF TapEnds, TapDisconnect, HoldBooks
    <3>3. CASE UNCHANGED <<controllerLocals, tap, tap_cmds, tap_held, holdVars>>
      BY <3>3, HoldUntouched DEF controllerLocals, loopVars
    <3> QED BY <3>1, <3>2, <3>3
  <2>3. CASE FrameWaits \/ FrameSent \/ PromptPlayed
    <3>1. UNCHANGED <<controllerLocals, tap, tap_cmds, tap_held, holdVars>>
      BY <2>3 DEF FrameWaits, FrameSent, PromptPlayed, tapRestOfCall
    <3> QED BY <3>1, HoldUntouched DEF controllerLocals, loopVars
  <2> QED BY <1>12, <2>1, <2>2, <2>3 DEF Tap
<1> QED BY <1>1, <1>2, <1>3, <1>4, <1>5, <1>6, <1>7, <1>8, <1>9, <1>10, <1>11, <1>12, Steps

LEMMA HoldBooksAgree == ASSUME Inv, HoldBooks PROVE HoldAgrees
<1>1. SUFFICES ASSUME pc = "select", tap = "running", tap_cmds = <<>>
               PROVE  held = tap_held
  BY DEF HoldAgrees
<1>2. Places = {} /\ InLoop
  BY <1>1 DEF Places, InLoop
<1> QED BY <1>1, <1>2 DEF HoldBooks, HoldSettles, NoHoldAfter

-----------------------------------------------------------------------------
(* Whose audio the tap carries *)

\* The redial whose readiness is awaited is the newest, and its channels are staged.
ReadyBooks ==
  InLoop /\ ws_prompt = "none" /\ reconnect_ready_rx # NoSession
    => reconnecting /\ pending_unpark = cur

\* The caller hears music, as far as the controller knows.
OnMusic == parked \/ reconnecting

\* The queue played forward: whether the tap is parked, and whose channels it has, after
\* each of the commands that are still to be taken.
Replay(on, to) ==
  /\ on \in [0 .. Len(tap_cmds) -> BOOLEAN] /\ to \in [0 .. Len(tap_cmds) -> Session]
  /\ on[0] = tap_parked /\ to[0] = media
  /\ \A i \in Places :
       CASE tap_cmds[i].op = "park" -> on[i] = TRUE /\ to[i] = to[i - 1]
         [] tap_cmds[i].op = "unpark" -> /\ on[i] = FALSE
                                         /\ to[i] = IF on[i - 1] THEN tap_cmds[i].n ELSE to[i - 1]
         [] OTHER -> on[i] = on[i - 1] /\ to[i] = to[i - 1]

\* When the tap has taken all of them it is where the controller believes it to be.
Catches(on, to) ==
  on[Len(tap_cmds)] = OnMusic /\ (~OnMusic => to[Len(tap_cmds)] = cur)

\* What MediaFollowsSession rests on, with commands in the queue.
MusicBooks ==
  InLoop /\ tap = "running" /\ ws_prompt = "none" =>
    \E on \in [0 .. Len(tap_cmds) -> BOOLEAN], to \in [0 .. Len(tap_cmds) -> Session] :
      Replay(on, to) /\ Catches(on, to)

AudioBooks == ReadyBooks /\ MusicBooks

LEMMA AudioInit == ASSUME Init PROVE AudioBooks
<1>1. ReadyBooks
  BY DEF Init, ReadyBooks
<1>2. Len(tap_cmds) = 0 /\ Places = {} /\ 0 .. Len(tap_cmds) = {0}
  BY DEF Init, Places
<1> DEFINE on == [i \in {0} |-> FALSE]
           to == [i \in {0} |-> 1]
<1>3. on \in [{0} -> BOOLEAN] /\ to \in [{0} -> Session]
  BY FirstSession
<1>4. Replay(on, to) /\ Catches(on, to)
  BY <1>2, <1>3 DEF Init, Replay, Catches, OnMusic
<1> QED BY <1>1, <1>2, <1>3, <1>4 DEF AudioBooks, MusicBooks

\* Nothing that concerns the music happened, or the call has left it behind.
LEMMA MusicUntouched ==
  ASSUME Inv, MusicBooks,
         InLoop' /\ tap' = "running" /\ ws_prompt' = "none" =>
           /\ InLoop /\ tap = "running" /\ ws_prompt = "none"
           /\ UNCHANGED <<tap_parked, media, tap_cmds>> /\ OnMusic' = OnMusic
           /\ OnMusic \/ cur' = cur
  PROVE  MusicBooks'
BY DEF MusicBooks, Replay, Catches, Places

\* One more command in the queue.
LEMMA MusicAppend ==
  ASSUME Inv, MusicBooks, NEW c \in TapCommand, tap_cmds' = Append(tap_cmds, c),
         InLoop, tap = "running", ws_prompt = "none", UNCHANGED <<tap_parked, media>>,
         cur' \in Session,
         \/ c.op = "park" /\ OnMusic'
         \/ c.op = "unpark" /\ OnMusic /\ ~OnMusic' /\ c.n = cur'
         \/ c.op \notin {"park", "unpark"} /\ UNCHANGED <<OnMusic, cur>>
  PROVE  MusicBooks'
<1> DEFINE n == Len(tap_cmds)
<1>1. /\ n \in Nat /\ Len(tap_cmds') = n + 1 /\ tap_cmds'[n + 1] = c
      /\ \A k \in Places : tap_cmds'[k] = tap_cmds[k]
  BY QueueAppend
<1>2. PICK on \in [0 .. n -> BOOLEAN], to \in [0 .. n -> Session] :
             Replay(on, to) /\ Catches(on, to)
  BY DEF MusicBooks
<1>3. OnMusic' \in BOOLEAN
  BY DEF OnMusic
<1> DEFINE on2 == [i \in 0 .. n + 1 |-> IF i = n + 1 THEN OnMusic' ELSE on[i]]
           to2 == [i \in 0 .. n + 1 |-> IF i # n + 1 THEN to[i]
                                        ELSE IF c.op = "unpark" THEN cur' ELSE to[n]]
<1> HIDE DEF n
<1>4. /\ on2 \in [0 .. n + 1 -> BOOLEAN] /\ to2 \in [0 .. n + 1 -> Session]
      /\ on2[0] = on[0] /\ to2[0] = to[0]
      /\ \A i \in 1 .. n : /\ on2[i] = on[i] /\ on2[i - 1] = on[i - 1]
                           /\ to2[i] = to[i] /\ to2[i - 1] = to[i - 1]
      /\ on2[n + 1] = OnMusic' /\ on2[n] = on[n] /\ to2[n] = to[n]
      /\ to2[n + 1] = IF c.op = "unpark" THEN cur' ELSE to[n]
  BY <1>1, <1>2, <1>3
<1> HIDE DEF on2, to2
<1>5. /\ Places = 1 .. n /\ Places' = 1 .. n + 1
      /\ \A i \in Places' : i \in Places \/ i = n + 1
      /\ (n + 1) - 1 = n
  BY <1>1 DEF Places, n
<1>6. on[n] = OnMusic /\ (~OnMusic => to[n] = cur)
  BY <1>2 DEF Catches, n
<1>7. \A i \in Places :
       CASE tap_cmds'[i].op = "park" -> on2[i] = TRUE /\ to2[i] = to2[i - 1]
         [] tap_cmds'[i].op = "unpark" ->
              on2[i] = FALSE /\ to2[i] = IF on2[i - 1] THEN tap_cmds'[i].n ELSE to2[i - 1]
         [] OTHER -> on2[i] = on2[i - 1] /\ to2[i] = to2[i - 1]
  BY <1>1, <1>2, <1>4, <1>5 DEF Replay
<1>8. (CASE tap_cmds'[n + 1].op = "park" -> on2[n + 1] = TRUE /\ to2[n + 1] = to2[(n + 1) - 1]
        [] tap_cmds'[n + 1].op = "unpark" ->
             /\ on2[n + 1] = FALSE
             /\ to2[n + 1] = IF on2[(n + 1) - 1] THEN tap_cmds'[n + 1].n ELSE to2[(n + 1) - 1]
        [] OTHER -> on2[n + 1] = on2[(n + 1) - 1] /\ to2[n + 1] = to2[(n + 1) - 1])
  BY <1>1, <1>3, <1>4, <1>5, <1>6
<1>9. \A a, b : a = on2 /\ b = to2 => Replay(a, b)'
  <2>1. on2[0] = tap_parked' /\ to2[0] = media'
    BY <1>2, <1>4 DEF Replay
  <2> QED BY <1>1, <1>4, <1>5, <1>7, <1>8, <2>1 DEF Replay
<1>10. \A a, b : a = on2 /\ b = to2 => Catches(a, b)'
  BY <1>1, <1>4, <1>6 DEF Catches
<1> QED BY <1>1, <1>4, <1>9, <1>10 DEF MusicBooks

\* The tap takes its oldest command and is where the replay says it should be.
LEMMA MusicTakes ==
  ASSUME Inv, MusicBooks, TapCommands PROVE MusicBooks'
<1> DEFINE m == Len(tap_cmds) - 1
<1>1. /\ tap_cmds # <<>> /\ tap_cmds' = Tail(tap_cmds)
      /\ UNCHANGED <<tap, cur>> /\ InLoop' = InLoop /\ OnMusic' = OnMusic
  BY DEF TapCommands, TapParks, TapUnparks, TapHolds, TapUnholds, TapAnnounces, TapTakesOther,
         TapTakes, tapRestOfCall, controllerLocals, loopVars, bridgeVars, parkVars, redialVars,
         InLoop, OnMusic
<1>2. ws_prompt' = "none" <=> ws_prompt = "none"
  BY TapTouches DEF Tap
<1> SUFFICES ASSUME InLoop, tap = "running", ws_prompt = "none" PROVE MusicBooks'
  BY <1>1, <1>2 DEF MusicBooks
<1>3. PICK on \in [0 .. Len(tap_cmds) -> BOOLEAN], to \in [0 .. Len(tap_cmds) -> Session] :
             Replay(on, to) /\ Catches(on, to)
  BY DEF MusicBooks
<1>4. /\ m \in Nat /\ Len(tap_cmds) = m + 1 /\ Len(tap_cmds') = m
      /\ \A k \in 1 .. m : tap_cmds'[k] = tap_cmds[k + 1]
      /\ Head(tap_cmds) = tap_cmds[1]
  BY <1>1, QueueTail DEF Places
<1> HIDE DEF m
<1> DEFINE on2 == [i \in 0 .. m |-> on[i + 1]]
           to2 == [i \in 0 .. m |-> to[i + 1]]
<1>5. /\ on2 \in [0 .. m -> BOOLEAN] /\ to2 \in [0 .. m -> Session]
      /\ on2[0] = on[1] /\ to2[0] = to[1]
      /\ on2[m] = on[Len(tap_cmds)] /\ to2[m] = to[Len(tap_cmds)]
  BY <1>3, <1>4
<1>6. \A k \in 1 .. m : /\ k + 1 \in Places /\ (k + 1) - 1 = k
                        /\ on2[k] = on[k + 1] /\ to2[k] = to[k + 1]
                        /\ on2[k - 1] = on[k] /\ to2[k - 1] = to[k]
  BY <1>4 DEF Places
<1> HIDE DEF on2, to2
<1>7. 1 \in Places /\ 1 - 1 = 0 /\ Places' = 1 .. m
  BY <1>4 DEF Places
<1>8. on[1] = tap_parked' /\ to[1] = media'
  <2> DEFINE c == Head(tap_cmds)
  <2>1. /\ c.op = "park" => on[1] = TRUE /\ to[1] = to[0]
        /\ c.op = "unpark" => on[1] = FALSE /\ to[1] = IF on[0] THEN c.n ELSE to[0]
        /\ c.op \notin {"park", "unpark"} => on[1] = on[0] /\ to[1] = to[0]
        /\ on[0] = tap_parked /\ to[0] = media
    BY <1>3, <1>4, <1>7 DEF Replay
  <2>2. tap_parked \in BOOLEAN
    BY DEF Inv, TypeOK, TapType
  <2>3. CASE TapParks
    BY <2>1, <2>3 DEF TapParks, TapTakes
  <2>4. CASE TapUnparks
    BY <2>1, <2>2, <2>4 DEF TapUnparks, TapTakes
  <2>5. CASE TapHolds \/ TapUnholds \/ TapAnnounces \/ TapTakesOther
    <3>1. c.op \notin {"park", "unpark"} /\ UNCHANGED <<tap_parked, media>>
      BY <2>5 DEF TapHolds, TapUnholds, TapAnnounces, TapTakesOther, TapTakes
    <3> QED BY <2>1, <3>1
  <2> QED BY <2>3, <2>4, <2>5 DEF TapCommands
<1>9. \A k \in 1 .. m :
       CASE tap_cmds'[k].op = "park" -> on2[k] = TRUE /\ to2[k] = to2[k - 1]
         [] tap_cmds'[k].op = "unpark" ->
              on2[k] = FALSE /\ to2[k] = IF on2[k - 1] THEN tap_cmds'[k].n ELSE to2[k - 1]
         [] OTHER -> on2[k] = on2[k - 1] /\ to2[k] = to2[k - 1]
  BY <1>3, <1>4, <1>6 DEF Replay
<1>10. \A a, b : a = on2 /\ b = to2 => Replay(a, b)'
  BY <1>4, <1>5, <1>7, <1>8, <1>9 DEF Replay
<1>11. \A a, b : a = on2 /\ b = to2 => Catches(a, b)'
  BY <1>1, <1>3, <1>4, <1>5 DEF Catches
<1> QED BY <1>4, <1>5, <1>10, <1>11 DEF MusicBooks

LEMMA ReadyStep ==
  ASSUME Apart, Inv, ReadyBooks, [Next]_vars
  PROVE  ReadyBooks'
<1> USE DEF redialVars, promptVars, ReadyBooks
<1>0. ~(parked /\ reconnecting)
  BY DEF Apart
<1>1. CASE Minor
  BY <1>1, MinorTouches DEF core
<1>2. CASE Breaks
  BY <1>2, BreaksTouch
<1>3. CASE Outside \/ Tap \/ \E s \in Session : Bridge(s)
  <2>1. UNCHANGED controllerLocals /\ (ws_prompt' = "none" <=> ws_prompt = "none")
    BY <1>3, OutsideTouches, TapTouches, BridgeTouches
  <2> QED BY <2>1 DEF controllerLocals, loopVars, bridgeVars, InLoop
<1>4. CASE ParkTimeout /\ ParkTimeoutAction = "keep"
  BY <1>4 DEF ParkTimeout, loopVars, bridgeVars, InLoop
<1>5. CASE ParkCall \/ DetachedSessionEnds
  <2>1. UNCHANGED <<loopVars, cur, redialVars, promptVars>>
    BY <1>5 DEF ParkCall, DetachedSessionEnds, BridgeEnds, bridgeVars
  <2> QED BY <2>1 DEF loopVars, InLoop
<1>6. CASE RetrieveCall
  <2>1. parked /\ UNCHANGED <<loopVars, redialVars, promptVars>>
    BY <1>6 DEF RetrieveCall
  <2> QED BY <1>0, <2>1 DEF loopVars, InLoop
<1>7. CASE Redial
  BY <1>7 DEF Redial, Dial
<1>8. CASE RedialRecovered \/ RedialNotReady \/ RedialFailed
  BY <1>8 DEF RedialRecovered, RedialNotReady, RedialFailed
<1>9. CASE WindowElapsed \/ SessionLost
  <2>1. ~InLoop' \/ ws_prompt' = "playing"
    BY <1>9 DEF WindowElapsed, SessionLost, StartPrompt, Finish, InLoop
  <2> QED BY <2>1
<1>10. CASE SessionDrops
  <2>1. /\ ~reconnecting /\ InLoop
        /\ UNCHANGED <<cur, reconnect_ready_rx, pending_unpark, promptVars>>
    BY <1>10 DEF SessionDrops, BridgeEnds, BeforeBridge, BeforeDeadline, BeforeTimers,
                 BeforePark, BeforeControl, InLoop
  <2> QED BY <2>1
<1>11. CASE BridgeAborted
  BY <1>11 DEF BridgeAborted, loopVars, bridgeVars, InLoop
<1> QED BY <1>1, <1>2, <1>3, <1>4, <1>5, <1>6, <1>7, <1>8, <1>9, <1>10, <1>11, Steps

LEMMA MusicStep ==
  ASSUME Apart, Apart', Inv, KeepsUp, ReadyBooks, MusicBooks, [Next]_vars
  PROVE  MusicBooks'
<1> USE DEF redialVars, promptVars
<1>0. /\ ~(parked /\ reconnecting) /\ ~(parked /\ reconnecting)'
      /\ cur' \in Session
  BY NextInv DEF Apart, Inv, TypeOK, ControllerType
<1>1. CASE Minor
  <2>1. UNCHANGED core /\ InLoop' = InLoop
    BY <1>1, MinorTouches
  <2>2. /\ tap' = "running" => tap = "running"
        /\ tap' = "running" => UNCHANGED <<tap_parked, media>>
        /\ tap' = "running" =>
             \/ tap_cmds' = tap_cmds
             \/ \E c \in TapCommand : /\ c.op \notin {"park", "unpark"}
                                      /\ tap_cmds' = Append(tap_cmds, c)
    <3>1. CASE ForwardToTap \/ HoldRefused \/ HoldReinviteDone \/ ResumeReinviteDone
      <4>1. /\ UNCHANGED tapRest
            /\ \/ tap_cmds' = tap_cmds
               \/ TapTrySend(Cmd("other")) \/ TapTrySend(Cmd("unhold"))
        BY <3>1 DEF ForwardToTap, HoldRefused, HoldReinviteDone, ResumeReinviteDone
      <4>2. /\ Cmd("other") \in TapCommand /\ Cmd("unhold") \in TapCommand
            /\ Cmd("other").op = "other" /\ Cmd("unhold").op = "unhold"
        BY CommandTypes DEF Cmd
      <4> QED BY <4>1, <4>2 DEF TapTrySend, tapRest
    <3>2. CASE ServerHold
      <4>1. [op |-> "hold", n |-> holds + 1] \in TapCommand
        BY CommandTypes DEF Inv, TypeOK, TapType
      <4> QED BY <3>2, <4>1 DEF ServerHold, TapSend, tapRest
    <3>3. CASE TapDrained \/ RunReturns
      BY <3>3 DEF TapDrained, RunReturns, tapVars
    <3>4. CASE \/ ServerPark \/ ControlClosed \/ HoldAcked \/ ServerResume
               \/ ParkRefused \/ RetrieveIgnored
      BY <3>4 DEF ServerPark, ControlClosed, HoldAcked, ServerResume, ParkRefused,
                  RetrieveIgnored, tapVars
    <3> QED BY <1>1, <3>1, <3>2, <3>3, <3>4 DEF Minor
  <2>3. OnMusic' = OnMusic /\ cur' = cur /\ ws_prompt' = ws_prompt
    BY <2>1 DEF core, OnMusic
  <2> QED BY <1>0, <2>1, <2>2, <2>3, MusicUntouched, MusicAppend DEF MusicBooks
<1>2. CASE Breaks
  BY <1>2, BreaksTouch DEF MusicBooks
<1>3. CASE Outside \/ \E s \in Session : Bridge(s)
  <2>1. UNCHANGED <<controllerLocals, tapVars, promptVars>>
    BY <1>3, OutsideTouches, BridgeTouches
  <2> QED BY <2>1, MusicUntouched
          DEF controllerLocals, loopVars, bridgeVars, parkVars, tapVars, InLoop, OnMusic
<1>4. CASE ParkTimeout /\ ParkTimeoutAction = "keep"
  BY <1>4, MusicUntouched DEF ParkTimeout, loopVars, bridgeVars, tapVars, InLoop, OnMusic
<1>5. CASE ParkCall
  <2>1. /\ TapSend(Cmd("park")) /\ OnMusic' /\ UNCHANGED <<loopVars, tapRest, promptVars>>
    BY <1>5 DEF ParkCall, OnMusic
  <2>2. Cmd("park") \in TapCommand /\ Cmd("park").op = "park"
    BY CommandTypes DEF Cmd
  <2> QED BY <1>0, <2>1, <2>2, MusicAppend DEF TapSend, tapRest, loopVars, InLoop, MusicBooks
<1>6. CASE RetrieveCall
  <2>1. /\ cur' = cur + 1 /\ OnMusic /\ ~OnMusic'
        /\ TapTrySend([op |-> "unpark", n |-> cur + 1])
        /\ UNCHANGED <<loopVars, tapRest, promptVars>>
    BY <1>0, <1>6 DEF RetrieveCall, Dial, OnMusic
  <2>2. [op |-> "unpark", n |-> cur'] \in TapCommand
    BY <1>0, CommandTypes
  <2> SUFFICES ASSUME tap' = "running", InLoop', ws_prompt' = "none" PROVE MusicBooks'
    BY DEF MusicBooks
  <2>3. TapAccepts /\ tap = "running" /\ InLoop /\ ws_prompt = "none"
    BY <2>1 DEF TapAccepts, KeepsUp, tapRest, loopVars, InLoop
  <2>4. tap_cmds' = Append(tap_cmds, [op |-> "unpark", n |-> cur'])
    BY <2>1, <2>3 DEF TapTrySend
  <2> QED BY <1>0, <2>1, <2>2, <2>3, <2>4, MusicAppend DEF tapRest
<1>7. CASE Redial
  <2>1. OnMusic /\ OnMusic' /\ UNCHANGED <<loopVars, tapVars, promptVars>>
    BY <1>7 DEF Redial, OnMusic
  <2> QED BY <2>1, MusicUntouched DEF loopVars, tapVars, InLoop
<1>8. CASE RedialRecovered
  <2>1. /\ OnMusic /\ ~OnMusic' /\ cur' = cur /\ reconnect_ready_rx # NoSession
        /\ UNCHANGED <<loopVars, tapRest, promptVars>>
    BY <1>0, <1>8 DEF RedialRecovered, RedialReady, OnMusic, parkVars, bridgeVars
  <2> SUFFICES ASSUME tap' = "running", InLoop', ws_prompt' = "none" PROVE MusicBooks'
    BY DEF MusicBooks
  <2>2. TapAccepts /\ tap = "running" /\ InLoop /\ ws_prompt = "none"
    BY <2>1 DEF TapAccepts, KeepsUp, tapRest, loopVars, InLoop
  <2>3. pending_unpark = cur /\ cur \in Session
    BY <1>0, <2>1, <2>2 DEF ReadyBooks
  <2>4. pending_unpark # NoSession
    BY <2>3 DEF Session, NoSession
  <2>5. tap_cmds' = Append(tap_cmds, [op |-> "unpark", n |-> cur'])
    BY <1>8, <2>1, <2>2, <2>3, <2>4 DEF RedialRecovered, TapTrySend
  <2>6. [op |-> "unpark", n |-> cur'] \in TapCommand
    BY <1>0, CommandTypes
  <2> QED BY <1>0, <2>1, <2>2, <2>5, <2>6, MusicAppend DEF tapRest
<1>9. CASE RedialNotReady \/ BridgeAborted
  <2>1. UNCHANGED <<loopVars, cur, parked, reconnecting, tapVars, promptVars>>
    BY <1>9 DEF RedialNotReady, BridgeAborted, bridgeVars, parkVars
  <2> QED BY <2>1, MusicUntouched DEF loopVars, tapVars, InLoop, OnMusic
<1>10. CASE WindowElapsed \/ SessionLost
  <2>1. ~InLoop' \/ ws_prompt' = "playing"
    BY <1>10 DEF WindowElapsed, SessionLost, StartPrompt, Finish, InLoop
  <2> QED BY <2>1 DEF MusicBooks
<1>11. CASE DetachedSessionEnds \/ RedialFailed
  <2>1. UNCHANGED <<loopVars, cur, parked, reconnecting, tapRest, tap_cmds, promptVars>>
    BY <1>11 DEF DetachedSessionEnds, RedialFailed, BridgeEnds, parkVars
  <2> QED BY <2>1, MusicUntouched DEF loopVars, tapRest, InLoop, OnMusic
<1>12. CASE SessionDrops
  <2>1. CASE ~TapAccepts
    BY <1>12, <2>1 DEF SessionDrops, Finish, InLoop, MusicBooks
  <2>2. CASE TapAccepts
    <3>1. TapSend(Cmd("park")) /\ OnMusic' /\ UNCHANGED <<loopVars, tapRest, promptVars>>
      BY <1>12, <2>2 DEF SessionDrops, BridgeEnds, OnMusic
    <3>2. Cmd("park") \in TapCommand /\ Cmd("park").op = "park"
      BY CommandTypes DEF Cmd
    <3> QED BY <1>0, <3>1, <3>2, MusicAppend
            DEF TapSend, tapRest, loopVars, InLoop, MusicBooks
  <2> QED BY <2>1, <2>2
<1>13. CASE Tap
  <2>1. CASE TapCommands
    BY <2>1, MusicTakes
  <2>2. CASE TapSeesDrop \/ FrameFails \/ \E r \in TapDisconnect : MediaEnds(r)
    <3>1. \/ \E r \in TapDisconnect : TapEnds(r)
          \/ UNCHANGED <<controllerLocals, tap, tap_cmds, tap_parked, media, promptVars>>
      BY <2>2 DEF TapSeesDrop, FrameFails, MediaEnds, TapDisconnect, tapRestOfCall
    <3>2. CASE \E r \in TapDisconnect : TapEnds(r)
      BY <3>2 DEF TapEnds, TapDisconnect, MusicBooks
    <3>3. CASE UNCHANGED <<controllerLocals, tap, tap_cmds, tap_parked, media, promptVars>>
      BY <3>3, MusicUntouched
         DEF controllerLocals, loopVars, bridgeVars, parkVars, InLoop, OnMusic
    <3> QED BY <3>1, <3>2, <3>3
  <2>3. CASE FrameWaits \/ FrameSent \/ PromptPlayed
    <3>1. UNCHANGED <<controllerLocals, tap, tap_cmds, tap_parked, media>>
      BY <2>3 DEF FrameWaits, FrameSent, PromptPlayed, tapRestOfCall
    <3>2. ws_prompt' = "none" <=> ws_prompt = "none"
      BY <1>13, TapTouches
    <3> QED BY <3>1, <3>2, MusicUntouched
            DEF controllerLocals, loopVars, bridgeVars, parkVars, InLoop, OnMusic
  <2> QED BY <1>13, <2>1, <2>2, <2>3 DEF Tap
<1> QED BY <1>1, <1>2, <1>3, <1>4, <1>5, <1>6, <1>7, <1>8, <1>9, <1>10, <1>11, <1>12, <1>13,
           Steps

LEMMA AudioFollows == ASSUME Inv, MusicBooks PROVE MediaFollowsSession
<1> SUFFICES ASSUME pc = "select", tap = "running", tap_cmds = <<>>, ~parked, ~reconnecting,
                    ws_prompt = "none"
             PROVE  media = cur /\ ~tap_parked
  BY DEF MediaFollowsSession
<1>1. InLoop /\ Len(tap_cmds) = 0 /\ ~OnMusic
  BY DEF InLoop, OnMusic
<1>2. PICK on, to : Replay(on, to) /\ Catches(on, to)
  BY <1>1 DEF MusicBooks
<1> QED BY <1>1, <1>2 DEF Replay, Catches, OnMusic

-----------------------------------------------------------------------------
(* What follows of a call that is never parked and reconnecting at once *)

LEMMA RedialStallsInit == ASSUME Init PROVE RedialNeverStalls
BY DEF Init, RedialNeverStalls

\* Parks, retrieves and redials (call.rs:1980, 2110): a session other than the newest has
\* been told to stop before the newest was dialled, or has ended, so that the server never
\* serves two sessions of one call.
THEOREM OneSession == Spec /\ []Apart => []OneLiveSession
<1>1. Init => SessionBooks
  BY SessionInit
<1>2. Apart /\ Inv /\ SessionBooks /\ [Next]_vars => SessionBooks'
  BY SessionStep
<1>3. SessionBooks => OneLiveSession
  BY DEF SessionBooks
<1> QED BY <1>1, <1>2, <1>3, Invariance, PTL DEF Spec

\* Whichever of its timers, dials and ends come first, a reconnect episode has a redial
\* timer running or a redial in flight whose channels are staged for the tap.
THEOREM NoStall == Spec /\ []Apart => []RedialNeverStalls
<1>1. Init => RedialNeverStalls
  BY RedialStallsInit
<1>2. Apart /\ Inv /\ RedialNeverStalls /\ [Next]_vars => RedialNeverStalls'
  BY RedialStalls
<1> QED BY <1>1, <1>2, Invariance, PTL DEF Spec

\* However far the tap is behind the controller, through parks, retrieves and redials, when
\* it has caught up it carries the caller's audio to the newest session.
THEOREM AudioFollowsSession == Spec /\ []Apart /\ []KeepsUp => []MediaFollowsSession
<1>1. Init => AudioBooks
  BY AudioInit
<1>2. Apart /\ Apart' /\ Inv /\ KeepsUp /\ AudioBooks /\ [Next]_vars => AudioBooks'
  BY ReadyStep, MusicStep DEF AudioBooks
<1>3. Inv /\ AudioBooks => MediaFollowsSession
  BY AudioFollows DEF AudioBooks
<1> QED BY <1>1, <1>2, <1>3, Invariance, PTL DEF Spec

\* Every step of the three tasks is a step of the life of the call that CallLifecycle
\* allows, or no step of it: the safety half of Lifecycle.
THEOREM LifecycleImplemented == Spec /\ []Apart => LifecycleSafety
<1>1. Init => L!Init
  BY DEF Init, L!Init, callMode, InLoop
<1>2. Apart /\ Apart' /\ Inv /\ [Next]_vars => [L!Next]_callMode
  BY ModeStep
<1> QED BY <1>1, <1>2, Invariance, PTL DEF Spec, LifecycleSafety

-----------------------------------------------------------------------------
(* What follows of a call with one of the two features *)

LEMMA FeaturesKept == Spec => []Features
<1>1. Init => Features
  BY FeaturesInit
<1>2. Inv /\ Features /\ [Next]_vars => Features'
  BY FeaturesStep
<1> QED BY <1>1, <1>2, Invariance, PTL DEF Spec

LEMMA ApartKept == ASSUME OneFeature PROVE Spec => []Apart
<1>1. Features => Apart
  BY DEF OneFeature, Features, Apart
<1> QED BY <1>1, FeaturesKept, PTL

\* A call configured with park or with reconnect (call.rs:1931, 2110), but not both, keeps
\* all that the four theorems above say, without a condition on how it goes.
THEOREM OneFeatureSuffices ==
  ASSUME OneFeature
  PROVE  Spec => /\ []OneLiveSession /\ []RedialNeverStalls /\ LifecycleSafety
                 /\ []KeepsUp => []MediaFollowsSession
BY ApartKept, OneSession, NoStall, AudioFollowsSession, LifecycleImplemented, PTL

\* With reconnect on, a call that ends for its lost session has used up a window, or its
\* tap has ended; the prompt of an end that is not redialled does not count as one.
THEOREM WindowUsedUp == ASSUME OneFeature PROVE Spec /\ []KeepsUp => []GivesUpAfterWindow
<1>1. Init => GiveUpBooks
  BY GiveUpInit
<1>2. Inv /\ Features /\ KeepsUp /\ GiveUpBooks /\ [Next]_vars => GiveUpBooks'
  BY GiveUpStep
<1>3. GiveUpBooks => GivesUpAfterWindow
  BY DEF GiveUpBooks
<1> QED BY <1>1, <1>2, <1>3, Invariance, FeaturesKept, PTL DEF Spec

-----------------------------------------------------------------------------
(* What follows of every call *)

\* Through refused and late answers, refused re-INVITEs and the unholds that undo them,
\* the tap ends up on hold exactly when the controller believes it to be.
THEOREM HoldAgreement == Spec /\ []KeepsUp => []HoldAgrees
<1>1. Init => HoldBooks
  BY HoldInit
<1>2. Inv /\ KeepsUp /\ HoldBooks /\ [Next]_vars => HoldBooks'
  BY HoldStep
<1>3. Inv /\ HoldBooks => HoldAgrees
  BY HoldBooksAgree
<1> QED BY <1>1, <1>2, <1>3, Invariance, PTL DEF Spec
=============================================================================
