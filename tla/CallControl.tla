---------------------------- MODULE CallControl ----------------------------
(***************************************************************************)
(* One answered call of siphon-ai: the CallController select loop          *)
(* (crates/core/src/call.rs), the WebSocket sessions it dials one after    *)
(* the other (crates/bridge/src/conn.rs) and the media tap that moves the  *)
(* caller's audio (crates/media-glue/src/tap.rs).  The three run as        *)
(* separate tasks and meet only in channels.                               *)
(*                                                                         *)
(* Every arm of the controller's biased select is an action; the poll of   *)
(* the arms in source order is atomic, so an arm fires only when the arms  *)
(* before it have nothing to deliver.  Outbound control messages are never *)
(* refused here: what a full outbound queue does is module Backpressure.   *)
(***************************************************************************)
EXTENDS Naturals, Sequences

CONSTANTS
  ReconnectEnabled,   \* [bridge].ws_reconnect_enabled
  PromptConfigured,   \* on_ws_failure = "play_prompt"
  ParkEnabled,        \* [park].enabled
  HoldAvailable,      \* the leg has a HoldContext
  ParkTimeoutAction,  \* [park].timeout_secs and timeout_action
  TapQueueCap,        \* CONTROL_CHANNEL_CAPACITY of the tap command channel
  MaxRedials,         \* bound: redials of a dropped session
  MaxParkCmds,        \* bound: park and retrieve requests made
  MaxServerMsgs       \* bound: control messages the server sends

ASSUME ConfigAssumption ==
  /\ {ReconnectEnabled, PromptConfigured, ParkEnabled, HoldAvailable} \subseteq BOOLEAN
  /\ ParkTimeoutAction \in {"none", "hangup", "keep"}

ASSUME BoundsAssumption ==
  /\ TapQueueCap \in Nat \ {0}
  /\ MaxRedials \in Nat
  /\ MaxParkCmds \in Nat
  /\ MaxServerMsgs \in Nat

VARIABLES
  (* the controller's locals *)
  pc, termination, bridge_result, cur, bridge_alive, control_open,
  parked, park_deadline_armed, held,
  reconnecting, reconnect_backoff_armed, reconnect_deadline_armed,
  reconnect_ready_rx, pending_unpark, window_closed,
  (* its accounts: registry slot, gauge, reconnect episodes *)
  slot, gauge, episodes, recovered, exhausted,
  (* requests waiting for it *)
  notified, remote_bye, drain_forced, park_cmds, park_reqs, control_in, server_msgs,
  (* the WebSocket sessions *)
  sess,
  (* the tap *)
  tap, tap_cmds, tap_parked, tap_held, tap_prompt, ws_dropped, media, blocked,
  (* oneshots from the tap to the controller *)
  ws_prompt, prompts, hold_ack, holds

loopVars == <<pc, termination>>
bridgeVars == <<bridge_result, cur, bridge_alive, control_open>>
parkVars == <<parked, park_deadline_armed>>
redialVars == <<reconnecting, reconnect_backoff_armed, reconnect_deadline_armed,
                reconnect_ready_rx, pending_unpark, window_closed>>
bookVars == <<slot, gauge, episodes, recovered, exhausted>>
handleVars == <<notified, remote_bye, drain_forced, park_cmds, park_reqs>>
wireVars == <<control_in, server_msgs>>
tapVars == <<tap, tap_cmds, tap_parked, tap_held, tap_prompt, ws_dropped, media, blocked>>
promptVars == <<ws_prompt, prompts>>
holdVars == <<held, hold_ack, holds>>
vars == <<loopVars, bridgeVars, parkVars, redialVars, bookVars, handleVars, wireVars,
          sess, tapVars, promptVars, holdVars>>

-----------------------------------------------------------------------------
(* Sessions, commands, outcomes *)

Session == 1 .. (1 + MaxRedials + MaxParkCmds)
NoSession == 0

DisconnectReason == {"StopSent", "ControllerHungUp", "ServerClosed", "ServerTooSlow",
                     "ProtocolError", "Err", "aborted"}

CallTermination == {"CallerHangup", "ServerHangup", "LocalShutdown", "DrainForced",
                    "BridgeEnded", "WsDisconnect", "TapEnded"}

Phase == {"unused", "dialing", "live", "ended"}
Url == {"configured", "operator"}

SessionState == [phase : Phase, ready : BOOLEAN, stop : BOOLEAN,
                 result : DisconnectReason \cup {"none"}, url : Url]

Fresh(phase, url) == [phase |-> phase, ready |-> FALSE, stop |-> FALSE,
                      result |-> "none", url |-> url]

\* A tap command; n is the session of an unpark, the number of an announce or hold.
TapCommand == [op : {"unpark"}, n : Session]
              \cup [op : {"park", "hold", "unhold", "announce", "other"}, n : Nat]
Cmd(op) == [op |-> op, n |-> 0]

ParkCommand == {"park", "retrieve", "retrieve_elsewhere"}
BridgeIn == {"hangup", "hold", "resume", "park", "other"}
TapDisconnect == {"ControllerHungUp", "InactivityTimeout", "CallEnded", "aborted"}
AnnounceEnd == {"played", "cut_short", "lost"}

Ended(s) == sess[s].phase = "ended"

\* An unexpected drop: worth redialling, and the CDR's ws_disconnect.
reconnect_eligible(r) == r \in {"ServerClosed", "Err"}
ws_failure_prompt_eligible(r) == r \notin {"StopSent", "ControllerHungUp"}
bridge_termination(r) == IF r \in {"ServerClosed", "Err"} THEN "WsDisconnect" ELSE "BridgeEnded"

survive_ws_drop == ReconnectEnabled \/ PromptConfigured

InLoop == pc \notin {"draining", "done"}

\* Someone holds the tap-side ends of session s's audio and control channels.
ChannelsHeld(s) ==
  \/ tap = "running" /\ media = s
  \/ pc # "done" /\ pending_unpark = s
  \/ \E i \in 1 .. Len(tap_cmds) : tap_cmds[i].op = "unpark" /\ tap_cmds[i].n = s

-----------------------------------------------------------------------------
(* The controller: what each arm shares *)

TapAccepts == tap = "running" /\ Len(tap_cmds) < TapQueueCap
TapSend(c) == tap_cmds' = Append(tap_cmds, c)
TapTrySend(c) == tap_cmds' = IF TapAccepts THEN Append(tap_cmds, c) ELSE tap_cmds

tapRest == <<tap, tap_parked, tap_held, tap_prompt, ws_dropped, media, blocked>>

\* A stop event queued on the current session's outbound control channel.
SendStop == sess' = [sess EXCEPT ![cur].stop = @ \/ sess[cur].phase \in {"dialing", "live"}]

\* Wrong: an episode still open is not counted (EpisodeBooks).
Finish_OpenEpisode(t) ==
  /\ pc' = "draining"
  /\ termination' = t
  /\ slot' = (slot /\ ~parked)
  /\ gauge' = IF parked THEN gauge - 1 ELSE gauge
  /\ UNCHANGED <<episodes, recovered, exhausted>>

\* Breaking out of the loop closes the books on an open park and an open episode.
Finish(t) ==
  /\ pc' = "draining"
  /\ termination' = t
  /\ slot' = (slot /\ ~parked)
  /\ gauge' = IF parked THEN gauge - 1 ELSE gauge
  /\ exhausted' = IF reconnecting THEN exhausted + 1 ELSE exhausted
  /\ UNCHANGED <<episodes, recovered>>

\* connect_and_run on fresh channels; the old bridge task is no longer ours.
Dial(url) ==
  /\ cur + 1 \in Session
  /\ cur' = cur + 1
  /\ sess' = [sess EXCEPT ![cur + 1] = Fresh("dialing", url)]
  /\ bridge_alive' = TRUE
  /\ control_open' = TRUE
  /\ control_in' = <<>>
  /\ UNCHANGED <<bridge_result, server_msgs>>

\* What the arms deliver, in the order select polls them.
ControlReady == control_open /\ (control_in # <<>> \/ Ended(cur))
RedialReady == reconnecting /\ reconnect_ready_rx # NoSession
               /\ (sess[reconnect_ready_rx].ready \/ Ended(reconnect_ready_rx))
PromptReady == ws_prompt \in AnnounceEnd
BridgeReady == bridge_alive /\ Ended(cur)

BeforeControl == pc = "select" /\ ~notified
BeforePark == BeforeControl /\ ~ControlReady
BeforeTimers == BeforePark /\ park_cmds = <<>>
BeforeDeadline == BeforeTimers /\ ~RedialReady
BeforeBridge == BeforeDeadline /\ ~PromptReady
BeforeTap == BeforeBridge /\ ~BridgeReady

-----------------------------------------------------------------------------
(* Arm 1: shutdown.notified() *)

Shutdown ==
  /\ pc = "select" /\ notified
  /\ notified' = FALSE
  /\ Finish(IF drain_forced THEN "DrainForced"
            ELSE IF remote_bye THEN "CallerHangup" ELSE "LocalShutdown")
  /\ SendStop
  /\ UNCHANGED <<bridgeVars, parkVars, redialVars, remote_bye, drain_forced, park_cmds,
                 park_reqs, wireVars, tapVars, promptVars, holdVars>>

(* Arm 2: control_in_rx *)

ServerSaid(m) ==
  /\ BeforeControl /\ control_open /\ control_in # <<>> /\ Head(control_in) = m
  /\ control_in' = Tail(control_in)

ServerHangup ==
  /\ ServerSaid("hangup")
  /\ Finish("ServerHangup")
  /\ SendStop
  /\ UNCHANGED <<bridgeVars, parkVars, redialVars, handleVars, server_msgs, tapVars,
                 promptVars, holdVars>>

\* Clear, Mark, Mute, SendDtmf...: forwarded to the tap, dropped if its queue is full.
ForwardToTap ==
  /\ ServerSaid("other")
  /\ TapTrySend(Cmd("other"))
  /\ UNCHANGED <<loopVars, bridgeVars, parkVars, redialVars, bookVars, handleVars,
                 server_msgs, sess, tapRest, promptVars, holdVars>>

\* A park from the server joins the operator's on the one park command channel.
ServerPark ==
  /\ ServerSaid("park")
  /\ park_cmds' = Append(park_cmds, "park")
  /\ UNCHANGED <<loopVars, bridgeVars, parkVars, redialVars, bookVars, notified, remote_bye,
                 drain_forced, park_reqs, server_msgs, sess, tapVars, promptVars, holdVars>>

\* The tap goes on hold first and says whether it did; the loop waits for its answer.
\* Already held: re-acked.  Held by the peer, no HoldContext, tap queue full: an error.
ServerHold ==
  /\ ServerSaid("hold")
  /\ \/ /\ ~held /\ HoldAvailable /\ TapAccepts
        /\ holds' = holds + 1
        /\ TapSend([op |-> "hold", n |-> holds + 1])
        /\ pc' = "hold_ack"
        /\ hold_ack' = "none"
     \/ UNCHANGED <<pc, tap_cmds, hold_ack, holds>>
  /\ UNCHANGED <<termination, bridgeVars, parkVars, redialVars, bookVars, handleVars,
                 server_msgs, sess, tapRest, promptVars, held>>

HoldAcked ==
  /\ pc = "hold_ack" /\ hold_ack = "yes"
  /\ pc' = "hold_reinvite"
  /\ UNCHANGED <<termination, bridgeVars, parkVars, redialVars, bookVars, handleVars,
                 wireVars, sess, tapVars, promptVars, holdVars>>

\* Refused, or no answer within HOLD_TAP_ACK_TIMEOUT: undo it, best effort.
HoldRefused ==
  /\ pc = "hold_ack" /\ hold_ack # "yes"
  /\ pc' = "select"
  /\ hold_ack' = "gone"
  /\ TapTrySend(Cmd("unhold"))
  /\ UNCHANGED <<termination, bridgeVars, parkVars, redialVars, bookVars, handleVars,
                 wireVars, sess, tapRest, promptVars, held, holds>>

\* Wrong: a refused re-INVITE leaves the tap on hold (HoldAgrees).
HoldReinviteDone_NoRevert ==
  /\ pc = "hold_reinvite"
  /\ pc' = "select"
  /\ held' \in {held, TRUE}
  /\ UNCHANGED <<termination, bridgeVars, parkVars, redialVars, bookVars, handleVars,
                 wireVars, sess, tapVars, promptVars, hold_ack, holds>>

HoldReinviteDone ==
  /\ pc = "hold_reinvite"
  /\ pc' = "select"
  /\ \/ held' = TRUE /\ UNCHANGED tap_cmds
     \/ TapTrySend(Cmd("unhold")) /\ UNCHANGED held
  /\ UNCHANGED <<termination, bridgeVars, parkVars, redialVars, bookVars, handleVars,
                 wireVars, sess, tapRest, promptVars, hold_ack, holds>>

ServerResume ==
  /\ ServerSaid("resume")
  /\ pc' = IF held THEN "resume_reinvite" ELSE pc
  /\ UNCHANGED <<termination, bridgeVars, parkVars, redialVars, bookVars, handleVars,
                 server_msgs, sess, tapVars, promptVars, holdVars>>

ResumeReinviteDone ==
  /\ pc = "resume_reinvite"
  /\ pc' = "select"
  /\ \/ held' = FALSE /\ TapTrySend(Cmd("unhold"))
     \/ UNCHANGED <<held, tap_cmds>>
  /\ UNCHANGED <<termination, bridgeVars, parkVars, redialVars, bookVars, handleVars,
                 wireVars, sess, tapRest, promptVars, hold_ack, holds>>

\* The bridge dropped its end: stop polling the channel until a new session is dialled.
ControlClosed ==
  /\ BeforeControl /\ control_open /\ control_in = <<>> /\ Ended(cur)
  /\ control_open' = FALSE
  /\ UNCHANGED <<loopVars, bridge_result, cur, bridge_alive, parkVars, redialVars, bookVars,
                 handleVars, wireVars, sess, tapVars, promptVars, holdVars>>

-----------------------------------------------------------------------------
(* Arms 6 and 7: park, retrieve, park timeout *)

NextParkCmd(c) == BeforePark /\ park_cmds # <<>> /\ Head(park_cmds) \in c
                  /\ park_cmds' = Tail(park_cmds)

\* Wrong: the old session is not told to stop (OneLiveSession).
ParkCall_NoStop ==
  /\ NextParkCmd({"park"})
  /\ ~parked /\ ParkEnabled /\ TapAccepts
  /\ TapSend(Cmd("park"))
  /\ parked' = TRUE
  /\ park_deadline_armed' = (park_deadline_armed \/ ParkTimeoutAction # "none")
  /\ slot' = TRUE
  /\ gauge' = gauge + 1
  /\ UNCHANGED <<loopVars, bridgeVars, redialVars, episodes, recovered, exhausted, notified,
                 remote_bye, drain_forced, park_reqs, wireVars, sess, tapRest, promptVars,
                 holdVars>>

ParkCall ==
  /\ NextParkCmd({"park"})
  /\ ~parked /\ ParkEnabled /\ TapAccepts
  /\ TapSend(Cmd("park"))
  /\ SendStop
  /\ parked' = TRUE
  /\ park_deadline_armed' = (park_deadline_armed \/ ParkTimeoutAction # "none")
  /\ slot' = TRUE
  /\ gauge' = gauge + 1
  /\ UNCHANGED <<loopVars, bridgeVars, redialVars, episodes, recovered, exhausted, notified,
                 remote_bye, drain_forced, park_reqs, wireVars, tapRest, promptVars, holdVars>>

\* Wrong: when the tap cannot be reached the slot is not given back (ParkBooks).
ParkRefused_KeepsSlot ==
  /\ NextParkCmd({"park"})
  /\ slot' = (slot \/ (ParkEnabled /\ ~TapAccepts))
  /\ UNCHANGED <<loopVars, bridgeVars, parkVars, redialVars, gauge, episodes, recovered,
                 exhausted, notified, remote_bye, drain_forced, park_reqs, wireVars, sess,
                 tapVars, promptVars, holdVars>>

\* Already parked, park disabled, the registry full, or the tap unreachable (the slot
\* just taken is given back): the call stays as it was.
ParkRefused ==
  /\ NextParkCmd({"park"})
  /\ slot' = (slot /\ parked)
  /\ UNCHANGED <<loopVars, bridgeVars, parkVars, redialVars, gauge, episodes, recovered,
                 exhausted, notified, remote_bye, drain_forced, park_reqs, wireVars, sess,
                 tapVars, promptVars, holdVars>>

\* A fresh session, perhaps at the URL the operator gave; its channels go to the tap.
RetrieveCall ==
  /\ \/ NextParkCmd({"retrieve"}) /\ Dial("configured")
     \/ NextParkCmd({"retrieve_elsewhere"}) /\ Dial("operator")
  /\ parked
  /\ TapTrySend([op |-> "unpark", n |-> cur + 1])
  /\ parked' = FALSE
  /\ park_deadline_armed' = FALSE
  /\ slot' = FALSE
  /\ gauge' = gauge - 1
  /\ UNCHANGED <<loopVars, redialVars, episodes, recovered, exhausted, notified, remote_bye,
                 drain_forced, park_reqs, tapRest, promptVars, holdVars>>

RetrieveIgnored ==
  /\ NextParkCmd({"retrieve", "retrieve_elsewhere"})
  /\ ~parked
  /\ UNCHANGED <<loopVars, bridgeVars, parkVars, redialVars, bookVars, notified, remote_bye,
                 drain_forced, park_reqs, wireVars, sess, tapVars, promptVars, holdVars>>

ParkTimeout ==
  /\ BeforeTimers /\ parked /\ park_deadline_armed
  /\ park_deadline_armed' = FALSE
  /\ IF ParkTimeoutAction = "keep"
       THEN UNCHANGED <<loopVars, bookVars>>
       ELSE Finish("LocalShutdown")
  /\ UNCHANGED <<bridgeVars, parked, redialVars, handleVars, wireVars, sess, tapVars,
                 promptVars, holdVars>>

-----------------------------------------------------------------------------
(* Arms 8 to 12: redial timer, redial ready, reconnect window, failure prompt *)

\* Hand the prompt to the tap.  It cannot start when the file is unusable or the tap
\* command queue refuses it; the caller of this then gives up with plain teardown.
StartPrompt ==
  /\ PromptConfigured /\ TapAccepts
  /\ prompts' = prompts + 1
  /\ ws_prompt' = "playing"
  /\ TapSend([op |-> "announce", n |-> prompts + 1])

\* (The bound leaves a session for every retrieve that may still come.)
Redial ==
  /\ BeforeTimers /\ reconnecting /\ reconnect_backoff_armed
  /\ cur + 1 + (MaxParkCmds - park_reqs) \in Session
  /\ reconnect_backoff_armed' = FALSE
  /\ Dial("configured")
  /\ pending_unpark' = cur + 1
  /\ reconnect_ready_rx' = cur + 1
  /\ UNCHANGED <<loopVars, parkVars, reconnecting, reconnect_deadline_armed, window_closed,
                 bookVars, handleVars, tapVars, promptVars, holdVars>>

\* Wrong: the music goes on over the recovered session (MediaFollowsSession).
RedialRecovered_NoUnpark ==
  /\ BeforeTimers /\ RedialReady /\ sess[reconnect_ready_rx].ready
  /\ reconnect_ready_rx' = NoSession
  /\ reconnecting' = FALSE
  /\ reconnect_deadline_armed' = FALSE
  /\ reconnect_backoff_armed' = FALSE
  /\ recovered' = recovered + 1
  /\ UNCHANGED <<loopVars, bridgeVars, parkVars, pending_unpark, window_closed, slot, gauge,
                 episodes, exhausted, handleVars, wireVars, sess, tapVars, promptVars,
                 holdVars>>

\* The redialled session sent its start: drop the music and hand it to the tap.
RedialRecovered ==
  /\ BeforeTimers /\ RedialReady /\ sess[reconnect_ready_rx].ready
  /\ reconnect_ready_rx' = NoSession
  /\ IF pending_unpark = NoSession
       THEN UNCHANGED tap_cmds
       ELSE TapTrySend([op |-> "unpark", n |-> pending_unpark])
  /\ pending_unpark' = NoSession
  /\ reconnecting' = FALSE
  /\ reconnect_deadline_armed' = FALSE
  /\ reconnect_backoff_armed' = FALSE
  /\ recovered' = recovered + 1
  /\ UNCHANGED <<loopVars, bridgeVars, parkVars, window_closed, slot, gauge, episodes,
                 exhausted, handleVars, wireVars, sess, tapRest, promptVars, holdVars>>

\* The redial died before it was ready; the bridge arm deals with that.
RedialNotReady ==
  /\ BeforeTimers /\ RedialReady /\ ~sess[reconnect_ready_rx].ready
  /\ reconnect_ready_rx' = NoSession
  /\ UNCHANGED <<loopVars, bridgeVars, parkVars, reconnecting, reconnect_backoff_armed,
                 reconnect_deadline_armed, pending_unpark, window_closed, bookVars, handleVars,
                 wireVars, sess, tapVars, promptVars, holdVars>>

\* The window elapsed.  Whatever redial is in flight is left running.  (window_closed is a
\* history variable: no other step sets it, and only GivesUpAfterWindow reads it.)
WindowElapsed ==
  /\ BeforeDeadline /\ reconnecting /\ reconnect_deadline_armed
  /\ reconnecting' = FALSE
  /\ reconnect_backoff_armed' = FALSE
  /\ reconnect_deadline_armed' = FALSE
  /\ window_closed' = TRUE
  /\ \/ /\ StartPrompt
        /\ exhausted' = exhausted + 1
        /\ UNCHANGED <<loopVars, slot, gauge, episodes, recovered>>
     \/ /\ Finish(bridge_termination(bridge_result))
        /\ UNCHANGED <<promptVars, tap_cmds>>
  /\ UNCHANGED <<bridgeVars, parkVars, reconnect_ready_rx, pending_unpark, handleVars,
                 wireVars, sess, tapRest, holdVars>>

\* Wrong: the prompt has no 30 s cap (Lifecycle).
PromptOver_NoCap ==
  /\ BeforeDeadline /\ PromptReady
  /\ ws_prompt' = "none"
  /\ Finish(bridge_termination(bridge_result))
  /\ UNCHANGED <<bridgeVars, parkVars, redialVars, handleVars, wireVars, sess, tapVars,
                 prompts, holdVars>>

\* The prompt resolved one way or another, or hit its 30 s cap.
PromptOver ==
  /\ BeforeDeadline /\ ws_prompt # "none"
  /\ ws_prompt' = "none"
  /\ Finish(bridge_termination(bridge_result))
  /\ UNCHANGED <<bridgeVars, parkVars, redialVars, handleVars, wireVars, sess, tapVars,
                 prompts, holdVars>>

-----------------------------------------------------------------------------
(* Arm 13: the bridge task ended, for reason r *)

BridgeEnds(r) ==
  /\ BeforeBridge /\ BridgeReady /\ r = sess[cur].result
  /\ bridge_alive' = FALSE
  /\ bridge_result' = r
  /\ UNCHANGED <<cur, control_open, parkVars, handleVars, wireVars, sess, tapRest, holdVars>>

\* The end of a parked call's session is the park's own doing.
DetachedSessionEnds ==
  /\ parked
  /\ BridgeEnds(sess[cur].result)
  /\ UNCHANGED <<loopVars, redialVars, bookVars, tap_cmds, promptVars>>

\* Wrong: nothing schedules the next redial (RedialNeverStalls).
RedialFailed_NoBackoff ==
  /\ ~parked /\ reconnecting
  /\ BridgeEnds(sess[cur].result)
  /\ reconnect_ready_rx' = NoSession
  /\ pending_unpark' = NoSession
  /\ UNCHANGED <<loopVars, reconnecting, reconnect_backoff_armed, reconnect_deadline_armed,
                 window_closed, bookVars, tap_cmds, promptVars>>

\* Wrong: the first redial that fails is the last (GivesUpAfterWindow).
RedialFailed_GivesUp ==
  /\ ~parked /\ reconnecting
  /\ BridgeEnds(sess[cur].result)
  /\ Finish(bridge_termination(bridge_result'))
  /\ UNCHANGED <<redialVars, tap_cmds, promptVars>>

\* A redial that died before it was ready: back off and try again.  (The source's other
\* branch, a window already closed, cannot be reached: see RedialTimersArmed.)
RedialFailed ==
  /\ ~parked /\ reconnecting
  /\ BridgeEnds(sess[cur].result)
  /\ reconnect_ready_rx' = NoSession
  /\ pending_unpark' = NoSession
  /\ reconnect_backoff_armed' = TRUE
  /\ UNCHANGED <<loopVars, reconnecting, reconnect_deadline_armed, window_closed, bookVars,
                 tap_cmds, promptVars>>

\* The first unexpected drop: music for the caller, and the reconnect window opens.
SessionDrops ==
  /\ ~parked /\ ~reconnecting /\ ReconnectEnabled /\ reconnect_eligible(sess[cur].result)
  /\ BridgeEnds(sess[cur].result)
  /\ IF TapAccepts
       THEN /\ TapSend(Cmd("park"))
            /\ reconnecting' = TRUE
            /\ reconnect_backoff_armed' = TRUE
            /\ reconnect_deadline_armed' = TRUE
            /\ episodes' = episodes + 1
            /\ UNCHANGED <<loopVars, slot, gauge, recovered, exhausted, reconnect_ready_rx,
                           pending_unpark, window_closed>>
       ELSE /\ Finish(bridge_termination(bridge_result'))
            /\ UNCHANGED <<tap_cmds, redialVars>>
  /\ UNCHANGED promptVars

\* Not to be recovered: apologise if configured, else tear down.
SessionLost ==
  /\ ~parked /\ ~reconnecting
  /\ ~(ReconnectEnabled /\ reconnect_eligible(sess[cur].result))
  /\ BridgeEnds(sess[cur].result)
  /\ \/ /\ ws_failure_prompt_eligible(sess[cur].result)
        /\ StartPrompt
        /\ UNCHANGED <<loopVars, bookVars>>
     \/ /\ Finish(bridge_termination(bridge_result'))
        /\ UNCHANGED <<promptVars, tap_cmds>>
  /\ UNCHANGED redialVars

(* Arm 14: the tap task ended *)

TapEnded ==
  /\ BeforeTap /\ tap # "running"
  /\ Finish("TapEnded")
  /\ IF tap = "InactivityTimeout" THEN SendStop ELSE UNCHANGED sess
  /\ UNCHANGED <<bridgeVars, parkVars, redialVars, handleVars, wireVars, tapVars,
                 promptVars, holdVars>>

-----------------------------------------------------------------------------
(* After the loop: wait for the two tasks, 250 ms each, then abort them.  A bridge that *)
(* has not finished although the call is said to have ended with it is waited for       *)
(* without limit.  Sessions the controller no longer holds end unobserved.              *)

\* Wrong: a redial in flight when the window closes is waited for without limit
\* (ShutdownServed).
BridgeAborted_NotAfterDrop ==
  /\ pc = "draining" /\ ~Ended(cur) /\ termination \notin {"BridgeEnded", "WsDisconnect"}
  /\ sess' = [sess EXCEPT ![cur].phase = "ended", ![cur].result = "aborted"]
  /\ UNCHANGED <<loopVars, bridgeVars, parkVars, redialVars, bookVars, handleVars, wireVars,
                 tapVars, promptVars, holdVars>>

BridgeAborted ==
  /\ pc = "draining" /\ ~Ended(cur) /\ termination # "BridgeEnded"
  /\ sess' = [sess EXCEPT ![cur].phase = "ended", ![cur].result = "aborted"]
  /\ UNCHANGED <<loopVars, bridgeVars, parkVars, redialVars, bookVars, handleVars, wireVars,
                 tapVars, promptVars, holdVars>>

\* The tap ends because its channels close, or is aborted: nobody asks which.
TapDrained ==
  /\ pc = "draining" /\ Ended(cur) /\ tap = "running"
  /\ tap' = "aborted"
  /\ tap_cmds' = <<>>
  /\ UNCHANGED <<loopVars, bridgeVars, parkVars, redialVars, bookVars, handleVars, wireVars,
                 sess, tap_parked, tap_held, tap_prompt, ws_dropped, media, blocked,
                 promptVars, holdVars>>

RunReturns ==
  /\ pc = "draining" /\ Ended(cur) /\ tap # "running"
  /\ pc' = "done"
  /\ UNCHANGED <<termination, bridgeVars, parkVars, redialVars, bookVars, handleVars,
                 wireVars, sess, tapVars, promptVars, holdVars>>

Controller ==
  \/ Shutdown \/ ServerHangup \/ ForwardToTap \/ ServerPark \/ ControlClosed
  \/ ServerHold \/ HoldAcked \/ HoldRefused \/ HoldReinviteDone
  \/ ServerResume \/ ResumeReinviteDone
  \/ ParkCall \/ ParkRefused \/ RetrieveCall \/ RetrieveIgnored
  \/ ParkTimeout
  \/ Redial \/ RedialRecovered \/ RedialNotReady
  \/ WindowElapsed \/ PromptOver
  \/ DetachedSessionEnds \/ RedialFailed \/ SessionDrops \/ SessionLost \/ TapEnded
  \/ BridgeAborted \/ TapDrained \/ RunReturns

-----------------------------------------------------------------------------
(* The CallHandle: who may ask the controller for something *)

controllerLocals == <<loopVars, bridgeVars, parkVars, redialVars, bookVars>>

\* A BYE from the peer marks the handle before it wakes the controller; so does the
\* shutdown drain.  An admin hang-up or an expired session timer only wakes it.  After
\* the loop nothing of this module reads the marks, and they are left alone.
RequestShutdown ==
  /\ pc # "done" /\ ~notified
  /\ notified' = TRUE
  /\ \/ InLoop /\ remote_bye' = TRUE /\ UNCHANGED drain_forced
     \/ InLoop /\ drain_forced' = TRUE /\ UNCHANGED remote_bye
     \/ UNCHANGED <<remote_bye, drain_forced>>
  /\ UNCHANGED <<controllerLocals, park_cmds, park_reqs, wireVars, sess, tapVars, promptVars,
                 holdVars>>

\* The admin API checks the registry before it asks for a retrieve; the call may have
\* moved on when the controller takes the command.  (Nothing reads the requests, nor
\* the server's messages, after the loop: they are not made then.)
OperatorAsks(c) ==
  /\ InLoop /\ park_reqs < MaxParkCmds
  /\ c = "park" \/ slot
  /\ park_reqs' = park_reqs + 1
  /\ park_cmds' = Append(park_cmds, c)
  /\ UNCHANGED <<controllerLocals, notified, remote_bye, drain_forced, wireVars, sess, tapVars,
                 promptVars, holdVars>>

-----------------------------------------------------------------------------
(* The bridge task of session s *)

bridgeRest == <<controllerLocals, handleVars, tapVars, promptVars, holdVars>>

EndSession(s, r) ==
  /\ sess' = [sess EXCEPT ![s].phase = "ended", ![s].result = r]
  /\ UNCHANGED <<bridgeRest, wireVars>>

\* Handshake done, start sent, ready signalled.
BridgeConnects(s) ==
  /\ sess[s].phase = "dialing"
  /\ sess' = [sess EXCEPT ![s].phase = "live", ![s].ready = TRUE]
  /\ UNCHANGED <<bridgeRest, wireVars>>

\* Refused, TLS failure, or connect_timeout.
BridgeConnectFails(s) == sess[s].phase = "dialing" /\ EndSession(s, "Err")

BridgeSendsStop(s) == sess[s].phase = "live" /\ sess[s].stop /\ EndSession(s, "StopSent")

\* The server closes or is lost, never speaks, or sends nonsense.
BridgeBreaks(s, r) ==
  /\ sess[s].phase = "live"
  /\ r \in {"ServerClosed", "Err", "ServerTooSlow", "ProtocolError"}
  /\ EndSession(s, r)

\* Nobody is left at the other end of one of its channels.
BridgeOrphaned(s) ==
  /\ sess[s].phase = "live"
  /\ s # cur \/ ~ChannelsHeld(s)
  /\ EndSession(s, "ControllerHungUp")

\* A control message from the server.  With its audio channel closed the bridge's biased
\* select never gets past that arm, and the server is not heard at all.
BridgeHears(m) ==
  /\ InLoop /\ sess[cur].phase = "live" /\ ChannelsHeld(cur) /\ server_msgs < MaxServerMsgs
  /\ server_msgs' = server_msgs + 1
  /\ control_in' = Append(control_in, m)
  /\ UNCHANGED <<bridgeRest, sess>>

Bridge(s) ==
  \/ BridgeConnects(s) \/ BridgeConnectFails(s) \/ BridgeSendsStop(s) \/ BridgeOrphaned(s)
  \/ \E r \in DisconnectReason : BridgeBreaks(s, r)

-----------------------------------------------------------------------------
(* The tap task.  Its select is biased too: a closed channel is noticed before a frame, *)
(* a frame before a command.  After the loop only its end counts, see TapDrained.       *)

TapRuns == tap = "running" /\ InLoop

tapRestOfCall == <<controllerLocals, handleVars, wireVars, sess>>

\* Whoever waits for announcement n learns how it ended.
ResolvePrompt(n, end) ==
  ws_prompt' = IF n = prompts /\ ws_prompt = "playing" THEN end ELSE ws_prompt

TapEnds(r) ==
  /\ tap' = r
  /\ tap_cmds' = <<>>
  /\ ws_prompt' = IF ws_prompt = "playing" THEN "lost" ELSE ws_prompt
  /\ hold_ack' = IF hold_ack = "none" THEN "no" ELSE hold_ack
  /\ UNCHANGED <<tapRestOfCall, tap_parked, tap_held, tap_prompt, ws_dropped, media, blocked,
                 prompts, held, holds>>

CloseNoticed == ~tap_parked /\ ~ws_dropped /\ Ended(media)

\* The session's channel closed: the end of the call, unless drops are to be survived.
TapSeesDrop ==
  /\ TapRuns /\ ~blocked /\ CloseNoticed
  /\ IF survive_ws_drop
       THEN /\ ws_dropped' = TRUE
            /\ UNCHANGED <<tapRestOfCall, tap, tap_cmds, tap_parked, tap_held, tap_prompt,
                           media, blocked, promptVars, holdVars>>
       ELSE TapEnds("ControllerHungUp")

\* A caller frame for the session.  The send waits while the audio channel is full.
ForwardsFrames == TapRuns /\ ~tap_parked /\ ~tap_held /\ tap_prompt = 0

FrameWaits ==
  /\ ForwardsFrames /\ ~blocked /\ ~Ended(media)
  /\ blocked' = TRUE
  /\ UNCHANGED <<tapRestOfCall, tap, tap_cmds, tap_parked, tap_held, tap_prompt, ws_dropped,
                 media, promptVars, holdVars>>

FrameSent ==
  /\ TapRuns /\ blocked /\ sess[media].phase = "live"
  /\ blocked' = FALSE
  /\ UNCHANGED <<tapRestOfCall, tap, tap_cmds, tap_parked, tap_held, tap_prompt, ws_dropped,
                 media, promptVars, holdVars>>

\* The send fails once the session is gone, whether or not drops are to be survived.
FrameFails ==
  /\ ForwardsFrames /\ Ended(media) /\ (blocked \/ ~CloseNoticed)
  /\ TapEnds("ControllerHungUp")

\* No inbound RTP for the inactivity window, or forge ends the media session.
MediaEnds(r) ==
  /\ TapRuns /\ ~blocked
  /\ r = "CallEnded" \/ (r = "InactivityTimeout" /\ ~tap_held)
  /\ TapEnds(r)

TapTakes(op) ==
  /\ TapRuns /\ ~blocked /\ ~CloseNoticed
  /\ tap_cmds # <<>> /\ Head(tap_cmds).op = op
  /\ tap_cmds' = Tail(tap_cmds)
  /\ UNCHANGED <<tapRestOfCall, tap, blocked, prompts, held, holds>>

\* Hold music takes the caller's ear; an announcement under way is cut short.
TapParks ==
  /\ TapTakes("park")
  /\ tap_parked' = TRUE
  /\ tap_prompt' = 0
  /\ ResolvePrompt(tap_prompt, "cut_short")
  /\ UNCHANGED <<tap_held, ws_dropped, media, hold_ack>>

\* Wrong: the caller is still sent to the session that was parked (MediaFollowsSession).
TapUnparks_OldChannels ==
  /\ TapTakes("unpark")
  /\ tap_parked' = FALSE /\ ws_dropped' = FALSE
  /\ UNCHANGED <<media, tap_held, tap_prompt, ws_prompt, hold_ack>>

\* Not parked: a no-op, and the channels that came with the command are dropped.
TapUnparks ==
  /\ TapTakes("unpark")
  /\ IF tap_parked
       THEN tap_parked' = FALSE /\ ws_dropped' = FALSE /\ media' = Head(tap_cmds).n
       ELSE UNCHANGED <<tap_parked, ws_dropped, media>>
  /\ UNCHANGED <<tap_held, tap_prompt, ws_prompt, hold_ack>>

TapAnswersHold(a) ==
  hold_ack' = IF pc = "hold_ack" /\ hold_ack = "none" /\ Head(tap_cmds).n = holds
                THEN a ELSE hold_ack

\* Refused in a conference room; whether the controller still listens or not, a hold
\* that is accepted is installed.
TapHolds ==
  /\ TapTakes("hold")
  /\ \/ /\ TapAnswersHold("yes")
        /\ tap_held' = TRUE
        /\ tap_prompt' = 0
        /\ ResolvePrompt(tap_prompt, "cut_short")
     \/ /\ TapAnswersHold("no")
        /\ UNCHANGED <<tap_held, tap_prompt, ws_prompt>>
  /\ UNCHANGED <<tap_parked, ws_dropped, media>>

TapUnholds ==
  /\ TapTakes("unhold")
  /\ tap_held' = FALSE
  /\ UNCHANGED <<tap_parked, tap_prompt, ws_dropped, media, ws_prompt, hold_ack>>

\* Skipped while held; otherwise it replaces the announcement being played, if any.
TapAnnounces ==
  /\ TapTakes("announce")
  /\ IF tap_held
       THEN ResolvePrompt(Head(tap_cmds).n, "cut_short") /\ UNCHANGED tap_prompt
       ELSE tap_prompt' = Head(tap_cmds).n /\ UNCHANGED ws_prompt
  /\ UNCHANGED <<tap_parked, tap_held, ws_dropped, media, hold_ack>>

TapTakesOther ==
  /\ TapTakes("other")
  /\ UNCHANGED <<tap_parked, tap_held, tap_prompt, ws_dropped, media, ws_prompt, hold_ack>>

PromptPlayed ==
  /\ TapRuns /\ ~blocked /\ tap_prompt # 0 /\ ~tap_held
  /\ tap_prompt' = 0
  /\ ResolvePrompt(tap_prompt, "played")
  /\ UNCHANGED <<tapRestOfCall, tap, tap_cmds, tap_parked, tap_held, ws_dropped, media,
                 blocked, prompts, holdVars>>

TapCommands == TapParks \/ TapUnparks \/ TapHolds \/ TapUnholds \/ TapAnnounces \/ TapTakesOther

Tap ==
  \/ TapSeesDrop \/ FrameWaits \/ FrameSent \/ FrameFails \/ TapCommands \/ PromptPlayed
  \/ \E r \in TapDisconnect : MediaEnds(r)

-----------------------------------------------------------------------------
Init ==
  /\ pc = "select" /\ termination = "none"
  /\ bridge_result = "none" /\ cur = 1 /\ bridge_alive = TRUE /\ control_open = TRUE
  /\ parked = FALSE /\ park_deadline_armed = FALSE
  /\ reconnecting = FALSE
  /\ reconnect_backoff_armed = FALSE /\ reconnect_deadline_armed = FALSE
  /\ reconnect_ready_rx = NoSession /\ pending_unpark = NoSession
  /\ window_closed = FALSE
  /\ slot = FALSE /\ gauge = 0 /\ episodes = 0 /\ recovered = 0 /\ exhausted = 0
  /\ notified = FALSE /\ remote_bye = FALSE /\ drain_forced = FALSE
  /\ park_cmds = <<>> /\ park_reqs = 0
  /\ control_in = <<>> /\ server_msgs = 0
  /\ sess = [s \in Session |-> Fresh(IF s = 1 THEN "dialing" ELSE "unused", "configured")]
  /\ tap = "running" /\ tap_cmds = <<>>
  /\ tap_parked = FALSE /\ tap_held = FALSE /\ tap_prompt = 0
  /\ ws_dropped = FALSE /\ media = 1 /\ blocked = FALSE
  /\ ws_prompt = "none" /\ prompts = 0
  /\ held = FALSE /\ hold_ack = "gone" /\ holds = 0

Over == pc = "done" /\ UNCHANGED vars

Next ==
  \/ Controller
  \/ RequestShutdown
  \/ \E c \in ParkCommand : OperatorAsks(c)
  \/ \E s \in Session : (InLoop \/ s = cur) /\ Bridge(s)
  \/ \E m \in BridgeIn : BridgeHears(m)
  \/ Tap
  \/ Over

\* The controller is scheduled, and everything it waits for is bounded by a timer: the
\* re-INVITEs, the tap's answer to a hold, the park and reconnect windows, the prompt, the
\* waits after the loop.  Nothing obliges a server to read, to speak or to close, so no
\* fairness is asked of a bridge, nor of a tap that waits for one.
Fairness == WF_vars(Controller)

Spec == Init /\ [][Next]_vars /\ Fairness

-----------------------------------------------------------------------------
(* Properties *)

ControllerType ==
  /\ pc \in {"select", "hold_ack", "hold_reinvite", "resume_reinvite", "draining", "done"}
  /\ termination \in CallTermination \cup {"none"}
  /\ bridge_result \in DisconnectReason \cup {"none"}
  /\ cur \in Session
  /\ bridge_alive \in BOOLEAN /\ control_open \in BOOLEAN
  /\ parked \in BOOLEAN /\ park_deadline_armed \in BOOLEAN /\ held \in BOOLEAN
  /\ reconnecting \in BOOLEAN
  /\ reconnect_backoff_armed \in BOOLEAN /\ reconnect_deadline_armed \in BOOLEAN
  /\ reconnect_ready_rx \in Session \cup {NoSession}
  /\ pending_unpark \in Session \cup {NoSession}
  /\ window_closed \in BOOLEAN

BooksType ==
  /\ slot \in BOOLEAN /\ gauge \in Nat
  /\ episodes \in Nat /\ recovered \in Nat /\ exhausted \in Nat

RequestType ==
  /\ notified \in BOOLEAN /\ remote_bye \in BOOLEAN /\ drain_forced \in BOOLEAN
  /\ park_cmds \in Seq(ParkCommand) /\ park_reqs \in Nat
  /\ control_in \in Seq(BridgeIn) /\ server_msgs \in Nat

SessionType == sess \in [Session -> SessionState]

TapType ==
  /\ tap \in TapDisconnect \cup {"running"}
  /\ tap_cmds \in Seq(TapCommand)
  /\ tap_parked \in BOOLEAN /\ tap_held \in BOOLEAN /\ tap_prompt \in Nat
  /\ ws_dropped \in BOOLEAN /\ blocked \in BOOLEAN /\ media \in Session
  /\ ws_prompt \in AnnounceEnd \cup {"none", "playing"} /\ prompts \in Nat
  /\ hold_ack \in {"none", "yes", "no", "gone"} /\ holds \in Nat

TypeOK == ControllerType /\ BooksType /\ RequestType /\ SessionType /\ TapType

\* The registry slot and the parked-calls gauge follow the call in and out of park,
\* whatever ends the park: retrieve, timeout, BYE, drain.
ParkBooks ==
  /\ slot = (parked /\ InLoop)
  /\ gauge = IF parked /\ InLoop THEN 1 ELSE 0

\* One increment of ws_reconnects_total per reconnect episode, recovered or exhausted.
EpisodeBooks ==
  episodes = recovered + exhausted + IF reconnecting /\ InLoop THEN 1 ELSE 0

\* While reconnecting the window is running, and never otherwise: the episode is bounded.
RedialTimersArmed ==
  /\ reconnecting <=> reconnect_deadline_armed
  /\ reconnect_backoff_armed => reconnecting

\* call.rs:2184: whatever ends a reconnect episode first (ready, window, end of the call)
\* settles it once, recovered or exhausted, and leaves none of its timers behind.
EpisodeSettled == EpisodeBooks /\ RedialTimersArmed

\* An episode always has something to wait for besides its window: a redial timer, or a
\* redial in flight whose channels are staged for the tap.
RedialNeverStalls ==
  reconnecting /\ InLoop =>
    reconnect_backoff_armed \/ (bridge_alive /\ pending_unpark = cur)

\* Any session but the newest one is being closed: a server never has two of them.
OneLiveSession ==
  \A s \in Session : s # cur /\ sess[s].phase \in {"dialing", "live"} => sess[s].stop

\* When the loop is idle on a connected call, caller audio goes to the live session.
MediaFollowsSession ==
  /\ pc = "select" /\ tap = "running" /\ tap_cmds = <<>> /\ sess[cur].phase = "live"
  /\ ~parked /\ ~reconnecting /\ ws_prompt = "none"
  => media = cur /\ ~tap_parked

\* The controller and the tap agree on whether the caller is on hold.
HoldAgrees == pc = "select" /\ tap = "running" /\ tap_cmds = <<>> => held = tap_held

\* call.rs:2184 against 2282: with reconnect on, a lost session ends the call only after a
\* reconnect window has elapsed, not for a redial that failed, nor in the middle of an
\* episode, whatever failed in it; unless there is no tap left to hold the caller.
GivesUpAfterWindow ==
  ReconnectEnabled /\ termination = "WsDisconnect" => window_closed \/ tap # "running"

\* A shutdown request always ends the call: BYE, admin hang-up, drain.
ShutdownServed == notified ~> pc = "done"

callMode ==
  IF ~InLoop THEN "over"
  ELSE IF ws_prompt # "none" THEN "apologising"
  ELSE IF parked THEN "parked"
  ELSE IF reconnecting THEN "recovering" ELSE "bridged"

L == INSTANCE CallLifecycle WITH mode <- callMode
Lifecycle == L!Spec

\* With reconnect on, losing the session does not end the tap while the call goes on.
DropKeepsTap == ReconnectEnabled /\ InLoop => tap # "ControllerHungUp"
=============================================================================
