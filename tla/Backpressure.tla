---------------------------- MODULE Backpressure ----------------------------
(***************************************************************************)
(* The bounded channels of one call, at the grain of single sends and      *)
(* receives: control_out and audio_out towards the WebSocket session       *)
(* (crates/bridge/src/conn.rs), control_in and audio_in from it.  The      *)
(* controller, the session's task and the tap all await room in a full     *)
(* channel, inside a select arm, and take nothing else while they wait.    *)
(* The question is who waits for whom.                                     *)
(*                                                                         *)
(* A reply, an event, a control message or a frame is only counted; what   *)
(* they say is CallControl's.  The session is one that is connected; when  *)
(* it ends the call ends (no park, no redial).                             *)
(***************************************************************************)
EXTENDS Naturals, Sequences

CONSTANTS
  OutCap,         \* CONTROL_CHANNEL_CAPACITY of control_out
  InCap,          \* CONTROL_CHANNEL_CAPACITY of control_in
  AudioCap,       \* AUDIO_CHANNEL_CAPACITY of audio_out and audio_in
  WireCap,        \* what the socket buffers before a write has to wait
  MaxBatch,       \* most 20 ms frames one inbound media frame can complete
  MaxServerMsgs   \* bound: control messages the server sends

ASSUME CapAssumption ==
  /\ OutCap \in Nat \ {0} /\ InCap \in Nat \ {0} /\ AudioCap \in Nat \ {0}
  /\ WireCap \in Nat \ {0} /\ MaxServerMsgs \in Nat

\* The longest Opus packet is six 20 ms frames, and what was left over may complete a
\* seventh; the audio channels hold ten.
ASSUME BatchAssumption == MaxBatch \in 1 .. AudioCap

VARIABLES
  pc, notified,              \* the controller: where it waits; a shutdown request
  bridge, holding,           \* the session's task: where it waits; what it is writing
  tap, tap_left,             \* the tap: where it waits; frames left of its batch
  out, control_in,           \* control channels
  audio_out, audio_in,       \* audio channels
  wire, server_msgs          \* bytes the server has not read; its control messages

vars == <<pc, notified, bridge, holding, tap, tap_left, out, control_in,
          audio_out, audio_in, wire, server_msgs>>

sessionVars == <<bridge, holding>>
tapVars == <<tap, tap_left>>
audioVars == <<audio_out, audio_in>>
netVars == <<wire, server_msgs>>

Item == {"event", "stop"}

-----------------------------------------------------------------------------
(* The controller.  Its select is biased: shutdown, control_in, the rest. *)

TakeShutdown ==
  /\ pc = "select" /\ notified
  /\ notified' = FALSE
  /\ pc' = "stopping"
  /\ UNCHANGED <<sessionVars, tapVars, out, control_in, audioVars, netVars>>

\* A message is forwarded to the tap, answered at once, answered after a re-INVITE (hold
\* and resume), or ends the call (hangup).
TakeControl ==
  /\ pc = "select" /\ ~notified /\ control_in > 0
  /\ control_in' = control_in - 1
  /\ pc' \in {"select", "replying", "reinvite", "stopping"}
  /\ UNCHANGED <<notified, sessionVars, tapVars, out, audioVars, netVars>>

\* The 2xx, the refusal, or the transaction timeout: the server is told either way.
ReinviteDone ==
  /\ pc = "reinvite"
  /\ pc' = "replying"
  /\ UNCHANGED <<notified, sessionVars, tapVars, out, control_in, audioVars, netVars>>

\* A lower arm has something to tell: a REFER outcome, a join, a recording event.
ControllerTells ==
  /\ pc = "select" /\ ~notified /\ control_in = 0
  /\ pc' = "replying"
  /\ UNCHANGED <<notified, sessionVars, tapVars, out, control_in, audioVars, netVars>>

\* control_out_tx.send(..).await: waits for room; fails at once if the session is gone.
Send(item) ==
  IF bridge = "ended" THEN UNCHANGED out
                      ELSE Len(out) < OutCap /\ out' = Append(out, item)

\* An inactive caller is reported before the stop, anything else lets the loop go on.
Replied ==
  /\ pc \in {"replying", "reporting"}
  /\ Send("event")
  /\ pc' = IF pc = "replying" THEN "select" ELSE "stopping"
  /\ UNCHANGED <<notified, sessionVars, tapVars, control_in, audioVars, netVars>>

StopQueued ==
  /\ pc = "stopping"
  /\ Send("stop")
  /\ pc' = "draining"
  /\ UNCHANGED <<notified, sessionVars, tapVars, control_in, audioVars, netVars>>

SessionOver ==
  /\ pc = "select" /\ ~notified /\ control_in = 0 /\ bridge = "ended"
  /\ pc' = "draining"
  /\ UNCHANGED <<notified, sessionVars, tapVars, out, control_in, audioVars, netVars>>

\* No RTP from the caller is told to the server; a caller who hung up is not.
TapOver ==
  /\ pc = "select" /\ ~notified /\ control_in = 0 /\ bridge # "ended" /\ tap = "ended"
  /\ pc' \in {"reporting", "draining"}
  /\ UNCHANGED <<notified, sessionVars, tapVars, out, control_in, audioVars, netVars>>

\* The two tasks have 250 ms each, then they are aborted.
Drained ==
  /\ pc = "draining"
  /\ pc' = "done"
  /\ bridge' = "ended" /\ tap' = "ended"
  /\ UNCHANGED <<notified, holding, tap_left, out, control_in, audioVars, netVars>>

Controller ==
  \/ TakeShutdown \/ TakeControl \/ ReinviteDone \/ Replied \/ StopQueued
  \/ SessionOver \/ TapOver \/ Drained

-----------------------------------------------------------------------------
(* Others that push events towards the session: the tap (marks, playout, speech,    *)
(* rtp_stats) and the acceptor (the peer's hold).  All of them try_send: no room,   *)
(* no event.                                                                        *)

\* Wrong: the event takes the room a waiting controller was promised (ShutdownServed).
PushEvent_Barges ==
  /\ bridge # "ended" /\ pc # "done"
  /\ Len(out) < OutCap
  /\ out' = Append(out, "event")
  /\ UNCHANGED <<pc, notified, sessionVars, tapVars, control_in, audioVars, netVars>>

\* The channel is fair: room that is freed belongs to the sender that waits for it.
PushEvent ==
  /\ bridge # "ended" /\ pc # "done"
  /\ Len(out) + (IF pc \in {"replying", "reporting", "stopping"} THEN 1 ELSE 0) < OutCap
  /\ out' = Append(out, "event")
  /\ UNCHANGED <<pc, notified, sessionVars, tapVars, control_in, audioVars, netVars>>

RequestShutdown ==
  /\ pc # "done" /\ ~notified
  /\ notified' = TRUE
  /\ UNCHANGED <<pc, sessionVars, tapVars, out, control_in, audioVars, netVars>>

-----------------------------------------------------------------------------
(* The session's task.  Its select is biased: control_out, audio_out, the server. *)

TakeEvent ==
  /\ bridge = "select" /\ out # <<>>
  /\ holding' = Head(out)
  /\ out' = Tail(out)
  /\ bridge' = "writing"
  /\ UNCHANGED <<pc, notified, tapVars, control_in, audioVars, netVars>>

TakeAudio ==
  /\ bridge = "select" /\ out = <<>> /\ audio_out > 0
  /\ holding' = "audio"
  /\ audio_out' = audio_out - 1
  /\ bridge' = "writing"
  /\ UNCHANGED <<pc, notified, tapVars, out, control_in, audio_in, netVars>>

\* sink.send(..).await: waits until the socket takes it.  A stop is the last message.
Write ==
  /\ bridge = "writing" /\ wire < WireCap
  /\ wire' = wire + 1
  /\ bridge' = IF holding = "stop" THEN "ended" ELSE "select"
  /\ UNCHANGED <<pc, notified, holding, tapVars, out, control_in, audioVars, server_msgs>>

\* Wrong: the server is listened to before the caller's audio is sent (NoAudioCycle).
ServerIdle_BeforeAudio == bridge = "select" /\ out = <<>> /\ tap # "ended"

\* The server is polled when there is nothing to send; never again once the tap is gone,
\* since its closed channel is always ready.
ServerIdle == bridge = "select" /\ out = <<>> /\ audio_out = 0 /\ tap # "ended"

HearControl ==
  /\ ServerIdle /\ server_msgs < MaxServerMsgs
  /\ server_msgs' = server_msgs + 1
  /\ bridge' = "to_controller"
  /\ UNCHANGED <<pc, notified, holding, tapVars, out, control_in, audioVars, wire>>

HearAudio ==
  /\ ServerIdle
  /\ bridge' = "to_tap"
  /\ UNCHANGED <<pc, notified, holding, tapVars, out, control_in, audioVars, netVars>>

\* A pong or a ping, a rate-limited audio_format error; or error and stop, the session's
\* own end (protocol error, silence).
OwnWrite ==
  /\ ServerIdle
  /\ holding' \in {"own", "stop"}
  /\ bridge' = "writing"
  /\ UNCHANGED <<pc, notified, tapVars, out, control_in, audioVars, netVars>>

\* control_in_tx.send(..).await
HandToController ==
  /\ bridge = "to_controller" /\ control_in < InCap
  /\ control_in' = control_in + 1
  /\ bridge' = "select"
  /\ UNCHANGED <<pc, notified, holding, tapVars, out, audioVars, netVars>>

\* audio_in_tx.send(..).await
HandToTap ==
  /\ bridge = "to_tap" /\ tap # "ended" /\ audio_in < AudioCap
  /\ audio_in' = audio_in + 1
  /\ bridge' = "select"
  /\ UNCHANGED <<pc, notified, holding, tapVars, out, control_in, audio_out, netVars>>

HandToTapFails ==
  /\ bridge = "to_tap" /\ tap = "ended"
  /\ bridge' = "ended"
  /\ UNCHANGED <<pc, notified, holding, tapVars, out, control_in, audioVars, netVars>>

\* Closed by the server, an I/O error (also of a write that waits), or keepalive.  The
\* timers are arms of the select: while the task waits for room in a channel or in the
\* socket, none of them fires.
SessionBreaks ==
  /\ ServerIdle \/ bridge = "writing"
  /\ bridge' = "ended"
  /\ UNCHANGED <<pc, notified, holding, tapVars, out, control_in, audioVars, netVars>>

Session ==
  TakeEvent \/ TakeAudio \/ Write \/ HandToController \/ HandToTap \/ HandToTapFails

ServerReads ==
  /\ wire > 0
  /\ wire' = wire - 1
  /\ UNCHANGED <<pc, notified, sessionVars, tapVars, out, control_in, audioVars, server_msgs>>

-----------------------------------------------------------------------------
(* The tap.  Its select is biased: closed channels, playout, the caller's frames. *)

TapPlays ==
  /\ tap = "select" /\ audio_in > 0
  /\ audio_in' = audio_in - 1
  /\ UNCHANGED <<pc, notified, sessionVars, tapVars, out, control_in, audio_out, netVars>>

\* One inbound frame may complete several 20 ms frames; each is sent in turn.
TapTakesFrames ==
  /\ tap = "select" /\ audio_in = 0 /\ bridge # "ended"
  /\ tap' = "sending"
  /\ tap_left' \in 1 .. MaxBatch
  /\ UNCHANGED <<pc, notified, sessionVars, out, control_in, audioVars, netVars>>

\* caller_audio_tx.send(..).await
TapSends ==
  /\ tap = "sending" /\ bridge # "ended" /\ audio_out < AudioCap
  /\ audio_out' = audio_out + 1
  /\ tap_left' = tap_left - 1
  /\ tap' = IF tap_left = 1 THEN "select" ELSE "sending"
  /\ UNCHANGED <<pc, notified, sessionVars, out, control_in, audio_in, netVars>>

TapEnds ==
  /\ tap # "ended" /\ bridge = "ended"
  /\ tap' = "ended"
  /\ UNCHANGED <<pc, notified, sessionVars, tap_left, out, control_in, audioVars, netVars>>

\* The caller hung up, or no RTP for the inactivity timeout.
MediaEnds ==
  /\ tap = "select"
  /\ tap' = "ended"
  /\ UNCHANGED <<pc, notified, sessionVars, tap_left, out, control_in, audioVars, netVars>>

Tap == TapPlays \/ TapSends \/ TapEnds

-----------------------------------------------------------------------------
Init ==
  /\ pc = "select" /\ notified = FALSE
  /\ bridge = "select" /\ holding = "event"
  /\ tap = "select" /\ tap_left = 0
  /\ out = <<>> /\ control_in = 0 /\ audio_out = 0 /\ audio_in = 0
  /\ wire = 0 /\ server_msgs = 0

Over == pc = "done" /\ UNCHANGED vars

Next ==
  \/ Controller \/ ControllerTells \/ PushEvent \/ RequestShutdown
  \/ Session \/ HearControl \/ HearAudio \/ OwnWrite \/ SessionBreaks \/ ServerReads
  \/ Tap \/ TapTakesFrames \/ MediaEnds
  \/ Over

\* The three tasks are scheduled.  The server speaks, and the caller is heard, or not.
Fairness == WF_vars(Controller) /\ WF_vars(Session) /\ WF_vars(Tap)

Spec == Init /\ [][Next]_vars /\ Fairness

\* With a server that goes on reading.
ReadingSpec == Spec /\ WF_vars(ServerReads)

-----------------------------------------------------------------------------
(* Properties *)

\* No channel holds more than it has room for.
TypeOK ==
  /\ pc \in {"select", "reinvite", "replying", "reporting", "stopping", "draining", "done"}
  /\ notified \in BOOLEAN
  /\ bridge \in {"select", "writing", "to_controller", "to_tap", "ended"}
  /\ holding \in Item \cup {"audio", "own"}
  /\ tap \in {"select", "sending", "ended"} /\ tap_left \in 0 .. MaxBatch
  /\ out \in Seq(Item) /\ Len(out) <= OutCap
  /\ control_in \in 0 .. InCap
  /\ audio_out \in 0 .. AudioCap /\ audio_in \in 0 .. AudioCap
  /\ wire \in 0 .. WireCap /\ server_msgs \in 0 .. MaxServerMsgs

BridgeWaitsForTap == bridge = "to_tap" /\ audio_in = AudioCap
TapWaitsForBridge == tap = "sending" /\ audio_out = AudioCap

\* Audio never deadlocks a call: the session's task and the tap never both wait for room
\* in the channel the other one empties.
NoAudioCycle == ~(BridgeWaitsForTap /\ TapWaitsForBridge)

\* A shutdown request ends the call.
ShutdownServed == notified ~> pc = "done"
=============================================================================
