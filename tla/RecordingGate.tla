---------------------------- MODULE RecordingGate ----------------------------
(***************************************************************************)
(* Recording of one call: the consent announcement and the server's        *)
(* requests as the controller sees them (crates/core/src/call.rs), the     *)
(* announcement and the fork as the media tap plays and feeds them         *)
(* (crates/media-glue/src/tap.rs), and the writer task                     *)
(* (crates/recording/src/writer.rs).  They run concurrently and meet in    *)
(* bounded channels: commands to the tap, controls and frames to the       *)
(* writer (a try_send that finds them full drops), events back, and the    *)
(* one-shot on which the tap says how the announcement ended.              *)
(*                                                                         *)
(* A frame is only what the properties tell apart: whether the writer took *)
(* it while it was paused.  Parking and holding are one interruption of    *)
(* two kinds; when they are allowed is the subject of CallControl.         *)
(***************************************************************************)
EXTENDS Naturals, Sequences

CONSTANTS
  CtrlCap,   \* places for recording controls (CONTROL_CHANNEL_CAPACITY)
  AudioCap,  \* places for forked frames (RECORDING_CHANNEL_CAPACITY)
  TapCap,    \* places for commands to the tap (CONTROL_CHANNEL_CAPACITY)
  LateRetrieve \* a call may be parked and retrieved during the failure prompt

ASSUME GateAssumption == /\ CtrlCap \in Nat \ {0} /\ AudioCap \in Nat \ {0}
                         /\ TapCap \in Nat \ {0} /\ LateRetrieve \in BOOLEAN

VARIABLES
  phase,                \* of CallController::run
  announce_configured, announce_start_after, announce_incomplete,
  rec_blocked, capture_requested,
  announce_done,        \* the one-shot: "off" is no receiver
  announced,            \* announced_ms is Some: the CDR's consent stamp
  session,              \* "up", detached by a park or a redial, or lost for good
  recording_result,
  tap_alive, tap_cmds,
  announcing, music,    \* what the tap plays to the caller
  peer_held,            \* our send is forbidden: the announcement stalls
  heard,                \* the caller heard the whole announcement
  audio, frames_dropped, \* the frames in the channel, and whether one was lost
  rec_ctrl, rec_evt,
  status, writer,       \* the writer's Status, and how its task stands
  latest,               \* the frame for the next tick
  file, pause_leaked,   \* the file, and whether a frame of a pause is in it
  told                  \* recording events the server was sent

askVars == <<announce_start_after, announce_incomplete, rec_blocked, capture_requested>>
ctlVars == <<phase, announce_configured, askVars, announce_done, announced, session,
             recording_result>>
tapVars == <<tap_alive, tap_cmds, announcing, music, peer_held, heard>>
writerVars == <<audio, frames_dropped, rec_ctrl, rec_evt, status, writer, latest, file,
                pause_leaked>>
vars == <<ctlVars, tapVars, writerVars, told>>

AnnounceEnd == {"played", "cut_short", "preempted", "dropped"}
RecControl == {"start", "pause", "resume", "stop"}
RecEvent == {"started", "stopped", "failed"}
TapCommand == {"consent", "failure", "park", "hold", "direct"}

(***************************************************************************)
(* The set-up.  auto is mode "always".  With an announcement the writer    *)
(* starts idle in both modes; one that cannot be read closes the gate, at  *)
(* once or when the server asks.                                           *)
(***************************************************************************)
SetUp(auto, configured, usable) ==
  /\ announce_configured = configured
  /\ announce_start_after = (auto /\ configured /\ usable)
  /\ rec_blocked = (auto /\ configured /\ ~usable)
  /\ announce_incomplete = (~auto /\ configured /\ ~usable)
  /\ capture_requested = (auto /\ ~configured)
  /\ status = IF auto /\ ~configured THEN "opening" ELSE "idle"
  /\ phase = IF configured /\ usable THEN "kickoff" ELSE "running"

Init ==
  /\ \E auto, configured, usable \in BOOLEAN : SetUp(auto, configured, usable)
  /\ announce_done = "off" /\ announced = FALSE /\ session = "up"
  /\ recording_result = "unset"
  /\ tap_alive = TRUE /\ tap_cmds = <<>> /\ announcing = "none" /\ music = "off"
  /\ peer_held \in BOOLEAN /\ heard = FALSE
  /\ audio = 0 /\ frames_dropped = FALSE /\ rec_ctrl = <<>> /\ rec_evt = <<>>
  /\ writer = "live" /\ latest = "none" /\ file = "absent" /\ pause_leaked = FALSE
  /\ told = {}

-----------------------------------------------------------------------------
(* The controller. *)

\* route_rec_control: dropped when the channel is full, or the writer is gone.
Routed(ctrl) ==
  rec_ctrl' = IF writer = "live" /\ Len(rec_ctrl) < CtrlCap THEN Append(rec_ctrl, ctrl)
              ELSE rec_ctrl

\* Mutant: an announcement that was cut short leaves the gate as it is.
FailClosed_Open == UNCHANGED <<rec_blocked, announce_incomplete>>

\* The gate stays shut: for good if capture was demanded, else until it is.
FailClosed ==
  /\ rec_blocked' = (rec_blocked \/ announce_start_after)
  /\ announce_incomplete' = (announce_incomplete \/ ~announce_start_after)

\* The announcement is the first command the tap gets.
Kickoff ==
  /\ phase = "kickoff" /\ phase' = "running"
  /\ \/ /\ tap_alive
        /\ tap_cmds' = Append(tap_cmds, "consent") /\ announce_done' = "pending"
        /\ UNCHANGED <<announce_incomplete, rec_blocked>>
     \/ ~tap_alive /\ FailClosed /\ UNCHANGED <<tap_cmds, announce_done>>
  /\ UNCHANGED <<announce_configured, announce_start_after, capture_requested, announced,
                 session, recording_result, tap_alive, announcing, music, peer_held, heard,
                 writerVars, told>>

Asked ==
  /\ phase = "running" /\ session = "up"
  /\ UNCHANGED <<phase, announce_configured, announce_done, announced, session,
                 recording_result, tapVars, told, audio, frames_dropped, rec_evt, status,
                 writer, latest, file, pause_leaked>>

StartRecording ==
  /\ Asked
  /\ \/ /\ rec_blocked
        /\ UNCHANGED <<askVars, rec_ctrl>>
     \/ /\ ~rec_blocked /\ announce_incomplete
        /\ rec_blocked' = TRUE
        /\ UNCHANGED <<announce_start_after, announce_incomplete, capture_requested, rec_ctrl>>
     \/ /\ ~rec_blocked /\ ~announce_incomplete /\ announce_done # "off"
        /\ announce_start_after' = TRUE
        /\ UNCHANGED <<announce_incomplete, rec_blocked, capture_requested, rec_ctrl>>
     \/ /\ ~rec_blocked /\ ~announce_incomplete /\ announce_done = "off"
        /\ capture_requested' = TRUE /\ Routed("start")
        /\ UNCHANGED <<announce_start_after, announce_incomplete, rec_blocked>>

\* StopRecording, PauseRecording, ResumeRecording
ControlRecording(ctrl) ==
  Asked /\ ctrl # "start" /\ Routed(ctrl) /\ UNCHANGED askVars


\* The completion of the announcement, while the loop runs.
AnnounceDone ==
  /\ phase = "running" /\ announce_done \in AnnounceEnd /\ announce_done' = "off"
  /\ \/ /\ announce_done = "played"
        /\ announced' = TRUE
        /\ capture_requested' = (capture_requested \/ announce_start_after)
        /\ IF announce_start_after THEN Routed("start") ELSE UNCHANGED rec_ctrl
        /\ UNCHANGED <<announce_incomplete, rec_blocked>>
     \/ /\ announce_done = "cut_short"
        /\ FailClosed
        /\ UNCHANGED <<announced, capture_requested, rec_ctrl>>
     \/ /\ announce_done \in {"preempted", "dropped"}
        /\ UNCHANGED <<announced, announce_incomplete, rec_blocked, capture_requested, rec_ctrl>>
  /\ UNCHANGED <<phase, announce_configured, announce_start_after, session, recording_result,
                 tapVars, audio, frames_dropped, rec_evt, status, writer, latest, file,
                 pause_leaked, told>>

\* An event of the writer goes to the server, if there is a session.
RelayEvent ==
  /\ phase = "running" /\ rec_evt # <<>>
  /\ rec_evt' = Tail(rec_evt)
  /\ told' = IF session = "up" THEN told \cup {Head(rec_evt)} ELSE told
  /\ UNCHANGED <<ctlVars, tapVars, audio, frames_dropped, rec_ctrl, status, writer, latest,
                 file, pause_leaked>>

\* What becomes of the session, with the command to the tap that goes with it: a park or a
\* drop that is redialled, a retrieve or a redial that is ready, the failure prompt, hold.
SendTap(cmd, from, to) ==
  /\ phase = "running" /\ session \in from /\ session' = to
  /\ tap_alive /\ Len(tap_cmds) < TapCap /\ tap_cmds' = Append(tap_cmds, cmd)
  /\ UNCHANGED <<phase, announce_configured, askVars, announce_done, announced,
                 recording_result, tap_alive, announcing, music, peer_held, heard,
                 writerVars, told>>

Detach == SendTap("park", IF LateRetrieve THEN {"up", "lost"} ELSE {"up"}, "detached")
Reattach == SendTap("direct", {"detached"}, "up")
FailurePrompt == SendTap("failure", {"up", "detached"}, "lost")
Hold == SendTap("hold", {"up"}, "up")
Unhold == SendTap("direct", {"up"}, "up")

\* Any arm that breaks out of the loop; from here on nothing is relayed.
EndLoop ==
  /\ phase = "running" /\ phase' = "draining"
  /\ UNCHANGED <<announce_configured, askVars, announce_done, announced, session,
                 recording_result, tapVars, writerVars, told>>

\* The tap has exited: a completion nobody has read still counts for the stamp.
ReadLate ==
  /\ phase = "draining" /\ ~tap_alive /\ phase' = "finalizing"
  /\ announced' = (announced \/ announce_done = "played") /\ announce_done' = "off"
  /\ UNCHANGED <<announce_configured, askVars, session, recording_result, tapVars,
                 writerVars, told>>

\* CallOutcome::recording_result: the writer's own result before "blocked".
OutcomeOf(summary) ==
  recording_result' =
    IF summary # "none" THEN summary ELSE IF rec_blocked THEN "blocked" ELSE "none"

Finalize ==
  /\ phase = "finalizing" /\ phase' = "done" /\ writer # "live"
  /\ OutcomeOf(IF writer = "failed" THEN "failed"
               ELSE IF file # "final" THEN "none"
               ELSE IF frames_dropped THEN "degraded" ELSE "ok")
  /\ UNCHANGED <<announce_configured, askVars, announce_done, announced, session, tapVars,
                 writerVars, told>>

\* Mutant: the writer is awaited without a limit.
FinalizeTimeout_Waits == FALSE

\* Mutant (issue 444): the timeout reports a failed recording, also of an idle writer.
FinalizeTimeout_Fabricates ==
  /\ phase = "finalizing" /\ phase' = "done" /\ writer = "live"
  /\ writer' = "aborted" /\ OutcomeOf("failed")
  /\ UNCHANGED <<announce_configured, askVars, announce_done, announced, session, tapVars,
                 audio, frames_dropped, rec_ctrl, rec_evt, status, latest, file,
                 pause_leaked, told>>

\* The writer is not done after 500 ms and is aborted; a file operation it had begun may
\* still complete, because it runs on a thread of its own.
FinalizeTimeout ==
  /\ phase = "finalizing" /\ phase' = "done" /\ writer = "live"
  /\ writer' = "aborted"
  /\ OutcomeOf(IF capture_requested THEN "failed" ELSE "none")
  /\ file' \in {file} \cup (IF status = "opening" THEN {"part"}
                           ELSE IF status = "closing" THEN {"final"} ELSE {})
  /\ UNCHANGED <<announce_configured, askVars, announce_done, announced, session, tapVars,
                 audio, frames_dropped, rec_ctrl, rec_evt, status, latest, pause_leaked, told>>

-----------------------------------------------------------------------------
(* The media tap. *)

\* An announcement that is playing ends with the given news.
Resolve(end) ==
  announce_done' = IF announcing = "consent" THEN end ELSE announce_done

TakeTapCommand ==
  /\ tap_alive /\ tap_cmds # <<>> /\ tap_cmds' = Tail(tap_cmds)
  /\ LET cmd == Head(tap_cmds) IN
       \/ /\ cmd \in {"park", "hold"}
          /\ Resolve("cut_short") /\ announcing' = "none" /\ music' = cmd
       \/ /\ cmd = "direct"
          /\ music' = "off" /\ UNCHANGED <<announcing, announce_done>>
       \/ /\ cmd \in {"consent", "failure"} /\ music # "hold"
          /\ Resolve("preempted") /\ announcing' = cmd /\ UNCHANGED music
       \/ /\ cmd \in {"consent", "failure"} /\ music = "hold"
          /\ announce_done' = IF cmd = "consent" THEN "cut_short" ELSE announce_done
          /\ UNCHANGED <<announcing, music>>
  /\ UNCHANGED <<phase, announce_configured, askVars, announced, session, recording_result,
                 tap_alive, peer_held, heard, writerVars, told>>

\* The announcement reaches its end; it stalls while our send is forbidden.
PromptEnds ==
  /\ tap_alive /\ announcing # "none" /\ music # "hold" /\ ~peer_held
  /\ Resolve("played") /\ heard' = (heard \/ announcing = "consent") /\ announcing' = "none"
  /\ UNCHANGED <<phase, announce_configured, askVars, announced, session, recording_result,
                 tap_alive, tap_cmds, music, peer_held, writerVars, told>>

\* A re-INVITE of the peer.
PeerHold ==
  /\ phase = "running" /\ peer_held' = ~peer_held
  /\ UNCHANGED <<ctlVars, tap_alive, tap_cmds, announcing, music, heard, writerVars, told>>

\* A frame of either leg goes to the recording; none while an announcement plays.
ForkFrame ==
  /\ tap_alive /\ announcing = "none" /\ writer = "live"
  /\ \/ audio < AudioCap /\ audio' = audio + 1 /\ UNCHANGED frames_dropped
     \/ audio = AudioCap /\ frames_dropped' = TRUE /\ UNCHANGED audio
  /\ UNCHANGED <<ctlVars, tapVars, rec_ctrl, rec_evt, status, writer, latest, file,
                 pause_leaked, told>>

\* The tap ends by itself, or because the call does, or is aborted: its end of the one-shot
\* and of the frame channel are dropped.
TapEnds ==
  /\ tap_alive /\ tap_alive' = FALSE
  /\ announce_done' = IF announce_done = "pending" THEN "dropped" ELSE announce_done
  /\ announcing' = "none" /\ tap_cmds' = <<>>
  /\ UNCHANGED <<phase, announce_configured, askVars, announced, session, recording_result,
                 music, peer_held, heard, writerVars, told>>

-----------------------------------------------------------------------------
(* The writer: frames before controls before ticks (a biased select). *)

Writing ==
  /\ writer = "live"
  /\ UNCHANGED <<ctlVars, tapVars, frames_dropped, told>>

\* An I/O error ends the task; the file stays as it is.
Fails ==
  /\ writer' = "failed" /\ rec_evt' = Append(rec_evt, "failed")
  /\ UNCHANGED <<status, file>>

\* Open::create
Opened(ok) ==
  /\ Writing /\ status = "opening"
  /\ \/ /\ ok /\ status' = "recording" /\ file' = "part"
        /\ rec_evt' = Append(rec_evt, "started") /\ UNCHANGED writer
     \/ ~ok /\ Fails
  /\ UNCHANGED <<audio, rec_ctrl, latest, pause_leaked>>

\* Open::finalize: the rename is what makes the file final.
Closed(ok) ==
  /\ Writing /\ status = "closing"
  /\ \/ /\ ok /\ status' = "done" /\ file' = "final"
        /\ rec_evt' = Append(rec_evt, "stopped") /\ UNCHANGED writer
     \/ ~ok /\ Fails
  /\ UNCHANGED <<audio, rec_ctrl, latest, pause_leaked>>

Selecting == Writing /\ status \notin {"opening", "closing"}

RecvFrame ==
  /\ Selecting /\ audio > 0 /\ audio' = audio - 1
  /\ latest' = IF status = "paused" THEN "paused" ELSE "open"
  /\ UNCHANGED <<rec_ctrl, rec_evt, status, writer, file, pause_leaked>>

\* A control that is invalid for the status is ignored.
AfterControl(ctrl) ==
  IF ctrl = "start" /\ status = "idle" THEN "opening"
  ELSE IF ctrl = "pause" /\ status = "recording" THEN "paused"
  ELSE IF ctrl = "resume" /\ status = "paused" THEN "recording"
  ELSE IF ctrl = "stop" /\ status \in {"recording", "paused"} THEN "closing"
  ELSE status

RecvControl ==
  /\ Selecting /\ audio = 0 /\ tap_alive
  /\ rec_ctrl # <<>> /\ rec_ctrl' = Tail(rec_ctrl)
  /\ status' = AfterControl(Head(rec_ctrl))
  /\ UNCHANGED <<audio, rec_evt, writer, latest, file, pause_leaked>>

\* A tick writes the latest frame, or drops it when not recording.
Tick(ok) ==
  /\ Selecting /\ audio = 0 /\ tap_alive /\ rec_ctrl = <<>>
  /\ latest' = "none"
  /\ \/ /\ ok \/ status # "recording"
        /\ pause_leaked' = (pause_leaked \/ (status = "recording" /\ latest = "paused"))
        /\ UNCHANGED <<rec_evt, status, writer, file>>
     \/ ~ok /\ status = "recording" /\ Fails /\ UNCHANGED pause_leaked
  /\ UNCHANGED <<audio, rec_ctrl>>

\* The frame channel is closed and empty: what is open is finalized, and the task ends.
CallOver ==
  /\ Selecting /\ audio = 0 /\ ~tap_alive
  /\ \/ /\ status \in {"recording", "paused"} /\ status' = "closing" /\ UNCHANGED writer
     \/ /\ status \in {"idle", "done"} /\ writer' = "ended" /\ UNCHANGED status
  /\ UNCHANGED <<audio, rec_ctrl, rec_evt, latest, file, pause_leaked>>

-----------------------------------------------------------------------------
Controller ==
  \/ Kickoff \/ AnnounceDone \/ RelayEvent \/ ReadLate \/ Finalize \/ FinalizeTimeout
Server == StartRecording \/ \E ctrl \in RecControl : ControlRecording(ctrl)
World == EndLoop \/ PeerHold \/ Detach \/ Reattach \/ FailurePrompt \/ Hold \/ Unhold
Tap == TakeTapCommand \/ PromptEnds
Writer ==
  \/ RecvFrame \/ RecvControl \/ CallOver
  \/ \E ok \in BOOLEAN : Opened(ok) \/ Closed(ok) \/ Tick(ok)

Ended == phase = "done" /\ UNCHANGED vars

Next == Controller \/ Server \/ World \/ Tap \/ ForkFrame \/ TapEnds \/ Writer \/ Ended

(***************************************************************************)
(* Controller and tap are tasks of the runtime, and no arm of their biased *)
(* selects is ready for ever before a later one: each arm is served.  When *)
(* the loop is over the tap ends or is aborted after 250 ms, and the       *)
(* writer is given up after 500 ms.  Nothing is assumed of the writer: its *)
(* disk may hang.  The peer may forbid our send for ever.                  *)
(***************************************************************************)
Fairness ==
  /\ WF_vars(Kickoff) /\ WF_vars(AnnounceDone) /\ WF_vars(ReadLate)
  /\ WF_vars(Finalize \/ FinalizeTimeout)
  /\ WF_vars(TakeTapCommand) /\ WF_vars(PromptEnds)
  /\ WF_vars(phase = "draining" /\ TapEnds)

Spec == Init /\ [][Next]_vars
FairSpec == Spec /\ Fairness

-----------------------------------------------------------------------------
(* Properties. *)

ControllerType ==
  /\ phase \in {"kickoff", "running", "draining", "finalizing", "done"}
  /\ announce_done \in AnnounceEnd \cup {"off", "pending"}
  /\ session \in {"up", "detached", "lost"}
  /\ recording_result \in {"unset", "none", "ok", "degraded", "failed", "blocked"}
  /\ told \in SUBSET RecEvent

FlagsType ==
  /\ announce_configured \in BOOLEAN /\ announce_start_after \in BOOLEAN
  /\ announce_incomplete \in BOOLEAN /\ rec_blocked \in BOOLEAN
  /\ capture_requested \in BOOLEAN /\ announced \in BOOLEAN /\ tap_alive \in BOOLEAN
  /\ peer_held \in BOOLEAN /\ heard \in BOOLEAN /\ frames_dropped \in BOOLEAN
  /\ pause_leaked \in BOOLEAN

TapType ==
  /\ tap_cmds \in Seq(TapCommand) /\ Len(tap_cmds) <= TapCap
  /\ announcing \in {"none", "consent", "failure"} /\ music \in {"off", "park", "hold"}

WriterType ==
  /\ audio \in 0 .. AudioCap
  /\ rec_ctrl \in Seq(RecControl) /\ Len(rec_ctrl) <= CtrlCap /\ rec_evt \in Seq(RecEvent)
  /\ status \in {"opening", "idle", "recording", "paused", "closing", "done"}
  /\ writer \in {"live", "ended", "failed", "aborted"}
  /\ latest \in {"none", "open", "paused"} /\ file \in {"absent", "part", "final"}

TypeOK == ControllerType /\ FlagsType /\ TapType /\ WriterType

\* call.rs:1093: with an announcement configured nothing is captured before the caller heard
\* all of it, in whatever order the announcement, the server's requests, park, hold, the
\* failure prompt and the end of the call come.
ConsentGate ==
  announce_configured /\ (status # "idle" \/ file # "absent") => heard

\* A blocked recording (call.rs:536) was never begun, asked of the writer, or left a file.
BlockedMeansNone ==
  rec_blocked => ~capture_requested /\ file = "absent" /\ status = "idle"

\* call.rs:311: the result the CDR reports is what is on the disk: a complete file for ok and
\* degraded, none where no recording is reported, and an incomplete one only as failed.
OutcomeTrue ==
  phase = "done" =>
    /\ recording_result \in {"ok", "degraded"} => file = "final"
    /\ recording_result \in {"none", "blocked"} => file = "absent"
    /\ file = "part" => recording_result = "failed"
    /\ recording_result = "failed" => capture_requested

\* call.rs:2619: the consent stamp tells whether the caller heard the announcement, also when
\* it completed while the call was ending.
ConsentStamp == phase = "done" => announced = heard

\* call.rs:536, 311, 2619: what is reported of a recording is true, the block, the result and
\* the stamp, whatever races the finalizing of the file and the end of the call.
ReportTrue == BlockedMeansNone /\ OutcomeTrue /\ ConsentStamp


\* call.rs:2635: a slow final flush cannot wedge the teardown.
TeardownEnds == (phase = "draining") ~> (phase = "done")

-----------------------------------------------------------------------------
(* Statements of the documents that do not hold. *)

\* "the paused audio is dropped" (writer.rs:16): no frame the writer took
\* while it was paused is in the file.
PauseOmits == ~pause_leaked

\* "recording_stopped on call end" (PROTOCOL.md:548): a server that was told of the start and
\* still has its session at the end of the call is told that the recording was finalized.
StopAnnounced ==
  phase = "done" /\ session = "up" /\ recording_result = "ok" /\ "started" \in told
    => "stopped" \in told
=============================================================================
