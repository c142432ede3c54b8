------------------------- MODULE RecordingGateProofs -------------------------
(***************************************************************************)
(* Proofs about RecordingGate, for any capacities of its channels: types,  *)
(* the consent gate, that a blocked recording was never begun, that the    *)
(* reported result is what is on the disk, and the consent stamp.  The     *)
(* gate rests on what the announcement's one-shot says of the caller, so   *)
(* the invariant relates the tap's commands, the announcement it plays,    *)
(* the one-shot and the controls on their way to the writer.               *)
(***************************************************************************)
EXTENDS RecordingGate, TLAPS

Has(seq, x) == \E i \in 1 .. Len(seq) : seq[i] = x

\* The tap: the announcement is asked for once, plays while the one-shot is open, and only a
\* failure prompt, sent when the session is lost, replaces it.
TapBooks ==
  /\ Has(tap_cmds, "consent") => announce_done = "pending" /\ announcing = "none"
  /\ \A i \in 1 .. Len(tap_cmds) : tap_cmds[i] = "consent" => i = 1
  /\ Has(tap_cmds, "failure") \/ announcing = "failure" \/ announce_done = "preempted" =>
       session = "lost"
  /\ announcing = "consent" => announce_done = "pending"
  /\ announce_done = "pending" => tap_alive
  /\ announce_done = "dropped" => ~tap_alive
  /\ announce_done = "played" => heard
  /\ heard => announced \/ announce_done = "played"
  /\ announced => heard

\* Nothing was asked of the writer.
Unasked == ~capture_requested /\ status = "idle" /\ ~Has(rec_ctrl, "start")

\* The gate: while the announcement is to come, or failed, the writer has not been asked; and
\* when it is over and was not heard, something else keeps the server from asking.
GateBooks ==
  /\ phase = "kickoff" =>
       /\ announce_configured /\ tap_cmds = <<>> /\ announcing = "none"
       /\ announce_done = "off" /\ ~heard /\ session = "up"
  /\ phase = "kickoff" \/ announce_done # "off" \/ rec_blocked \/ announce_incomplete => Unasked
  /\ phase = "kickoff" \/ announce_done # "off" => ~rec_blocked /\ ~announce_incomplete
  /\ announce_configured /\ phase = "running" /\ announce_done = "off" =>
       heard \/ rec_blocked \/ announce_incomplete \/ session = "lost" \/ ~tap_alive
  /\ announce_configured /\ ~heard =>
       status = "idle" /\ (tap_alive => ~Has(rec_ctrl, "start"))
  /\ Has(rec_ctrl, "start") \/ status # "idle" => capture_requested

\* The file follows the writer's status, until the writer is aborted.
FileBooks ==
  /\ status = "idle" => file = "absent"
  /\ status = "opening" /\ writer # "aborted" => file = "absent"
  /\ status \in {"recording", "paused"} => file = "part"
  /\ status = "closing" /\ writer # "aborted" => file = "part"
  /\ status = "done" => file = "final"
  /\ writer = "ended" => status \in {"idle", "done"}
  /\ writer = "failed" => status \notin {"idle", "done"}
  /\ writer = "aborted" => phase = "done"

EndBooks ==
  /\ phase \in {"finalizing", "done"} => ~tap_alive /\ announce_done = "off"
  /\ phase = "done" => writer # "live"
  /\ OutcomeTrue

IInv == TypeOK /\ TapBooks /\ GateBooks /\ FileBooks /\ EndBooks
LEMMA InitInv == Init => IInv
<1> SUFFICES ASSUME Init PROVE IInv
  OBVIOUS
<1>1. PICK auto, configured, usable \in BOOLEAN : SetUp(auto, configured, usable)
  BY DEF Init
<1>2. TypeOK
  <2>1. ControllerType
    BY <1>1 DEF SetUp, Init, ControllerType
  <2>2. FlagsType
    BY <1>1, Zenon DEF SetUp, Init, FlagsType
  <2>3. TapType
    BY GateAssumption DEF Init, TapType
  <2>4. WriterType
    <3>1. status \in {"opening", "idle"}
      BY <1>1 DEF SetUp
    <3> QED BY <3>1, GateAssumption DEF Init, WriterType
  <2> QED BY <2>1, <2>2, <2>3, <2>4 DEF TypeOK
<1>3. GateBooks
  <2>1. \A x : ~Has(tap_cmds, x) /\ ~Has(rec_ctrl, x)
    BY DEF Init, Has
  <2>2. ~announced /\ ~heard /\ announce_done = "off" /\ session = "up" /\ tap_cmds = <<>>
    BY DEF Init
  <2>3. announcing = "none"
    BY DEF Init
  <2>4. CASE configured
    BY <1>1, <2>1, <2>2, <2>3, <2>4 DEF SetUp, GateBooks, Unasked
  <2>5. CASE ~configured
    BY <1>1, <2>1, <2>2, <2>3, <2>5 DEF SetUp, GateBooks, Unasked
  <2> QED BY <2>4, <2>5
<1>4. TapBooks /\ EndBooks
  BY <1>1 DEF SetUp, Init, TapBooks, EndBooks, OutcomeTrue, Has
<1>5. FileBooks
  BY <1>1 DEF SetUp, Init, FileBooks
<1> QED BY <1>2, <1>3, <1>4, <1>5 DEF IInv

-----------------------------------------------------------------------------
(* Sequences. *)

LEMMA HasAppend ==
  ASSUME NEW S, NEW s \in Seq(S), NEW x \in S, NEW y
  PROVE  Append(s, x) \in Seq(S) /\ (Has(Append(s, x), y) <=> Has(s, y) \/ x = y)
<1>1. Has(s, y) => Has(Append(s, x), y)
  BY DEF Has
<1>2. x = y => Has(Append(s, x), y)
  <2>1. Append(s, x)[Len(s) + 1] = x /\ Len(s) + 1 \in 1 .. Len(Append(s, x))
    OBVIOUS
  <2> QED BY <2>1 DEF Has
<1>3. Has(Append(s, x), y) => Has(s, y) \/ x = y
  BY DEF Has
<1> QED BY <1>1, <1>2, <1>3

LEMMA HasTail ==
  ASSUME NEW S, NEW s \in Seq(S), s # <<>>
  PROVE  /\ Tail(s) \in Seq(S) /\ Head(s) \in S /\ Has(s, Head(s))
         /\ \A y : Has(Tail(s), y) => Has(s, y)
<1>1. Tail(s) \in Seq(S) /\ Head(s) \in S /\ s[1] = Head(s) /\ 1 \in 1 .. Len(s)
  OBVIOUS
<1>2. \A i \in 1 .. Len(Tail(s)) : i + 1 \in 1 .. Len(s) /\ Tail(s)[i] = s[i + 1]
  OBVIOUS
<1> QED BY <1>1, <1>2 DEF Has

LEMMA HasNone == \A y : ~Has(<<>>, y)
BY DEF Has

\* What route_rec_control may change: one control more at the end.
LEMMA RoutedAdds ==
  ASSUME TypeOK, NEW ctrl \in RecControl, Routed(ctrl)
  PROVE  \/ rec_ctrl' = rec_ctrl
         \/ /\ rec_ctrl' \in Seq(RecControl) /\ Len(rec_ctrl') <= CtrlCap
            /\ \A x : Has(rec_ctrl', x) => Has(rec_ctrl, x) \/ x = ctrl
<1>1. CASE rec_ctrl' = rec_ctrl
  BY <1>1
<1>2. CASE rec_ctrl' = Append(rec_ctrl, ctrl) /\ Len(rec_ctrl) < CtrlCap
  <2>1. rec_ctrl \in Seq(RecControl) /\ CtrlCap \in Nat
    BY GateAssumption DEF TypeOK, WriterType
  <2>2. rec_ctrl' \in Seq(RecControl) /\ Len(rec_ctrl') <= CtrlCap
    BY <1>2, <2>1
  <2>3. \A x : Has(rec_ctrl', x) => Has(rec_ctrl, x) \/ x = ctrl
    BY <1>2, <2>1, HasAppend
  <2> QED BY <2>2, <2>3
<1> QED BY <1>1, <1>2 DEF Routed

-----------------------------------------------------------------------------
(* Each step keeps the invariant. *)

LEMMA Inv_RelayEvent == IInv /\ RelayEvent => IInv'
<1> SUFFICES ASSUME IInv, RelayEvent PROVE IInv'
  OBVIOUS
<1> USE DEF IInv, vars, ctlVars, askVars, tapVars, writerVars, RelayEvent
<1>1. TypeOK'
  <2>1. ControllerType'
    <3>1. Head(rec_evt) \in RecEvent
      BY DEF TypeOK, WriterType
    <3> QED BY <3>1 DEF TypeOK, ControllerType
  <2>2. FlagsType'
    BY DEF TypeOK, FlagsType
  <2>3. TapType'
    BY GateAssumption DEF TypeOK, TapType
  <2>4. WriterType'
    BY GateAssumption DEF TypeOK, WriterType
  <2> QED BY <2>1, <2>2, <2>3, <2>4 DEF TypeOK
<1>2. TapBooks'
  BY DEF TapBooks, GateBooks, Has
<1>3. GateBooks'
  BY DEF TapBooks, GateBooks, FileBooks, EndBooks, Unasked, Has
<1>4. FileBooks'
  BY DEF TypeOK, WriterType, GateBooks, FileBooks, EndBooks
<1>5. EndBooks'
  BY DEF TypeOK, WriterType, TapBooks, GateBooks, FileBooks, EndBooks, OutcomeTrue, Unasked
<1> QED BY <1>1, <1>2, <1>3, <1>4, <1>5

LEMMA Inv_EndLoop == IInv /\ EndLoop => IInv'
<1> SUFFICES ASSUME IInv, EndLoop PROVE IInv'
  OBVIOUS
<1> USE DEF IInv, vars, ctlVars, askVars, tapVars, writerVars, EndLoop
<1>1. TypeOK'
  <2>1. ControllerType'
    BY DEF TypeOK, ControllerType, AnnounceEnd
  <2>2. FlagsType'
    BY DEF TypeOK, FlagsType
  <2>3. TapType'
    BY GateAssumption DEF TypeOK, TapType
  <2>4. WriterType'
    BY GateAssumption DEF TypeOK, WriterType
  <2> QED BY <2>1, <2>2, <2>3, <2>4 DEF TypeOK
<1>2. TapBooks'
  BY DEF TapBooks, GateBooks, Has
<1>3. GateBooks'
  BY DEF TapBooks, GateBooks, FileBooks, EndBooks, Unasked, Has
<1>4. FileBooks'
  BY DEF TypeOK, WriterType, GateBooks, FileBooks, EndBooks
<1>5. EndBooks'
  BY DEF TypeOK, WriterType, TapBooks, GateBooks, FileBooks, EndBooks, OutcomeTrue, Unasked
<1> QED BY <1>1, <1>2, <1>3, <1>4, <1>5

LEMMA Inv_ReadLate == IInv /\ ReadLate => IInv'
<1> SUFFICES ASSUME IInv, ReadLate PROVE IInv'
  OBVIOUS
<1> USE DEF IInv, vars, ctlVars, askVars, tapVars, writerVars, ReadLate
<1>1. TypeOK'
  <2>1. ControllerType'
    BY DEF TypeOK, ControllerType, AnnounceEnd
  <2>2. FlagsType'
    BY DEF TypeOK, FlagsType
  <2>3. TapType'
    BY GateAssumption DEF TypeOK, TapType
  <2>4. WriterType'
    BY GateAssumption DEF TypeOK, WriterType
  <2> QED BY <2>1, <2>2, <2>3, <2>4 DEF TypeOK
<1>2. TapBooks'
  BY DEF TapBooks, GateBooks, Has
<1>3. GateBooks'
  BY DEF TapBooks, GateBooks, FileBooks, EndBooks, Unasked, Has
<1>4. FileBooks'
  BY DEF TypeOK, WriterType, GateBooks, FileBooks, EndBooks
<1>5. EndBooks'
  BY DEF TypeOK, WriterType, TapBooks, GateBooks, FileBooks, EndBooks, OutcomeTrue, Unasked
<1> QED BY <1>1, <1>2, <1>3, <1>4, <1>5

LEMMA Inv_Finalize == IInv /\ Finalize => IInv'
<1> SUFFICES ASSUME IInv, Finalize PROVE IInv'
  OBVIOUS
<1> USE DEF IInv, vars, ctlVars, askVars, tapVars, writerVars, Finalize, OutcomeOf
<1>1. TypeOK'
  <2>1. ControllerType'
    BY DEF TypeOK, ControllerType, AnnounceEnd
  <2>2. FlagsType'
    BY DEF TypeOK, FlagsType
  <2>3. TapType'
    BY GateAssumption DEF TypeOK, TapType
  <2>4. WriterType'
    BY GateAssumption DEF TypeOK, WriterType
  <2> QED BY <2>1, <2>2, <2>3, <2>4 DEF TypeOK
<1>2. TapBooks'
  BY DEF TapBooks, GateBooks, Has
<1>3. GateBooks'
  BY DEF TapBooks, GateBooks, FileBooks, EndBooks, Unasked, Has
<1>4. FileBooks'
  BY DEF TypeOK, WriterType, GateBooks, FileBooks, EndBooks
<1>5. EndBooks'
  BY DEF TypeOK, WriterType, TapBooks, GateBooks, FileBooks, EndBooks, OutcomeTrue, Unasked
<1> QED BY <1>1, <1>2, <1>3, <1>4, <1>5

LEMMA Inv_FinalizeTimeout == IInv /\ FinalizeTimeout => IInv'
<1> SUFFICES ASSUME IInv, FinalizeTimeout PROVE IInv'
  OBVIOUS
<1> USE DEF IInv, vars, ctlVars, askVars, tapVars, writerVars, FinalizeTimeout, OutcomeOf
<1>1. TypeOK'
  <2>1. ControllerType'
    BY DEF TypeOK, ControllerType, AnnounceEnd
  <2>2. FlagsType'
    BY DEF TypeOK, FlagsType
  <2>3. TapType'
    BY GateAssumption DEF TypeOK, TapType
  <2>4. WriterType'
    BY GateAssumption DEF TypeOK, WriterType
  <2> QED BY <2>1, <2>2, <2>3, <2>4 DEF TypeOK
<1>2. TapBooks'
  BY DEF TapBooks, GateBooks, Has
<1>3. GateBooks'
  BY DEF TapBooks, GateBooks, FileBooks, EndBooks, Unasked, Has
<1>4. FileBooks'
  BY DEF TypeOK, WriterType, GateBooks, FileBooks, EndBooks
<1>5. EndBooks'
  BY DEF TypeOK, WriterType, TapBooks, GateBooks, FileBooks, EndBooks, OutcomeTrue, Unasked
<1> QED BY <1>1, <1>2, <1>3, <1>4, <1>5

LEMMA Inv_PromptEnds == IInv /\ PromptEnds => IInv'
<1> SUFFICES ASSUME IInv, PromptEnds PROVE IInv'
  OBVIOUS
<1> USE DEF IInv, vars, ctlVars, askVars, tapVars, writerVars, PromptEnds, Resolve
<1>1. TypeOK'
  <2>1. ControllerType'
    BY DEF TypeOK, ControllerType, AnnounceEnd
  <2>2. FlagsType'
    BY DEF TypeOK, FlagsType
  <2>3. TapType'
    BY GateAssumption DEF TypeOK, TapType
  <2>4. WriterType'
    BY GateAssumption DEF TypeOK, WriterType
  <2> QED BY <2>1, <2>2, <2>3, <2>4 DEF TypeOK
<1>2. TapBooks'
  BY DEF TapBooks, GateBooks, Has
<1>3. GateBooks'
  BY DEF TapBooks, GateBooks, FileBooks, EndBooks, Unasked, Has
<1>4. FileBooks'
  BY DEF TypeOK, WriterType, GateBooks, FileBooks, EndBooks
<1>5. EndBooks'
  BY DEF TypeOK, WriterType, TapBooks, GateBooks, FileBooks, EndBooks, OutcomeTrue, Unasked
<1> QED BY <1>1, <1>2, <1>3, <1>4, <1>5

LEMMA Inv_PeerHold == IInv /\ PeerHold => IInv'
<1> SUFFICES ASSUME IInv, PeerHold PROVE IInv'
  OBVIOUS
<1> USE DEF IInv, vars, ctlVars, askVars, tapVars, writerVars, PeerHold
<1>1. TypeOK'
  <2>1. ControllerType'
    BY DEF TypeOK, ControllerType, AnnounceEnd
  <2>2. FlagsType'
    BY DEF TypeOK, FlagsType
  <2>3. TapType'
    BY GateAssumption DEF TypeOK, TapType
  <2>4. WriterType'
    BY GateAssumption DEF TypeOK, WriterType
  <2> QED BY <2>1, <2>2, <2>3, <2>4 DEF TypeOK
<1>2. TapBooks'
  BY DEF TapBooks, GateBooks, Has
<1>3. GateBooks'
  BY DEF TapBooks, GateBooks, FileBooks, EndBooks, Unasked, Has
<1>4. FileBooks'
  BY DEF TypeOK, WriterType, GateBooks, FileBooks, EndBooks
<1>5. EndBooks'
  BY DEF TypeOK, WriterType, TapBooks, GateBooks, FileBooks, EndBooks, OutcomeTrue, Unasked
<1> QED BY <1>1, <1>2, <1>3, <1>4, <1>5

LEMMA Inv_ForkFrame == IInv /\ ForkFrame => IInv'
<1> SUFFICES ASSUME IInv, ForkFrame PROVE IInv'
  OBVIOUS
<1> USE DEF IInv, vars, ctlVars, askVars, tapVars, writerVars, ForkFrame
<1>1. TypeOK'
  <2>1. ControllerType'
    BY DEF TypeOK, ControllerType, AnnounceEnd
  <2>2. FlagsType'
    BY DEF TypeOK, FlagsType
  <2>3. TapType'
    BY GateAssumption DEF TypeOK, TapType
  <2>4. WriterType'
    BY GateAssumption DEF TypeOK, WriterType
  <2> QED BY <2>1, <2>2, <2>3, <2>4 DEF TypeOK
<1>2. TapBooks'
  BY DEF TapBooks, GateBooks, Has
<1>3. GateBooks'
  BY DEF TapBooks, GateBooks, FileBooks, EndBooks, Unasked, Has
<1>4. FileBooks'
  BY DEF TypeOK, WriterType, GateBooks, FileBooks, EndBooks
<1>5. EndBooks'
  BY DEF TypeOK, WriterType, TapBooks, GateBooks, FileBooks, EndBooks, OutcomeTrue, Unasked
<1> QED BY <1>1, <1>2, <1>3, <1>4, <1>5

LEMMA Inv_TapEnds == IInv /\ TapEnds => IInv'
<1> SUFFICES ASSUME IInv, TapEnds PROVE IInv'
  OBVIOUS
<1> USE DEF IInv, vars, ctlVars, askVars, tapVars, writerVars, TapEnds
<1>1. TypeOK'
  <2>1. ControllerType'
    BY DEF TypeOK, ControllerType, AnnounceEnd
  <2>2. FlagsType'
    BY DEF TypeOK, FlagsType
  <2>3. TapType'
    BY GateAssumption DEF TypeOK, TapType
  <2>4. WriterType'
    BY GateAssumption DEF TypeOK, WriterType
  <2> QED BY <2>1, <2>2, <2>3, <2>4 DEF TypeOK
<1>2. TapBooks'
  BY DEF TapBooks, GateBooks, Has
<1>3. GateBooks'
  BY DEF TapBooks, GateBooks, FileBooks, EndBooks, Unasked, Has
<1>4. FileBooks'
  BY DEF TypeOK, WriterType, GateBooks, FileBooks, EndBooks
<1>5. EndBooks'
  BY DEF TypeOK, WriterType, TapBooks, GateBooks, FileBooks, EndBooks, OutcomeTrue, Unasked
<1> QED BY <1>1, <1>2, <1>3, <1>4, <1>5

LEMMA Inv_RecvFrame == IInv /\ RecvFrame => IInv'
<1> SUFFICES ASSUME IInv, RecvFrame PROVE IInv'
  OBVIOUS
<1> USE DEF IInv, vars, ctlVars, askVars, tapVars, writerVars, RecvFrame, Selecting, Writing
<1>1. TypeOK'
  <2>1. ControllerType'
    BY DEF TypeOK, ControllerType, AnnounceEnd
  <2>2. FlagsType'
    BY DEF TypeOK, FlagsType
  <2>3. TapType'
    BY GateAssumption DEF TypeOK, TapType
  <2>4. WriterType'
    BY GateAssumption DEF TypeOK, WriterType
  <2> QED BY <2>1, <2>2, <2>3, <2>4 DEF TypeOK
<1>2. TapBooks'
  BY DEF TapBooks, GateBooks, Has
<1>3. GateBooks'
  BY DEF TapBooks, GateBooks, FileBooks, EndBooks, Unasked, Has
<1>4. FileBooks'
  BY DEF TypeOK, WriterType, GateBooks, FileBooks, EndBooks
<1>5. EndBooks'
  BY DEF TypeOK, WriterType, TapBooks, GateBooks, FileBooks, EndBooks, OutcomeTrue, Unasked
<1> QED BY <1>1, <1>2, <1>3, <1>4, <1>5

LEMMA Inv_CallOver == IInv /\ CallOver => IInv'
<1> SUFFICES ASSUME IInv, CallOver PROVE IInv'
  OBVIOUS
<1> USE DEF IInv, vars, ctlVars, askVars, tapVars, writerVars, CallOver, Selecting, Writing
<1>1. TypeOK'
  <2>1. ControllerType'
    BY DEF TypeOK, ControllerType, AnnounceEnd
  <2>2. FlagsType'
    BY DEF TypeOK, FlagsType
  <2>3. TapType'
    BY GateAssumption DEF TypeOK, TapType
  <2>4. WriterType'
    BY GateAssumption DEF TypeOK, WriterType
  <2> QED BY <2>1, <2>2, <2>3, <2>4 DEF TypeOK
<1>2. TapBooks'
  BY DEF TapBooks, GateBooks, Has
<1>3. GateBooks'
  BY DEF TapBooks, GateBooks, FileBooks, EndBooks, Unasked, Has
<1>4. FileBooks'
  BY DEF TypeOK, WriterType, GateBooks, FileBooks, EndBooks
<1>5. EndBooks'
  BY DEF TypeOK, WriterType, TapBooks, GateBooks, FileBooks, EndBooks, OutcomeTrue, Unasked
<1> QED BY <1>1, <1>2, <1>3, <1>4, <1>5

LEMMA Inv_Opened == ASSUME NEW ok \in BOOLEAN, IInv, Opened(ok) PROVE IInv'
<1> USE DEF IInv, vars, ctlVars, askVars, tapVars, writerVars, Opened, Writing, Fails
<1>1. TypeOK'
  <2>1. ControllerType'
    BY DEF TypeOK, ControllerType, AnnounceEnd
  <2>2. FlagsType'
    BY DEF TypeOK, FlagsType
  <2>3. TapType'
    BY GateAssumption DEF TypeOK, TapType, TapCommand
  <2>4. WriterType'
    <3>1. rec_evt' \in Seq(RecEvent)
      BY DEF TypeOK, WriterType, RecEvent
    <3>2. /\ audio' \in 0 .. AudioCap
          /\ rec_ctrl' \in Seq(RecControl) /\ Len(rec_ctrl') <= CtrlCap
      BY DEF TypeOK, WriterType
    <3>3. /\ status' \in {"opening", "idle", "recording", "paused", "closing", "done"}
          /\ writer' \in {"live", "ended", "failed", "aborted"}
          /\ latest' \in {"none", "open", "paused"} /\ file' \in {"absent", "part", "final"}
      BY DEF TypeOK, WriterType
    <3> QED BY <3>1, <3>2, <3>3 DEF WriterType
  <2> QED BY <2>1, <2>2, <2>3, <2>4 DEF TypeOK
<1>2. TapBooks'
  BY DEF TapBooks, GateBooks, Has
<1>3. GateBooks'
  BY DEF TapBooks, GateBooks, FileBooks, EndBooks, Unasked, Has
<1>4. FileBooks'
  BY DEF TypeOK, WriterType, GateBooks, FileBooks, EndBooks
<1>5. EndBooks'
  BY DEF TypeOK, WriterType, TapBooks, GateBooks, FileBooks, EndBooks, OutcomeTrue, Unasked
<1> QED BY <1>1, <1>2, <1>3, <1>4, <1>5

LEMMA Inv_Closed == ASSUME NEW ok \in BOOLEAN, IInv, Closed(ok) PROVE IInv'
<1> USE DEF IInv, vars, ctlVars, askVars, tapVars, writerVars, Closed, Writing, Fails
<1>1. TypeOK'
  <2>1. ControllerType'
    BY DEF TypeOK, ControllerType, AnnounceEnd
  <2>2. FlagsType'
    BY DEF TypeOK, FlagsType
  <2>3. TapType'
    BY GateAssumption DEF TypeOK, TapType, TapCommand
  <2>4. WriterType'
    <3>1. rec_evt' \in Seq(RecEvent)
      BY DEF TypeOK, WriterType, RecEvent
    <3>2. /\ audio' \in 0 .. AudioCap
          /\ rec_ctrl' \in Seq(RecControl) /\ Len(rec_ctrl') <= CtrlCap
      BY DEF TypeOK, WriterType
    <3>3. /\ status' \in {"opening", "idle", "recording", "paused", "closing", "done"}
          /\ writer' \in {"live", "ended", "failed", "aborted"}
          /\ latest' \in {"none", "open", "paused"} /\ file' \in {"absent", "part", "final"}
      BY DEF TypeOK, WriterType
    <3> QED BY <3>1, <3>2, <3>3 DEF WriterType
  <2> QED BY <2>1, <2>2, <2>3, <2>4 DEF TypeOK
<1>2. TapBooks'
  BY DEF TapBooks, GateBooks, Has
<1>3. GateBooks'
  BY DEF TapBooks, GateBooks, FileBooks, EndBooks, Unasked, Has
<1>4. FileBooks'
  BY DEF TypeOK, WriterType, GateBooks, FileBooks, EndBooks
<1>5. EndBooks'
  BY DEF TypeOK, WriterType, TapBooks, GateBooks, FileBooks, EndBooks, OutcomeTrue, Unasked
<1> QED BY <1>1, <1>2, <1>3, <1>4, <1>5

LEMMA Inv_Tick == ASSUME NEW ok \in BOOLEAN, IInv, Tick(ok) PROVE IInv'
<1> USE DEF IInv, vars, ctlVars, askVars, tapVars, writerVars, Tick, Selecting, Writing, Fails
<1>1. TypeOK'
  <2>1. ControllerType'
    BY DEF TypeOK, ControllerType, AnnounceEnd
  <2>2. FlagsType'
    BY DEF TypeOK, FlagsType
  <2>3. TapType'
    BY GateAssumption DEF TypeOK, TapType, TapCommand
  <2>4. WriterType'
    BY GateAssumption DEF TypeOK, WriterType, RecEvent, RecControl
  <2> QED BY <2>1, <2>2, <2>3, <2>4 DEF TypeOK
<1>2. TapBooks'
  BY DEF TapBooks, GateBooks, Has
<1>3. GateBooks'
  BY DEF TapBooks, GateBooks, FileBooks, EndBooks, Unasked, Has
<1>4. FileBooks'
  BY DEF TypeOK, WriterType, GateBooks, FileBooks, EndBooks
<1>5. EndBooks'
  BY DEF TypeOK, WriterType, TapBooks, GateBooks, FileBooks, EndBooks, OutcomeTrue, Unasked
<1> QED BY <1>1, <1>2, <1>3, <1>4, <1>5

LEMMA Inv_RecvControl == ASSUME IInv, RecvControl PROVE IInv'
<1> USE DEF IInv, vars, ctlVars, askVars, tapVars, writerVars, RecvControl, Selecting, Writing, AfterControl
<1>0. /\ rec_ctrl' \in Seq(RecControl) /\ Len(rec_ctrl') < Len(rec_ctrl) /\ Has(rec_ctrl, Head(rec_ctrl))
      /\ \A x : Has(rec_ctrl', x) => Has(rec_ctrl, x)
  BY HasTail DEF TypeOK, WriterType
<1>1. TypeOK'
  <2>1. ControllerType'
    BY <1>0 DEF TypeOK, ControllerType, AnnounceEnd
  <2>2. FlagsType'
    BY <1>0 DEF TypeOK, FlagsType
  <2>3. TapType'
    BY GateAssumption, <1>0 DEF TypeOK, TapType, TapCommand
  <2>4. WriterType'
    BY GateAssumption, <1>0 DEF TypeOK, WriterType, RecEvent, RecControl
  <2> QED BY <2>1, <2>2, <2>3, <2>4 DEF TypeOK
<1>2. TapBooks'
  BY <1>0 DEF TapBooks, GateBooks
<1>3. GateBooks'
  BY <1>0 DEF TapBooks, GateBooks, FileBooks, EndBooks, Unasked
<1>4. FileBooks'
  BY <1>0 DEF TypeOK, WriterType, GateBooks, FileBooks, EndBooks
<1>5. EndBooks'
  BY <1>0 DEF TypeOK, WriterType, TapBooks, GateBooks, FileBooks, EndBooks, OutcomeTrue, Unasked
<1> QED BY <1>1, <1>2, <1>3, <1>4, <1>5

LEMMA Inv_StartRecording == ASSUME IInv, StartRecording PROVE IInv'
<1> USE DEF IInv, vars, ctlVars, askVars, tapVars, writerVars, StartRecording, Asked
<1>0. \/ rec_ctrl' = rec_ctrl
      \/ /\ rec_ctrl' \in Seq(RecControl) /\ Len(rec_ctrl') <= CtrlCap
         /\ \A x : Has(rec_ctrl', x) => Has(rec_ctrl, x) \/ x = "start"
  BY RoutedAdds DEF RecControl
<1>1. TypeOK'
  <2>1. ControllerType'
    BY <1>0 DEF TypeOK, ControllerType, AnnounceEnd
  <2>2. FlagsType'
    BY <1>0 DEF TypeOK, FlagsType
  <2>3. TapType'
    BY GateAssumption, <1>0 DEF TypeOK, TapType, TapCommand
  <2>4. WriterType'
    BY GateAssumption, <1>0 DEF TypeOK, WriterType, RecEvent, RecControl
  <2> QED BY <2>1, <2>2, <2>3, <2>4 DEF TypeOK
<1>2. TapBooks'
  BY <1>0 DEF TapBooks, GateBooks
<1>3. GateBooks'
  BY <1>0 DEF TapBooks, GateBooks, FileBooks, EndBooks, Unasked
<1>4. FileBooks'
  BY <1>0 DEF TypeOK, WriterType, GateBooks, FileBooks, EndBooks
<1>5. EndBooks'
  BY <1>0 DEF TypeOK, WriterType, TapBooks, GateBooks, FileBooks, EndBooks, OutcomeTrue, Unasked
<1> QED BY <1>1, <1>2, <1>3, <1>4, <1>5

LEMMA Inv_ControlRecording == ASSUME NEW ctrl \in RecControl, IInv, ControlRecording(ctrl) PROVE IInv'
<1> USE DEF IInv, vars, ctlVars, askVars, tapVars, writerVars, ControlRecording, Asked
<1>0. \/ rec_ctrl' = rec_ctrl
      \/ /\ rec_ctrl' \in Seq(RecControl) /\ Len(rec_ctrl') <= CtrlCap
         /\ \A x : Has(rec_ctrl', x) => Has(rec_ctrl, x) \/ x = ctrl
  BY RoutedAdds DEF RecControl
<1>1. TypeOK'
  <2>1. ControllerType'
    BY <1>0 DEF TypeOK, ControllerType, AnnounceEnd
  <2>2. FlagsType'
    BY <1>0 DEF TypeOK, FlagsType
  <2>3. TapType'
    BY GateAssumption, <1>0 DEF TypeOK, TapType, TapCommand
  <2>4. WriterType'
    BY GateAssumption, <1>0 DEF TypeOK, WriterType, RecEvent, RecControl
  <2> QED BY <2>1, <2>2, <2>3, <2>4 DEF TypeOK
<1>2. TapBooks'
  BY <1>0 DEF TapBooks, GateBooks
<1>3. GateBooks'
  BY <1>0 DEF TapBooks, GateBooks, FileBooks, EndBooks, Unasked
<1>4. FileBooks'
  BY <1>0 DEF TypeOK, WriterType, GateBooks, FileBooks, EndBooks
<1>5. EndBooks'
  BY <1>0 DEF TypeOK, WriterType, TapBooks, GateBooks, FileBooks, EndBooks, OutcomeTrue, Unasked
<1> QED BY <1>1, <1>2, <1>3, <1>4, <1>5

LEMMA Inv_AnnounceDone == ASSUME IInv, AnnounceDone PROVE IInv'
<1> USE DEF IInv, vars, ctlVars, askVars, tapVars, writerVars, AnnounceDone, FailClosed
<1>0. \/ rec_ctrl' = rec_ctrl
      \/ /\ rec_ctrl' \in Seq(RecControl) /\ Len(rec_ctrl') <= CtrlCap
         /\ \A x : Has(rec_ctrl', x) => Has(rec_ctrl, x) \/ x = "start"
  BY RoutedAdds DEF RecControl
<1>1. TypeOK'
  <2>1. ControllerType'
    BY <1>0 DEF TypeOK, ControllerType, AnnounceEnd
  <2>2. FlagsType'
    BY <1>0 DEF TypeOK, FlagsType
  <2>3. TapType'
    BY GateAssumption, <1>0 DEF TypeOK, TapType, TapCommand
  <2>4. WriterType'
    BY GateAssumption, <1>0 DEF TypeOK, WriterType, RecEvent, RecControl
  <2> QED BY <2>1, <2>2, <2>3, <2>4 DEF TypeOK
<1>2. TapBooks'
  BY <1>0 DEF TapBooks, GateBooks
<1>3. GateBooks'
  <2>1. CASE announce_done = "played"
    <3>1. heard' /\ ~rec_blocked' /\ ~announce_incomplete' /\ phase' = "running" /\ announce_done' = "off"
      BY <2>1 DEF TapBooks, GateBooks
    <3>2. \/ capture_requested'
          \/ rec_ctrl' = rec_ctrl /\ (capture_requested => capture_requested')
      BY <2>1
    <3>3. Has(rec_ctrl', "start") \/ status' # "idle" => capture_requested'
      BY <3>2 DEF GateBooks
    <3> QED BY <3>1, <3>3 DEF GateBooks
  <2>2. CASE announce_done = "cut_short"
    <3>1. Unasked' /\ ~(phase' = "kickoff")
      BY <2>2 DEF GateBooks, Unasked
    <3>2. rec_blocked' \/ announce_incomplete'
      BY <2>2
    <3> QED BY <3>1, <3>2, <2>2 DEF GateBooks, Unasked
  <2>3. CASE announce_done \in {"preempted", "dropped"}
    BY <2>3 DEF TapBooks, GateBooks, Unasked
  <2> QED BY <2>1, <2>2, <2>3
<1>4. FileBooks'
  BY <1>0 DEF TypeOK, WriterType, GateBooks, FileBooks, EndBooks
<1>5. EndBooks'
  BY <1>0 DEF TypeOK, WriterType, TapBooks, GateBooks, FileBooks, EndBooks, OutcomeTrue, Unasked
<1> QED BY <1>1, <1>2, <1>3, <1>4, <1>5

LEMMA Inv_Kickoff == ASSUME IInv, Kickoff PROVE IInv'
<1> USE DEF IInv, vars, ctlVars, askVars, tapVars, writerVars, Kickoff, FailClosed
<1>0. Append(tap_cmds, "consent") = <<"consent">> /\ <<"consent">> \in Seq(TapCommand)
      /\ \A x : Has(<<"consent">>, x) <=> x = "consent"
  BY DEF GateBooks, TapCommand, Has
<1>1. TypeOK'
  <2>1. ControllerType'
    BY <1>0 DEF TypeOK, ControllerType, AnnounceEnd
  <2>2. FlagsType'
    BY <1>0 DEF TypeOK, FlagsType
  <2>3. TapType'
    BY GateAssumption, <1>0 DEF TypeOK, TapType, TapCommand
  <2>4. WriterType'
    BY GateAssumption, <1>0 DEF TypeOK, WriterType, RecEvent, RecControl
  <2> QED BY <2>1, <2>2, <2>3, <2>4 DEF TypeOK
<1>2. TapBooks'
  BY <1>0 DEF TapBooks, GateBooks
<1>3. GateBooks'
  <2>1. Unasked'
    BY DEF GateBooks, Unasked
  <2>2. announce_done' = "off" => rec_blocked' \/ announce_incomplete'
    BY DEF GateBooks
  <2> QED BY <2>1, <2>2 DEF GateBooks, Unasked
<1>4. FileBooks'
  BY <1>0 DEF TypeOK, WriterType, GateBooks, FileBooks, EndBooks
<1>5. EndBooks'
  BY <1>0 DEF TypeOK, WriterType, TapBooks, GateBooks, FileBooks, EndBooks, OutcomeTrue, Unasked
<1> QED BY <1>1, <1>2, <1>3, <1>4, <1>5

\* The failure prompt goes with the loss of the session.
LEMMA Inv_SendTap ==
  ASSUME IInv, NEW cmd \in TapCommand \ {"consent"}, NEW from, NEW to \in {"up", "detached", "lost"},
         SendTap(cmd, from, to), cmd = "failure" => to = "lost",
         session = "lost" => to = "lost"
  PROVE  IInv'
<1> USE DEF IInv, SendTap, vars, ctlVars, askVars, tapVars, writerVars
<1>1. /\ tap_cmds' \in Seq(TapCommand) /\ Len(tap_cmds') = Len(tap_cmds) + 1
      /\ \A x : Has(tap_cmds', x) <=> Has(tap_cmds, x) \/ x = cmd
      /\ \A i \in 1 .. Len(tap_cmds') :
           \/ tap_cmds'[i] = cmd
           \/ i \in 1 .. Len(tap_cmds) /\ tap_cmds'[i] = tap_cmds[i]
  <2>1. tap_cmds \in Seq(TapCommand) /\ cmd \in TapCommand
    BY DEF TypeOK, TapType
  <2>2. \A x : Has(tap_cmds', x) <=> Has(tap_cmds, x) \/ x = cmd
    BY <2>1, HasAppend
  <2>3. tap_cmds' = Append(tap_cmds, cmd)
    OBVIOUS
  <2>4. tap_cmds' \in Seq(TapCommand) /\ Len(tap_cmds') = Len(tap_cmds) + 1
    BY <2>1, <2>3
  <2>5. \A i \in 1 .. Len(tap_cmds') :
          \/ tap_cmds'[i] = cmd
          \/ i \in 1 .. Len(tap_cmds) /\ tap_cmds'[i] = tap_cmds[i]
    BY <2>1, <2>3
  <2> QED BY <2>2, <2>4, <2>5
<1>2. TypeOK'
  <2>1. ControllerType'
    BY DEF TypeOK, ControllerType
  <2>2. FlagsType'
    BY DEF TypeOK, FlagsType
  <2>3. TapType'
    BY <1>1, GateAssumption DEF TypeOK, TapType
  <2>4. WriterType'
    BY DEF TypeOK, WriterType
  <2> QED BY <2>1, <2>2, <2>3, <2>4 DEF TypeOK
<1>3. TapBooks'
  BY <1>1 DEF TapBooks
<1>4. GateBooks'
  BY DEF GateBooks, Unasked
<1>5. FileBooks' /\ EndBooks'
  BY DEF FileBooks, EndBooks, OutcomeTrue
<1> QED BY <1>2, <1>3, <1>4, <1>5

LEMMA Inv_TakeTapCommand == ASSUME IInv, TakeTapCommand PROVE IInv'
<1> USE DEF IInv, TakeTapCommand, Resolve, vars, ctlVars, askVars, tapVars, writerVars
<1>1. /\ tap_cmds' \in Seq(TapCommand) /\ Len(tap_cmds') <= Len(tap_cmds)
      /\ Head(tap_cmds) \in TapCommand /\ Has(tap_cmds, Head(tap_cmds))
      /\ \A x : Has(tap_cmds', x) => Has(tap_cmds, x)
  BY HasTail DEF TypeOK, TapType
<1>2. ~Has(tap_cmds', "consent")
  <2>1. \A i \in 1 .. Len(tap_cmds') : i + 1 \in 1 .. Len(tap_cmds) /\ tap_cmds'[i] = tap_cmds[i + 1]
    BY DEF TypeOK, TapType
  <2> QED BY <2>1 DEF TapBooks, Has
<1>3. announcing = "consent" => announce_done = "pending" /\ Head(tap_cmds) # "consent"
  BY <1>1 DEF TapBooks
<1>4. Head(tap_cmds) = "consent" => announce_done = "pending" /\ announcing = "none"
  BY <1>1 DEF TapBooks
<1>5. Head(tap_cmds) = "failure" => session = "lost"
  BY <1>1 DEF TapBooks
<1>6. \/ announce_done' = announce_done
      \/ announce_done = "pending" /\ announce_done' \in {"cut_short", "preempted"}
  BY <1>3, <1>4
<1>7. TypeOK'
  <2>1. ControllerType'
    BY <1>6 DEF TypeOK, ControllerType, AnnounceEnd
  <2>2. FlagsType'
    BY DEF TypeOK, FlagsType
  <2>3. TapType'
    BY <1>1, GateAssumption DEF TypeOK, TapType, TapCommand
  <2>4. WriterType'
    BY DEF TypeOK, WriterType
  <2> QED BY <2>1, <2>2, <2>3, <2>4 DEF TypeOK
<1>8. TapBooks'
  BY <1>1, <1>2, <1>3, <1>4, <1>5, <1>6 DEF TapBooks, Has
<1>9. GateBooks'
  BY <1>1, <1>6 DEF TapBooks, GateBooks, Unasked
<1>10. FileBooks' /\ EndBooks'
  BY <1>6 DEF FileBooks, EndBooks, OutcomeTrue
<1> QED BY <1>7, <1>8, <1>9, <1>10

-----------------------------------------------------------------------------
(* Theorems.  A call that is parked in its failure prompt is retrieved only  *)
(* after the prompt's end was seen.                                          *)

LEMMA NextInv == ASSUME ~LateRetrieve, IInv, [Next]_vars PROVE IInv'
<1>1. CASE Controller
  BY <1>1, Inv_Kickoff, Inv_AnnounceDone, Inv_RelayEvent, Inv_ReadLate, Inv_Finalize, Inv_FinalizeTimeout
     DEF Controller
<1>2. CASE Server
  BY <1>2, Inv_StartRecording, Inv_ControlRecording DEF Server
<1>3. CASE World
  <2>1. ASSUME Detach PROVE IInv'
    BY <2>1, ~LateRetrieve, Inv_SendTap DEF Detach, SendTap, TapCommand
  <2>2. ASSUME Reattach PROVE IInv'
    BY <2>2, Inv_SendTap DEF Reattach, SendTap, TapCommand
  <2>3. ASSUME FailurePrompt PROVE IInv'
    BY <2>3, Inv_SendTap DEF FailurePrompt, SendTap, TapCommand
  <2>4. ASSUME Hold \/ Unhold PROVE IInv'
    BY <2>4, Inv_SendTap DEF Hold, Unhold, SendTap, TapCommand
  <2> QED BY <1>3, <2>1, <2>2, <2>3, <2>4, Inv_EndLoop, Inv_PeerHold DEF World
<1>4. CASE Tap \/ ForkFrame \/ TapEnds
  BY <1>4, Inv_TakeTapCommand, Inv_PromptEnds, Inv_ForkFrame, Inv_TapEnds DEF Tap
<1>5. CASE Writer
  BY <1>5, Inv_RecvFrame, Inv_RecvControl, Inv_CallOver, Inv_Opened, Inv_Closed, Inv_Tick DEF Writer
<1>6. CASE UNCHANGED vars
  BY <1>6 DEF IInv, TypeOK, ControllerType, FlagsType, TapType, WriterType, TapBooks, GateBooks,
              FileBooks, EndBooks, OutcomeTrue, Unasked, Has, vars, ctlVars, askVars, tapVars, writerVars
<1> QED BY <1>1, <1>2, <1>3, <1>4, <1>5, <1>6 DEF Next, Ended

\* The inductive invariant holds in every reachable state.
THEOREM Invariance == ASSUME ~LateRetrieve PROVE Spec => []IInv
<1>1. IInv /\ [Next]_vars => IInv'
  BY NextInv
<1> QED BY <1>1, InitInv, PTL DEF Spec

\* No channel holds more than its capacity, and every variable keeps its type.
THEOREM TypeCorrect == ASSUME ~LateRetrieve PROVE Spec => []TypeOK
<1>1. IInv => TypeOK
  BY DEF IInv
<1> QED BY <1>1, Invariance, PTL

\* Nothing is captured before the caller heard the whole announcement (call.rs:1093).
THEOREM GateHolds == ASSUME ~LateRetrieve PROVE Spec => []ConsentGate
<1>1. IInv => ConsentGate
  BY DEF IInv, GateBooks, FileBooks, ConsentGate
<1> QED BY <1>1, Invariance, PTL

\* A blocked recording was never begun (call.rs:536).
THEOREM NeverBegun == ASSUME ~LateRetrieve PROVE Spec => []BlockedMeansNone
<1>1. IInv => BlockedMeansNone
  BY DEF IInv, GateBooks, FileBooks, Unasked, BlockedMeansNone
<1> QED BY <1>1, Invariance, PTL

\* The reported result is what is on the disk (call.rs:311).
THEOREM ResultHolds == ASSUME ~LateRetrieve PROVE Spec => []OutcomeTrue
<1>1. IInv => OutcomeTrue
  BY DEF IInv, EndBooks
<1> QED BY <1>1, Invariance, PTL

\* The consent stamp tells whether the caller heard the announcement (call.rs:2619).
THEOREM StampHolds == ASSUME ~LateRetrieve PROVE Spec => []ConsentStamp
<1>1. IInv => ConsentStamp
  <2>1. IInv /\ phase = "done" => (announced <=> heard)
    BY DEF IInv, TapBooks, EndBooks
  <2>2. IInv => announced \in BOOLEAN /\ heard \in BOOLEAN
    BY DEF IInv, TypeOK, FlagsType
  <2> QED BY <2>1, <2>2 DEF ConsentStamp
<1> QED BY <1>1, Invariance, PTL

\* All that is reported of a recording is true (call.rs:536, 311, 2619).
THEOREM ReportsTrue == ASSUME ~LateRetrieve PROVE Spec => []ReportTrue
<1>1. BlockedMeansNone /\ OutcomeTrue /\ ConsentStamp => ReportTrue
  BY DEF ReportTrue
<1> QED BY <1>1, NeverBegun, ResultHolds, StampHolds, PTL
=============================================================================
