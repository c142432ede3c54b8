-------------------------- MODULE MCRecordingGate ---------------------------
(***************************************************************************)
(* RecordingGate for TLC.  Every channel has one place, so that a frame is *)
(* lost, a control is dropped and a command refused.  Nothing else needs a *)
(* bound.                                                                  *)
(***************************************************************************)
EXTENDS RecordingGate
=============================================================================
