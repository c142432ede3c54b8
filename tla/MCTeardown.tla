----------------------------- MODULE MCTeardown -----------------------------
(***************************************************************************)
(* CallTeardown for TLC: a call whose offer comes with the ACK and an      *)
(* outbound call, through answer, ACK, BYE, hang-up, a failing set-up, the *)
(* dialog reaper and the daemon's drain.                                   *)
(***************************************************************************)
EXTENDS CallTeardown
=============================================================================
