------------------------------- MODULE MCCall -------------------------------
(***************************************************************************)
(* CallControl for TLC.  The configurations turn one feature of the call   *)
(* on at a time:                                                           *)
(*   Reconnect.cfg  redials, the window, the failure prompt                *)
(*   Park.cfg       park, retrieve, and a request of the server underneath *)
(*   Hold.cfg       hold and resume across a redial, server park           *)
(***************************************************************************)
EXTENDS CallControl
=============================================================================
