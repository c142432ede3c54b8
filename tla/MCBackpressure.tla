--------------------------- MODULE MCBackpressure ---------------------------
(***************************************************************************)
(* Backpressure for TLC (Backpressure.cfg), with room for 2 where the source *)
(* has 8 or 10, and as many frames in a batch as an audio channel holds.   *)
(* The server reads, and sends no more control messages than control_in has *)
(* room for; without either, a request to shut down may wait for ever.     *)
(***************************************************************************)
EXTENDS Backpressure
=============================================================================
