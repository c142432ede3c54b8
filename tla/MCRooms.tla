------------------------------ MODULE MCRooms -------------------------------
(***************************************************************************)
(* Rooms for TLC: two calls, a control queue and an outcome channel short  *)
(* enough to fill, two room names under a cap of one room, two joins.      *)
(***************************************************************************)
EXTENDS Rooms
=============================================================================
