----------------------------- MODULE MCTransfer -----------------------------
(***************************************************************************)
(* Transfer for TLC.                                                       *)
(*   Transfer.cfg          two transfers, so that one result finds the     *)
(*                         other in its place; a re-INVITE with its retry  *)
(*                         and a refresh beside them                       *)
(*   NumbersPublished.cfg  a number that is taken back, which the comments *)
(*                         rule out                                        *)
(***************************************************************************)
EXTENDS Transfer
=============================================================================
