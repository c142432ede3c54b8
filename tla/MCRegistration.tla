--------------------------- MODULE MCRegistration ---------------------------
(***************************************************************************)
(* Registration for TLC: an attempt takes up to two ticks against a margin *)
(* of four, as a SIP transaction of 32 s does against a margin of 60 s.    *)
(* The registrar grants nothing, less than the margin, or enough; the      *)
(* back-off doubles once and is then cut by its maximum.                   *)
(***************************************************************************)
EXTENDS Registration

MCGrants == {0, 3, 7}
=============================================================================
