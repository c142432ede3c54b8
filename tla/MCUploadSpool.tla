--------------------------- MODULE MCUploadSpool ----------------------------
(***************************************************************************)
(* UploadSpool for TLC (UploadSpool.cfg): two recordings on a channel of one *)
(* place, so the second outcome has to wait; two attempts where the source *)
(* has 100, so a job lives through a failure and can run out of them; two  *)
(* restarts, one of which can meet a torn job.                             *)
(***************************************************************************)
EXTENDS UploadSpool
=============================================================================
