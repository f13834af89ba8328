----------------------------- MODULE MCUploads -----------------------------
(* Uploads on a small instance. *)
EXTENDS Uploads
=============================================================================
