--------------------------- MODULE MCWorkerCache ---------------------------
(* WorkerCache on a small instance. *)
EXTENDS WorkerCache
=============================================================================
