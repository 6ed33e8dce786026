----------------------------- MODULE MCWorkerIPC -----------------------------
(* WorkerIPC with a few requests. *)
EXTENDS WorkerIPC
=============================================================================
