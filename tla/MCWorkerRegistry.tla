-------------------------- MODULE MCWorkerRegistry --------------------------
(* An instance of WorkerRegistry for TLC. *)
EXTENDS WorkerRegistry
=============================================================================
