---------------------------- MODULE MCWorkerLifecycle ----------------------------
(* The instance of WorkerLifecycle that is checked: see the .cfg.            *)
EXTENDS WorkerLifecycle
=============================================================================
