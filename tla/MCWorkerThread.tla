--------------------------- MODULE MCWorkerThread ---------------------------
(* WorkerThread on a small instance. *)
EXTENDS WorkerThread

CONSTANTS c1, c2

MCClients == {c1, c2}
=============================================================================
