--------------------------- MODULE MCWorkerSystem ---------------------------
(***************************************************************************)
(* Instances of WorkerSystem for TLC.                                      *)
(***************************************************************************)
EXTENDS WorkerSystem

CONSTANTS c1, c2

MCMinInstant == -8
=============================================================================
