-------------------------- MODULE MCClientLifecycle --------------------------
(***************************************************************************)
(* Instances of ClientLifecycle for TLC.                                   *)
(***************************************************************************)
EXTENDS ClientLifecycle

MCOps == 1..2
MCKindOf == [op \in MCOps |-> "complete"]
=============================================================================
