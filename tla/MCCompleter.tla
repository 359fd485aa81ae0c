----------------------------- MODULE MCCompleter -----------------------------
(***************************************************************************)
(* An instance of Completer for TLC.                                       *)
(***************************************************************************)
EXTENDS Completer

MCOps == 1..4

\* Three kinds in play, one of them twice: a flush has up to three batches, of
\* one outcome or of two.
MCKindOf == [op \in MCOps |-> IF op = 3 THEN "retry" ELSE IF op = 4 THEN "snooze" ELSE "complete"]
=============================================================================
