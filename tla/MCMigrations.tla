----------------------------- MODULE MCMigrations -----------------------------
(***************************************************************************)
(* An instance of Migrations for TLC: a release that knows two migrations, *)
(* of which the second builds two indexes, one that knows a third, and a   *)
(* handle with a statement_timeout.                                        *)
(***************************************************************************)
EXTENDS Migrations, TLC

CONSTANTS old, new, hasty

MCProcesses == {old, new, hasty}
MCKnown     == (old :> 2) @@ (new :> 3) @@ (hasty :> 2)
MCNames     == {"fetch", "move", "later"}
MCIndexes   == << << >>, <<"fetch", "move">>, <<"later">> >>
=============================================================================
