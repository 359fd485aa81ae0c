------------------------- MODULE MCPostgresBackend -------------------------
(***************************************************************************)
(* An instance of PostgresBackend for TLC.                                 *)
(***************************************************************************)
EXTENDS PostgresBackend, TLC

\* Instants are words of three bits; 4 is not storable.
MCMinInstant   == -4
MCBoosts       == {0}
MCStartTimes   == {0}
MCRetryTimes   == {0, 4}
RetentionOfOne == [s \in TerminalStates |-> 1]

\* Sessions are interchangeable.
SessionSymmetry == Permutations(Sessions)
=============================================================================
