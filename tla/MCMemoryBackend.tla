--------------------------- MODULE MCMemoryBackend ---------------------------
(***************************************************************************)
(* Instances of MemoryBackend for TLC.                                     *)
(***************************************************************************)
EXTENDS BatchLoop

\* Instants are words of four bits, -8..7, so that a boost can wrap.
MCMinInstant == -8

\* One job, many lives.
DeepBoosts     == {0, 7, -8}
DeepStartTimes == {NoTime, 2, 7}
DeepRetryTimes == {2, -8, 8}

RetentionOfOne == [s \in TerminalStates |-> 1]
=============================================================================
