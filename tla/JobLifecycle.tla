---------------------------- MODULE JobLifecycle ----------------------------
(***************************************************************************)
(* What a goque backend promises about one job, whatever stores it         *)
(* (backend/backend.go, the Backend interface and JobRow.Generation): a    *)
(* job is held by one claim at a time, every claim opens a new generation, *)
(* a generation has at most one outcome and only while it is the one that  *)
(* holds the job, and a finished job is never worked again.                *)
(***************************************************************************)
EXTENDS Integers, Sequences

CONSTANT Ids

\* life[i] is the life of job i so far: its phase, the last generation that
\* was granted, and the generations that delivered an outcome, in order.
VARIABLE life

Unborn == [phase |-> "unborn", generation |-> 0, outcomes |-> <<>>]

Init == life = [i \in Ids |-> Unborn]

Submitted(l) == [l EXCEPT !.phase = "waiting"]
Granted(l)   == [l EXCEPT !.phase = "held", !.generation = @ + 1]
Settled(l, phase) ==
    [l EXCEPT !.phase = phase, !.outcomes = Append(@, l.generation)]
Revoked(l)   == [l EXCEPT !.phase = "waiting"]
Discarded(l) == [l EXCEPT !.phase = "gone"]

\* What one operation may do to one job.
Moves(l) ==
    CASE l.phase = "unborn"   -> {Submitted(l)}
      [] l.phase = "waiting"  -> {Granted(l)}
      [] l.phase = "held"     -> {Settled(l, "waiting"), Settled(l, "finished"),
                                  Revoked(l)}
      [] l.phase = "finished" -> {Discarded(l)}
      [] l.phase = "gone"     -> {}

\* One operation moves any number of jobs, each by one move.
Operate == /\ DOMAIN life' = Ids
           /\ \A i \in Ids : life'[i] \in {life[i]} \union Moves(life[i])

\* Reset throws every job away, whatever it was doing.
Wipe == life' = [i \in Ids |-> IF life[i].phase = "unborn" THEN life[i]
                               ELSE Discarded(life[i])]

Next == Operate \/ Wipe

Spec == Init /\ [][Next]_life

-----------------------------------------------------------------------------
(* What a user of the contract may rely on.                                *)

\* The outcomes of a life are of claims there were, each of one only and in the
\* order of the claims; a held job has had none for the claim that holds it, and
\* a finished one ended with the outcome of its last claim (backend.go, the
\* Generation of JobRow and the errors of the finalizing calls).
OncePerClaim ==
    \A i \in Ids :
        LET l == life[i]
        IN  /\ \A j, k \in DOMAIN l.outcomes : j < k => l.outcomes[j] < l.outcomes[k]
            /\ \A k \in DOMAIN l.outcomes :
                  l.outcomes[k] \in 1..(IF l.phase = "held" THEN l.generation - 1
                                       ELSE l.generation)
            /\ l.phase = "finished" =>
                  /\ l.outcomes # <<>>
                  /\ l.outcomes[Len(l.outcomes)] = l.generation
=============================================================================
