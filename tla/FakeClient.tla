----------------------------- MODULE FakeClient -----------------------------
(***************************************************************************)
(* fake.go: a client taken over by a test, composed with the pass its runs *)
(* are made of.  Before Client.Fake the client is like any other and its   *)
(* ProcessReady is called directly; afterwards the clock moves only when   *)
(* the test moves it and passes are made only by RunReady and              *)
(* RunUntilIdle.                                                           *)
(*                                                                         *)
(* The client is never started, which Fake requires and Start, once it is  *)
(* faked, refuses.  A later Fake on the same client changes nothing.       *)
(***************************************************************************)
EXTENDS ProcessReady

CONSTANTS Configured,   \* the queues of Config.Queues
          QueueOrder,   \* Queues in the order of their names
          MaxRounds     \* the maxRounds tests give

ASSUME QueuesAssumption ==
    /\ Configured \subseteq Queues
    /\ QueueOrder \in Seq(Queues) /\ ToSet(QueueOrder) = Queues /\ IsInjective(QueueOrder)
ASSUME RoundsAssumption == MaxRounds \in Nat \ {0}

VARIABLES faked,        \* Client.fake is set
          tracked,      \* fakeState.queues
          run,          \* which run the test is in
          round,        \* its round
          verdict,      \* what the last run came to
          foreign       \* history: the jobs enqueued past the client

fakeVars == <<faked, tracked, run, round, verdict, foreign>>
vars     == <<passVars, fakeVars>>

Init == /\ ProcessInit
        /\ faked = FALSE
        /\ tracked = {}
        /\ run = "none" /\ round = 0 /\ verdict = "none"
        /\ foreign = {}

\* Nobody is inside ProcessReady or a run.
AtRest == phase = "idle" /\ run = "none"

QueuesOf(store) == {store[i].queue : i \in DOMAIN store}

-----------------------------------------------------------------------------
(* The client before it is faked.                                          *)

Pass == Call(QueueOrder, FALSE) \/ Call(QueueOrder, TRUE) \/ Call(<<Head(QueueOrder)>>, FALSE)

Unfaked == /\ ~faked
           /\ \/ Pass
              \/ Tick
              \/ ~inMemory /\ Others
           /\ UNCHANGED fakeVars

-----------------------------------------------------------------------------
(* Client.Fake.                                                            *)

\* The last pass was of another time.
ForgetPass == /\ results' = << >> /\ outcome' = "none" /\ cancelled' = FALSE
              /\ queues' = << >> /\ processed' = 0
              /\ due' = EmptyStore /\ helped' = {}

\* Takes the clock and the recording of queues over.
Fake ==
    /\ ~faked /\ inMemory /\ phase = "idle"
    /\ faked' = TRUE
    /\ tracked' = Configured \union QueuesOf(jobs)
    /\ foreign' = {}
    /\ ForgetPass
    /\ UNCHANGED <<jobs, inserted, clock, phase, moves, batch, op, tries, adrift, failed, bounds,
                   run, round, verdict>>

\* Mutant: only the queues known when the client was faked are run.
EnqueueUntracked(inserts) ==
    /\ EnqueueMany(inserts)
    /\ verdict' = "none"
    /\ UNCHANGED <<faked, tracked, run, round, foreign>>

\* The client's Enqueue, by the program or the test between passes and by the
\* workers in one.
EnqueueByClient(inserts) ==
    /\ phase = "working" \/ AtRest
    /\ EnqueueMany(inserts)
    /\ tracked' = IF faked THEN tracked \union {req.queue : req \in ToSet(Stored(inserts))}
                  ELSE tracked
    /\ verdict' = "none"
    /\ UNCHANGED <<faked, run, round, foreign>>

\* Rows that arrive another way.
EnqueueElsewhere(inserts) ==
    /\ faked /\ AtRest
    /\ EnqueueMany(inserts)
    /\ foreign' = foreign \union (last + 1)..last'
    /\ verdict' = "none"
    /\ UNCHANGED <<faked, tracked, run, round>>

TrackQueue(q) ==
    /\ faked /\ AtRest
    /\ tracked' = tracked \union {q}
    /\ verdict' = "none"
    /\ UNCHANGED <<passVars, faked, run, round, foreign>>

\* Advance and SetNow, which both refuse to go back.
Advance ==
    /\ faked /\ AtRest
    /\ Tick
    /\ verdict' = "none"
    /\ UNCHANGED <<faked, tracked, run, round, foreign>>

\* memory.Backend.Reset keeps counting IDs.
Reset ==
    /\ faked /\ AtRest
    /\ jobs' = EmptyStore /\ columns' = EmptyStore
    /\ tracked' = Configured
    /\ foreign' = {}
    /\ verdict' = "none"
    /\ UNCHANGED <<last, clock, cancelled, phase, pass, history, bounds, faked, run, round>>

-----------------------------------------------------------------------------
(* RunReady and RunUntilIdle.                                              *)

\* The tracked queues in the order of their names.
TrackedQueues ==
    {qs \in SetToSeqs(tracked) :
        \A j, k \in DOMAIN qs :
            j < k => \E m, n \in DOMAIN QueueOrder :
                        m < n /\ QueueOrder[m] = qs[j] /\ QueueOrder[n] = qs[k]}

\* A run begins with its first round, and its context with it.
RunBegins(kind, ended) ==
    /\ faked /\ AtRest
    /\ \E qs \in TrackedQueues : Call(qs, ended)
    /\ run' = kind /\ round' = 1 /\ verdict' = "none"
    /\ UNCHANGED <<faked, tracked, foreign>>

RoundOver == faked /\ run # "none" /\ phase = "idle"

\* An error of the pass fails the test.
RunFails ==
    /\ RoundOver /\ outcome = "error"
    /\ run' = "none" /\ verdict' = "fatal"
    /\ UNCHANGED <<passVars, faked, tracked, round, foreign>>

\* RunReady is one round; RunUntilIdle ends with a round that ran nothing.
RunEnds ==
    /\ RoundOver /\ outcome = "nil"
    /\ run = "ready" \/ results = << >>
    /\ run' = "none" /\ verdict' = IF run = "ready" THEN "ran" ELSE "idle"
    /\ UNCHANGED <<passVars, faked, tracked, round, foreign>>

\* The next round runs the queues tracked by now.
NextRound ==
    /\ RoundOver /\ outcome = "nil"
    /\ run = "untilIdle" /\ results # << >>
    /\ IF round < MaxRounds
       THEN /\ \E qs \in TrackedQueues : Call(qs, cancelled)
            /\ round' = round + 1
            /\ UNCHANGED <<run, verdict>>
       ELSE /\ run' = "none" /\ verdict' = "fatal"
            /\ UNCHANGED <<passVars, round>>
    /\ UNCHANGED <<faked, tracked, foreign>>

-----------------------------------------------------------------------------

Next ==
    \/ (PassStep \/ Cancel) /\ UNCHANGED fakeVars
    \/ Unfaked
    \/ Fake
    \/ \E inserts \in Arrivals :
          EnqueueByClient(inserts) \/ EnqueueElsewhere(inserts)
    \/ \E q \in Queues : TrackQueue(q)
    \/ Advance
    \/ Reset
    \/ \E kind \in {"ready", "untilIdle"}, ended \in BOOLEAN : RunBegins(kind, ended)
    \/ RunFails \/ RunEnds \/ NextRound

Spec == Init /\ [][Next]_vars

-----------------------------------------------------------------------------
(* Properties.                                                             *)

\* The types of the variables.
TypeOK ==
    /\ ProcessTypeOK
    /\ faked \in BOOLEAN
    /\ tracked \subseteq Queues
    /\ run \in {"none", "ready", "untilIdle"}
    /\ round \in 0..MaxRounds
    /\ verdict \in {"none", "ran", "idle", "fatal"}
    /\ faked => inMemory
    /\ run # "none" => faked

\* RunUntilIdle that came to rest has left nothing to run, in whatever queue a
\* job of the test or of a worker landed, except what was put into the backend
\* behind the client's back (fake.go:94-111, 212-234).
IdleMeansIdle ==
    verdict = "idle" =>
        \A i \in DOMAIN jobs \ foreign :
            ~(jobs[i].state \in {Scheduled, Retryable, Available} /\ jobs[i].scheduledAt <= now)
=============================================================================
