--------------------------- MODULE MemoryBackend ---------------------------
(***************************************************************************)
(* backend/memory: the in-process backend.  Every method holds the mutex   *)
(* from its first line to its last, so each is one action.                 *)
(*                                                                         *)
(* The callers are as unhelpful as the network makes them: the instants    *)
(* they pass need not agree or advance, and a finalization or a heartbeat  *)
(* may quote any claim ever handed out, late, again, twice in one batch or *)
(* together with claims of other generations of the same job.              *)
(***************************************************************************)
EXTENDS JobStore

CONSTANTS Clock,          \* the instants callers pass as Now
          Boosts,         \* the PriorityBoosts of requests
          StartTimes,     \* the ScheduledAts of requests; NoTime for now
          RetryTimes,     \* the Ats of Retry and Snooze, storable or not
          TTL,            \* RescueParams.TTL
          Retention,      \* the retention of each terminal state
          Cancellable,    \* the jobs somebody asks to stop
          Limits,         \* the Limits of Fetch and of the sweeps
          MaxBatch,       \* bound: entries in one call
          MaxID,          \* bound: jobs ever enqueued
          MaxGeneration   \* bound: claims of one job

ASSUME ClockAssumption      == Clock \subseteq Instant
ASSUME BoostsAssumption     == Boosts \subseteq Duration
ASSUME StartTimesAssumption == StartTimes \subseteq Int
ASSUME RetryTimesAssumption == RetryTimes \subseteq Int
ASSUME TTLAssumption        == TTL \in Int
ASSUME RetentionAssumption  == Retention \in [TerminalStates -> Int]
ASSUME LimitsAssumption     == Limits \subseteq Nat
ASSUME BoundsAssumption     == MaxBatch \in Nat /\ MaxID \in Nat /\ MaxGeneration \in Nat

VARIABLES jobs,      \* Backend.jobs: the rows by ID
          nextID,    \* Backend.nextID: the last ID assigned
          claims,    \* history: the claims Fetch has handed out
          settled    \* history: per job, the generations whose finalization
                     \* took effect, in order
vars == <<jobs, nextID, claims, settled>>

JobIds == 1..MaxID

Init == /\ jobs = EmptyStore
        /\ nextID = 0
        /\ claims = {}
        /\ settled = [i \in JobIds |-> << >>]

-----------------------------------------------------------------------------
(* What callers can send.                                                  *)

BatchesOf(S) == UNION {[1..n -> S] : n \in 1..MaxBatch}

Requests == [queue : Queues, boost : Boosts, at : StartTimes]

\* The entries a caller can make of the claims it was handed.
Entry(c, at, message) == [id         |-> c.id,
                          generation |-> c.generation,
                          attempt    |-> c.attempt,
                          snoozes    |-> c.snoozes,
                          at         |-> at,
                          message    |-> message]
PlainEntries   == {Entry(c, NoTime, FALSE) : c \in claims}
CancelEntries  == UNION {{Entry(c, NoTime, m) : m \in BOOLEAN} : c \in claims}
RetryEntries   == UNION {{Entry(c, t, FALSE) : t \in RetryTimes} : c \in claims}
SnoozeEntries  == {[e EXCEPT !.snoozes = @ + 1] : e \in RetryEntries}

-----------------------------------------------------------------------------

Enqueue(reqs, now) ==
    /\ nextID + Len(reqs) <= MaxID
    /\ IF Accepted(reqs, now)
       THEN /\ jobs' = Insert(jobs, nextID, reqs, now)
            /\ nextID' = nextID + Len(reqs)
       ELSE UNCHANGED <<jobs, nextID>>
    /\ UNCHANGED <<claims, settled>>

\* The bound MaxGeneration keeps jobs that reached it from being claimed.
Fetch(queue, limit, now) ==
    LET ids == FirstOf(jobs, Claimable(jobs, queue, now), limit)
    IN  /\ \A i \in ids : jobs[i].generation < MaxGeneration
        /\ jobs' = Claim(jobs, ids, now)
        /\ claims' = claims \union {ClaimOf(jobs', i) : i \in ids}
        /\ UNCHANGED <<nextID, settled>>

\* The tail the five finalizations share: the outcomes that took effect.
Settle(batch) ==
    /\ settled' = [i \in JobIds |->
                      IF Won(jobs, batch, i)
                      THEN Append(settled[i], WinnerOf(jobs, batch, i).generation)
                      ELSE settled[i]]
    /\ UNCHANGED <<nextID, claims>>

Complete(batch, now) ==
    /\ jobs' = Finalize(jobs, batch, LAMBDA row, e : CompleteRow(row, e, now))
    /\ Settle(batch)

Kill(batch, now) ==
    /\ jobs' = Finalize(jobs, batch, LAMBDA row, e : KillRow(row, e, now))
    /\ Settle(batch)

Cancel(batch, now) ==
    /\ jobs' = Finalize(jobs, batch, LAMBDA row, e : CancelRow(row, e, now))
    /\ Settle(batch)

Retry(batch) ==
    IF AllStorable(batch)
    THEN jobs' = Finalize(jobs, batch, RetryRow) /\ Settle(batch)
    ELSE UNCHANGED vars

Snooze(batch) ==
    IF AllStorable(batch)
    THEN jobs' = Finalize(jobs, batch, SnoozeRow) /\ Settle(batch)
    ELSE UNCHANGED vars

Heartbeat(tokens, now) ==
    /\ jobs' = Renew(jobs, tokens, now)
    /\ UNCHANGED <<nextID, claims, settled>>

MoveDue(limit, now) ==
    /\ \E ids \in UpTo(limit, Due(jobs, now)) : jobs' = MakeAvailable(jobs, ids)
    /\ UNCHANGED <<nextID, claims, settled>>

RescueStale(limit, now) ==
    /\ \E ids \in UpTo(limit, Stale(jobs, now, TTL)) : jobs' = Rescue(jobs, ids, now)
    /\ UNCHANGED <<nextID, claims, settled>>

Clean(limit, now) ==
    /\ \E ids \in UpTo(limit, Expired(jobs, now, Retention)) : jobs' = Delete(jobs, ids)
    /\ UNCHANGED <<nextID, claims, settled>>

SetCancelRequested(i) ==
    /\ jobs' = [jobs EXCEPT ![i].cancelRequested = TRUE]
    /\ UNCHANGED <<nextID, claims, settled>>

Reset ==
    /\ jobs' = Delete(jobs, DOMAIN jobs)
    /\ UNCHANGED <<nextID, claims, settled>>

Next ==
    \/ \E now \in Clock :
          \/ \E reqs \in BatchesOf(Requests) : Enqueue(reqs, now)
          \/ \E queue \in Queues, limit \in Limits : Fetch(queue, limit, now)
          \/ \E batch \in BatchesOf(PlainEntries) : Complete(batch, now) \/ Kill(batch, now)
          \/ \E batch \in BatchesOf(CancelEntries) : Cancel(batch, now)
          \/ \E tokens \in SUBSET claims : Heartbeat(tokens, now)
          \/ \E limit \in Limits : \/ MoveDue(limit, now)
                                   \/ RescueStale(limit, now)
                                   \/ Clean(limit, now)
    \/ \E batch \in BatchesOf(RetryEntries) : Retry(batch)
    \/ \E batch \in BatchesOf(SnoozeEntries) : Snooze(batch)
    \/ \E i \in DOMAIN jobs \intersect Cancellable : SetCancelRequested(i)
    \/ Reset

Spec == Init /\ [][Next]_vars

-----------------------------------------------------------------------------
(* Invariants.                                                             *)

Token(c) == [id |-> c.id, generation |-> c.generation]

Claims == [id : JobIds, generation : Nat \ {0}, attempt : Nat \ {0}, snoozes : Nat]

\* The rows are well-formed and every ID in use was assigned by Enqueue.
TypeOK ==
    /\ nextID \in 0..MaxID
    /\ DOMAIN jobs \subseteq 1..nextID
    /\ jobs \in [DOMAIN jobs -> JobRow]
    /\ claims \subseteq Claims
    /\ settled \in [JobIds -> Seq(Nat)]

\* The fence rests on this (JobRow.Generation, memory.go:106-113): no claim is
\* of a generation its job has not reached, and a running row is held by
\* exactly the claim that Fetch handed out for its generation.
OneHolder ==
    /\ \A c \in claims : c.id <= nextID
    /\ \A c, d \in claims : Token(c) = Token(d) => c = d
    /\ \A i \in DOMAIN jobs :
          /\ \A c \in claims : c.id = i => c.generation <= jobs[i].generation
          /\ jobs[i].state = Running => ClaimOf(jobs, i) \in claims

\* Every claim spends one attempt and every snooze gives one back, counted in
\* the metadata the worker's client wrote (memory.go:110, 234, mergeMeta).
RowAccounted(row) ==
    /\ row.attempt + row.snoozes = row.generation
    /\ row.attempt >= IF row.state = Running THEN 1 ELSE 0

Increasing(s) == \A j, k \in DOMAIN s : j < k => s[j] < s[k]

\* Each claim's outcome is recorded at most once, and outcomes are recorded in
\* the order of the claims: a late or repeated finalization of an earlier
\* generation never lands after a later one (memory.go:125).
OneOutcomePerClaim ==
    \A i \in JobIds :
        /\ Increasing(settled[i])
        /\ \A k \in DOMAIN settled[i] :
              /\ \E c \in claims : c.id = i /\ c.generation = settled[i][k]
              /\ i \in DOMAIN jobs /\ jobs[i].state = Running
                    => settled[i][k] < jobs[i].generation

\* Errors is the history of failed attempts, oldest first, with no attempt in
\* it twice and none that the job has not finished (backend.go:143-144).
RowErrorsOldestFirst(row) ==
    /\ Increasing(row.errors)
    /\ \A k \in DOMAIN row.errors :
          /\ row.errors[k] >= 1
          /\ IF row.state = Running THEN row.errors[k] < row.attempt
                                    ELSE row.errors[k] <= row.attempt

\* FinalizedAt is set exactly when the job is in a terminal state, so that the
\* cleaner never compares a zero time (memory.go:129, 176, 237, 345).
RowFinalized(row) == row.finalizedAt # NoTime <=> row.state \in TerminalStates

\* PriorityAt is ScheduledAt less PriorityBoost, pinned to the ends of the
\* range, however often the job was rescheduled or rescued (memory.go:63, 175,
\* 236, 294): it never wraps to the far end of the queue.
RowPriority(row) == row.priorityAt = Clamp(row.scheduledAt - row.boost)

\* Over any life of claims, snoozes, retries and rescues a row stays coherent:
\* the attempt budget never drifts from the claims and snoozes there were, the
\* error history stays in order, FinalizedAt agrees with the state and
\* PriorityAt with the schedule (memory.go:97-300).
RowsSound ==
    \A i \in DOMAIN jobs : /\ RowAccounted(jobs[i])
                           /\ RowErrorsOldestFirst(jobs[i])
                           /\ RowFinalized(jobs[i])
                           /\ RowPriority(jobs[i])

-----------------------------------------------------------------------------
(* What a step may never do.                                               *)

\* A running attempt is taken from its holder only by an outcome of that same
\* generation, or by a rescuer to whom its last heartbeat is older than the TTL
\* (memory.go:125, 291): the sweeps and other generations' calls never do it.
HolderLosesOnlyToSilence ==
    [][\A i \in DOMAIN jobs : jobs[i].state = Running =>
          \/ /\ i \in DOMAIN jobs'
             /\ jobs'[i].state = Running
             /\ jobs'[i].generation = jobs[i].generation
          \/ settled'[i] = Append(settled[i], jobs[i].generation)
          \/ \E now \in Clock : i \in Stale(jobs, now, TTL)
          \/ jobs' = EmptyStore]_vars

-----------------------------------------------------------------------------
(* The backend keeps the contract of JobLifecycle.                         *)

PhaseOf(state) == IF state = Running THEN "held"
                  ELSE IF state \in TerminalStates THEN "finished"
                  ELSE "waiting"

\* A deleted row takes its generation with it, so the contract's is read off
\* the claims: the youngest handed out.
Generations(i) == {0} \union {c.generation : c \in {d \in claims : d.id = i}}
Greatest(S)    == CHOOSE g \in S : \A h \in S : h <= g
Youngest(i)    == Greatest(Generations(i))

LifeOf(i) ==
    [phase      |-> IF i \in DOMAIN jobs THEN PhaseOf(jobs[i].state)
                    ELSE IF i <= nextID THEN "gone" ELSE "unborn",
     generation |-> Youngest(i),
     outcomes   |-> settled[i]]

Contract == INSTANCE JobLifecycle WITH Ids <- JobIds,
                                       life <- [i \in JobIds |-> LifeOf(i)]

ImplementsContract == Contract!Spec
=============================================================================
