------------------------------ MODULE JobStore ------------------------------
(***************************************************************************)
(* The rows a goque backend keeps and what each Backend operation does to  *)
(* them.  A store is a function from the IDs of the jobs it holds to their *)
(* rows; every operator below maps a store to the store the operation      *)
(* leaves, so that the modules that call a backend, in memory or           *)
(* PostgreSQL, share one definition of the operation.                      *)
(*                                                                         *)
(* A row has the fields some operation reads.  Of the metadata only the    *)
(* snooze counter of the "goque" envelope is kept, of the errors the       *)
(* number of the attempt each one records.                                 *)
(***************************************************************************)
EXTENDS Instants, FiniteSets, Sequences

CONSTANT Queues

Scheduled == "scheduled"
Available == "available"
Running   == "running"
Retryable == "retryable"
Completed == "completed"
Cancelled == "cancelled"
Dead      == "dead"

TerminalStates == {Completed, Cancelled, Dead}
States == {Scheduled, Available, Running, Retryable} \union TerminalStates

JobRow ==
    [queue           : Queues,
     boost           : Duration,            \* PriorityBoost
     state           : States,
     scheduledAt     : Instant,
     priorityAt      : Instant,
     attempt         : Int,
     generation      : Nat,
     heartbeatAt     : Instant \union {NoTime},
     finalizedAt     : Instant \union {NoTime},
     cancelRequested : BOOLEAN,
     snoozes         : Nat,                 \* in Metadata
     errors          : Seq(Int)]            \* the attempts in Errors

EmptyStore == [i \in {} |-> NoTime]

-----------------------------------------------------------------------------
(* Enqueue.  A request names a queue, a boost and a ScheduledAt that may be *)
(* the zero time, "now".  One unstorable request rejects the whole batch.   *)

Request == [queue : Queues, boost : Duration, at : Int]

StartAt(req, now) == IF req.at = NoTime THEN now ELSE req.at

Accepted(reqs, now) ==
    \A k \in DOMAIN reqs : SubStorable(StartAt(reqs[k], now), reqs[k].boost)

NewRow(req, now) ==
    LET at == StartAt(req, now)
    IN  [queue           |-> req.queue,
         boost           |-> req.boost,
         state           |-> IF at > now THEN Scheduled ELSE Available,
         scheduledAt     |-> at,
         priorityAt      |-> SubDuration(at, req.boost),
         attempt         |-> 0,
         generation      |-> 0,
         heartbeatAt     |-> NoTime,
         finalizedAt     |-> NoTime,
         cancelRequested |-> FALSE,
         snoozes         |-> 0,
         errors          |-> <<>>]

\* IDs after `last` go to the requests in order.
Insert(jobs, last, reqs, now) ==
    [i \in DOMAIN jobs \union (last + 1)..(last + Len(reqs)) |->
        IF i \in DOMAIN jobs THEN jobs[i] ELSE NewRow(reqs[i - last], now)]

-----------------------------------------------------------------------------
(* Fetch claims the first `limit` due jobs of a queue, by PriorityAt and    *)
(* then ID.                                                                 *)

Claimable(jobs, queue, now) ==
    {i \in DOMAIN jobs : /\ jobs[i].state = Available
                         /\ jobs[i].queue = queue
                         /\ jobs[i].scheduledAt <= now}

Precedes(jobs, i, j) ==
    \/ jobs[i].priorityAt < jobs[j].priorityAt
    \/ jobs[i].priorityAt = jobs[j].priorityAt /\ i < j

FirstOf(jobs, ids, limit) ==
    {i \in ids : Cardinality({j \in ids : Precedes(jobs, j, i)}) < limit}

\* Mutant: the fencing token is left alone, as if Attempt were enough.
ClaimRowSameToken(row, now) ==
    [row EXCEPT !.state       = Running,
                !.attempt     = @ + 1,
                !.generation  = IF @ = 0 THEN 1 ELSE @,
                !.heartbeatAt = now]

ClaimRow(row, now) ==
    [row EXCEPT !.state       = Running,
                !.attempt     = @ + 1,
                !.generation  = @ + 1,
                !.heartbeatAt = now]

Claim(jobs, ids, now) ==
    [i \in DOMAIN jobs |-> IF i \in ids THEN ClaimRow(jobs[i], now) ELSE jobs[i]]

\* What the caller keeps of a row it was handed: the fencing token and the
\* fields its finalization will quote.
ClaimOf(jobs, i) == [id         |-> i,
                     generation |-> jobs[i].generation,
                     attempt    |-> jobs[i].attempt,
                     snoozes    |-> jobs[i].snoozes]

-----------------------------------------------------------------------------
(* The fence: an entry takes effect only on a running row of its generation.*)

\* Mutant: the fence does not look at the generation.
LiveAnyGeneration(jobs, entry) ==
    /\ entry.id \in DOMAIN jobs
    /\ jobs[entry.id].state = Running

\* Mutant: the fence does not look at the state.
LiveAnyState(jobs, entry) ==
    /\ entry.id \in DOMAIN jobs
    /\ jobs[entry.id].generation = entry.generation

Live(jobs, entry) ==
    /\ entry.id \in DOMAIN jobs
    /\ jobs[entry.id].state = Running
    /\ jobs[entry.id].generation = entry.generation

\* Mutant: every entry is held against the store the batch found.
WinnersAtOnce(jobs, batch) == {k \in DOMAIN batch : Live(jobs, batch[k])}

\* The entries of a batch that apply.  The first entry that passes the fence
\* takes its job out of the running state, so a later entry for it is stale.
Winners(jobs, batch) ==
    {k \in DOMAIN batch :
        /\ Live(jobs, batch[k])
        /\ \A m \in DOMAIN batch : m < k /\ batch[m].id = batch[k].id
                                     => ~Live(jobs, batch[m])}

\* The IDs a StaleError reports.
StaleIds(jobs, batch) ==
    {batch[k].id : k \in DOMAIN batch \ Winners(jobs, batch)}

\* The winning entry of job i, when there is one.
Won(jobs, batch, i) ==
    \E k \in Winners(jobs, batch) : batch[k].id = i
WinnerOf(jobs, batch, i) ==
    batch[CHOOSE k \in Winners(jobs, batch) : batch[k].id = i]

Finalize(jobs, batch, Apply(_, _)) ==
    [i \in DOMAIN jobs |-> IF Won(jobs, batch, i)
                           THEN Apply(jobs[i], WinnerOf(jobs, batch, i))
                           ELSE jobs[i]]

-----------------------------------------------------------------------------
(* The five finalizations.  Besides the claim it answers, an entry has an   *)
(* instant `at` when it reschedules and says whether it carries an error    *)
(* message; its snoozes are the metadata it puts in place of the row's.     *)

CompleteRow(row, entry, now) ==
    [row EXCEPT !.state       = Completed,
                !.finalizedAt = now,
                !.snoozes     = entry.snoozes]

KillRow(row, entry, now) ==
    [row EXCEPT !.state       = Dead,
                !.finalizedAt = now,
                !.errors      = Append(@, entry.attempt),
                !.snoozes     = entry.snoozes]

CancelRow(row, entry, now) ==
    [row EXCEPT !.state       = Cancelled,
                !.finalizedAt = now,
                !.errors      = IF entry.message THEN Append(@, row.attempt) ELSE @,
                !.snoozes     = entry.snoozes]

RetryRow(row, entry) ==
    [row EXCEPT !.state       = Retryable,
                !.scheduledAt = entry.at,
                !.priorityAt  = SubDurationClamped(entry.at, row.boost),
                !.finalizedAt = NoTime,
                !.errors      = Append(@, entry.attempt),
                !.snoozes     = entry.snoozes]

SnoozeRow(row, entry) ==
    [row EXCEPT !.state       = Retryable,
                !.attempt     = @ - 1,
                !.scheduledAt = entry.at,
                !.priorityAt  = SubDurationClamped(entry.at, row.boost),
                !.finalizedAt = NoTime,
                !.snoozes     = entry.snoozes]

\* Mutant: instants are not validated.
NoneChecked(batch) == TRUE

\* Retry and Snooze refuse a batch, all of it, for one unstorable instant.
AllStorable(batch) == \A k \in DOMAIN batch : ValidateInstant(batch[k].at)

-----------------------------------------------------------------------------
(* Heartbeat renews the running rows of its tokens and reports which of     *)
(* them were asked to stop.                                                 *)

Renew(jobs, tokens, now) ==
    [i \in DOMAIN jobs |->
        IF \E t \in tokens : t.id = i /\ Live(jobs, t)
        THEN [jobs[i] EXCEPT !.heartbeatAt = now]
        ELSE jobs[i]]

CancelReply(jobs, tokens) ==
    {t.id : t \in {u \in tokens : Live(jobs, u) /\ jobs[u.id].cancelRequested}}

-----------------------------------------------------------------------------
(* Maintenance.  A sweep takes as many of its candidates as its limit       *)
(* allows; which ones is unspecified.                                       *)

UpTo(limit, ids) ==
    {S \in SUBSET ids : \/ S = ids /\ Cardinality(S) <= limit
                        \/ Cardinality(S) = limit}

\* Mutant: the mover forgets the retryable jobs.
DueScheduled(jobs, now) ==
    {i \in DOMAIN jobs : /\ jobs[i].state = Scheduled
                         /\ jobs[i].scheduledAt <= now}

Due(jobs, now) ==
    {i \in DOMAIN jobs : /\ jobs[i].state \in {Scheduled, Retryable}
                         /\ jobs[i].scheduledAt <= now}

MakeAvailable(jobs, ids) ==
    [i \in DOMAIN jobs |->
        IF i \in ids THEN [jobs[i] EXCEPT !.state = Available] ELSE jobs[i]]

Stale(jobs, now, ttl) ==
    {i \in DOMAIN jobs : /\ jobs[i].state = Running
                         /\ jobs[i].heartbeatAt < now - ttl}

\* Mutant: PriorityAt is not recomputed.
RescueRowSamePriority(row, now) ==
    [row EXCEPT !.state       = Retryable,
                !.scheduledAt = now]

RescueRow(row, now) ==
    [row EXCEPT !.state       = Retryable,
                !.scheduledAt = now,
                !.priorityAt  = SubDurationClamped(now, row.boost)]

Rescue(jobs, ids, now) ==
    [i \in DOMAIN jobs |->
        IF i \in ids THEN RescueRow(jobs[i], now) ELSE jobs[i]]

\* retention is a function of the terminal state.
Expired(jobs, now, retention) ==
    {i \in DOMAIN jobs : /\ jobs[i].state \in TerminalStates
                         /\ jobs[i].finalizedAt < now - retention[jobs[i].state]}

Delete(jobs, ids) == [i \in DOMAIN jobs \ ids |-> jobs[i]]
=============================================================================
