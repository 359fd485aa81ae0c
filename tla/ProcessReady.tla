----------------------------- MODULE ProcessReady -----------------------------
(***************************************************************************)
(* process.go: one synchronous pass over named queues, on the goroutine of *)
(* its caller, with no dispatcher, heartbeats or completer goroutine       *)
(* behind it.  executor.go's runJob works the jobs and syncFinalizer has   *)
(* completer.attempt record each outcome before the next job begins.       *)
(*                                                                         *)
(* The client is not started, as the documentation asks, but it need not   *)
(* be alone: another client's maintenance works the same store.  A backend *)
(* in memory ignores contexts and does not fail.                           *)
(***************************************************************************)
EXTENDS JobStore, Options

CONSTANTS ResultsOf,    \* what the worker of each job may return
          FetchLimit,   \* 100
          MoveDueBatch, MoveDueMaxBatches, PerQueueJobBudget,
          MaxTries,     \* Len(completerBackoffs) + 1
          RescueTTL,
          InsertsFor,   \* the batches that may be enqueued at each ID
          Delays,       \* what a snooze waits
          MaxID,        \* bound: jobs enqueued
          MaxNow,       \* bound: the clock
          MaxFaults,    \* bound: calls that fail or lose their reply
          MaxSnoozes,   \* bound: snoozes of one job
          MaxRescues    \* bound: rescues by other clients

Results == {"ok", "cancel", "snooze", "retryAt", "error"}

ASSUME PassAssumption ==
    /\ FetchLimit \in Nat \ {0} /\ MoveDueBatch \in Nat \ {0}
    /\ MoveDueMaxBatches \in Nat \ {0} /\ PerQueueJobBudget \in Nat
    /\ MaxTries \in Nat \ {0} /\ RescueTTL \in Nat
    /\ MaxNow \in Instant /\ Delays \subseteq Nat
    /\ DOMAIN InsertsFor = 1..MaxID
    /\ ResultsOf \in [1..MaxID -> SUBSET Results]

\* A queue that is named is one of Queues, and a boost is a word, in the client's
\* defaults, in the options of a kind and in those of a call.
ASSUME OptionsAssumption ==
    /\ MaxID \in Nat
    /\ ClientDefaults.queue \in Queues /\ ClientDefaults.boost \in Duration
    /\ \A id \in 1..MaxID : \A inserts \in InsertsFor[id] :
          /\ inserts \in Seq(ToSet(inserts))
          /\ \A k \in DOMAIN inserts :
                LET kind == inserts[k].kind
                    opts == inserts[k].opts
                IN  /\ DOMAIN kind.options = DOMAIN Unset
                    /\ kind.options.queue \in Queues \union {""}
                    /\ {kind.options.boost, kind.priority} \subseteq Duration
                    /\ opts \in Seq(ToSet(opts))
                    /\ \A n \in DOMAIN opts :
                          /\ opts[n].field = "queue" => opts[n].value \in Queues \union {""}
                          /\ opts[n].field = "boost" => opts[n].value \in Duration

VARIABLES jobs, last,   \* the store and the last ID it gave
          columns,      \* the columns of a row that never change
          inMemory,     \* whether the backend is in memory
          now,
          cancelled,    \* whether the context of the call is done
          phase,        \* where the call is
          queues,       \* the named queues not yet drained, the current one first
          moves,        \* MoveDue calls so far
          batch,        \* the claimed jobs not yet done with, the current one first
          processed,    \* in the current queue
          op,           \* the outcome being recorded
          tries,        \* of recording it
          results,      \* the JobResults, in order
          outcome,      \* how the last call returned
          due,          \* history: the jobs due in the named queues at the call
          helped,       \* history: jobs other clients rescued or moved during the pass
          adrift,       \* history: claims whose reply was lost or outcome dropped
          failed,       \* history: of jobs to be retried by policy, when which attempt failed
          faults, rescued    \* bounds

inserted == <<last, columns>>
clock    == <<inMemory, now>>
pass     == <<queues, moves, batch, processed, op, tries, results, outcome>>
history  == <<due, helped, adrift, failed>>
bounds   == <<faults, rescued>>
passVars == <<jobs, last, columns, inMemory, now, cancelled, phase, queues, moves, batch, processed,
              op, tries, results, outcome, due, helped, adrift, failed, faults, rescued>>

Phases == {"idle", "moving", "fetching", "between", "working", "recording"}

NoOp == [kind |-> "none"]

ProcessInit ==
    /\ jobs = EmptyStore /\ last = 0 /\ columns = EmptyStore
    /\ inMemory \in BOOLEAN
    /\ now = 0
    /\ cancelled = FALSE
    /\ phase = "idle"
    /\ queues = << >> /\ moves = 0 /\ batch = << >> /\ processed = 0
    /\ op = NoOp /\ tries = 0
    /\ results = << >> /\ outcome = "none"
    /\ due = EmptyStore /\ helped = {} /\ adrift = {} /\ failed = EmptyStore
    /\ faults = 0 /\ rescued = 0

Fault == /\ ~inMemory
         /\ faults < MaxFaults /\ faults' = faults + 1

\* The call returns what it has collected.
Return(how) == /\ phase' = "idle"
               /\ outcome' = how
               /\ batch' = << >>

-----------------------------------------------------------------------------
(* The call, and the promotion of what has come due.                       *)

DueNow(qs) ==
    {i \in DOMAIN jobs : /\ jobs[i].state \in {Scheduled, Retryable, Available}
                         /\ jobs[i].scheduledAt <= now
                         /\ jobs[i].queue \in ToSet(qs)}

\* A context that is done already ends the call before it does anything.
Call(qs, ended) ==
    /\ phase = "idle"
    /\ cancelled' = ended
    /\ phase' = IF ended THEN "idle" ELSE "moving"
    /\ outcome' = IF ended THEN "error" ELSE "none"
    /\ queues' = qs /\ moves' = 0 /\ batch' = << >> /\ processed' = 0
    /\ results' = << >>
    /\ due' = [i \in DueNow(qs) |-> [queue |-> jobs[i].queue, priorityAt |-> jobs[i].priorityAt]]
    /\ helped' = {}
    /\ UNCHANGED <<jobs, inserted, clock, op, tries, adrift, failed, bounds>>

\* Mutant: a full batch ends the promotion too.
MoveOnce ==
    /\ phase = "moving"
    /\ \E ids \in UpTo(MoveDueBatch, Due(jobs, now)) : jobs' = MakeAvailable(jobs, ids)
    /\ phase' = "fetching" /\ moves' = 0
    /\ UNCHANGED <<inserted, clock, cancelled, queues, batch, processed, op, tries, results,
                   outcome, history, bounds>>

Move ==
    /\ phase = "moving"
    /\ \E ids \in UpTo(MoveDueBatch, Due(jobs, now)) :
          /\ jobs' = MakeAvailable(jobs, ids)
          /\ IF Cardinality(ids) < MoveDueBatch \/ moves + 1 = MoveDueMaxBatches
             THEN phase' = "fetching" /\ moves' = 0
             ELSE moves' = moves + 1 /\ UNCHANGED phase
    /\ UNCHANGED <<inserted, clock, cancelled, queues, batch, processed, op, tries, results,
                   outcome, history, bounds>>

\* The backend fails, or the context ends in the call; some may have moved.
MoveFails ==
    /\ phase = "moving" /\ Fault
    /\ \E ids \in {{}} \union UpTo(MoveDueBatch, Due(jobs, now)) :
          jobs' = MakeAvailable(jobs, ids)
    /\ Return("error") /\ moves' = 0
    /\ UNCHANGED <<inserted, clock, cancelled, queues, processed, op, tries, results, history,
                   rescued>>

-----------------------------------------------------------------------------
(* The queues, one after the other, batch by batch.                        *)

Ready == FirstOf(jobs, Claimable(jobs, Head(queues), now), FetchLimit)

\* Mutant: the rows come back in the order of their IDs.
ClaimsById(store, ids) ==
    {[k \in DOMAIN s |-> ClaimOf(store, s[k])] :
        s \in {s \in SetToSeqs(ids) : \A j, k \in DOMAIN s : j < k => s[j] < s[k]}}

\* The claimed rows, handed over in the one order they are to run in.
Claims(store, ids) ==
    {[k \in DOMAIN s |-> ClaimOf(store, s[k])] :
        s \in {s \in SetToSeqs(ids) : \A j, k \in DOMAIN s : j < k => Precedes(store, s[j], s[k])}}

Fetch ==
    /\ phase = "fetching" /\ queues # << >> /\ ~cancelled
    /\ Ready # {}
    /\ jobs' = Claim(jobs, Ready, now)
    /\ batch' \in Claims(jobs', Ready)
    /\ phase' = "between"
    /\ UNCHANGED <<inserted, clock, cancelled, queues, moves, processed, op, tries, results,
                   outcome, history, bounds>>

Drained ==
    /\ phase = "fetching" /\ queues # << >> /\ ~cancelled
    /\ Ready = {}
    /\ queues' = Tail(queues)
    /\ processed' = 0
    /\ UNCHANGED <<jobs, inserted, clock, cancelled, phase, moves, batch, op, tries, results,
                   outcome, history, bounds>>

\* The context is looked at before each Fetch.
StopAtFetch ==
    /\ phase = "fetching" /\ queues # << >> /\ cancelled
    /\ Return("error")
    /\ UNCHANGED <<jobs, inserted, clock, cancelled, queues, moves, processed, op, tries,
                   results, history, bounds>>

\* Fetch returns an error, whether or not it claimed anything.
FetchFails ==
    /\ phase = "fetching" /\ queues # << >> /\ ~cancelled /\ Fault
    /\ \E ids \in {{}, Ready} :
          /\ jobs' = Claim(jobs, ids, now)
          /\ adrift' = adrift \union ids
    /\ Return("error")
    /\ UNCHANGED <<inserted, clock, cancelled, queues, moves, processed, op, tries, results,
                   due, helped, failed, rescued>>

\* The last queue is drained.
ReturnResults ==
    /\ phase = "fetching" /\ queues = << >>
    /\ Return("nil")
    /\ UNCHANGED <<jobs, inserted, clock, cancelled, queues, moves, processed, op, tries,
                   results, history, bounds>>

-----------------------------------------------------------------------------
(* runJob and syncFinalizer.                                               *)

RunJob ==
    /\ phase = "between"
    /\ phase' = "working"
    /\ UNCHANGED <<jobs, inserted, clock, cancelled, pass, history, bounds>>

\* A worker's Cancel and SnoozeFor take precedence, then a failed attempt is
\* the last one or is retried: when RetryAt says, or when the policy does.
Kind(claim, result) ==
    CASE result = "ok"     -> "complete"
      [] result = "cancel" -> "cancel"
      [] result = "snooze" -> "snooze"
      [] OTHER -> IF claim.attempt >= columns[claim.id].maxAttempts THEN "kill" ELSE "retry"

\* The instants an outcome may be rescheduled for.
Instants(claim, result) ==
    CASE result \in {"snooze", "retryAt"} -> {now + d : d \in Delays}
      [] result = "error" -> {now + d : d \in PolicyDelay(columns[claim.id].policy, claim.attempt)}
      [] OTHER -> {now}

WorkerReturns(result) ==
    /\ phase = "working" /\ result \in ResultsOf[Head(batch).id]
    /\ result = "snooze" => Head(batch).snoozes < MaxSnoozes
    /\ LET claim == Head(batch)
       IN  \E at \in Instants(claim, result) :
              op' = [kind       |-> Kind(claim, result),
                     id         |-> claim.id,
                     generation |-> claim.generation,
                     attempt    |-> claim.attempt,
                     snoozes    |-> IF result = "snooze" THEN claim.snoozes + 1
                                                         ELSE claim.snoozes,
                     at         |-> at,
                     message    |-> TRUE,
                     byPolicy   |-> result = "error",
                     made       |-> now]
    /\ tries' = 0
    /\ phase' = "recording"
    /\ UNCHANGED <<jobs, inserted, clock, cancelled, queues, moves, batch, processed, results,
                   outcome, history, bounds>>

Apply(row, o) ==
    CASE o.kind = "complete" -> CompleteRow(row, o, now)
      [] o.kind = "cancel"   -> CancelRow(row, o, now)
      [] o.kind = "kill"     -> KillRow(row, o, now)
      [] o.kind = "retry"    -> RetryRow(row, o)
      [] o.kind = "snooze"   -> SnoozeRow(row, o)

\* The backend takes the outcome, or finds it stale.
Recorded ==
    /\ jobs' = Finalize(jobs, <<op>>, Apply)
    /\ failed' = IF Live(jobs, op) /\ op.kind = "retry" /\ op.byPolicy
                 THEN [i \in DOMAIN failed \union {op.id} |->
                         IF i = op.id THEN [at |-> op.made, attempt |-> op.attempt]
                                      ELSE failed[i]]
                 ELSE failed

Storable == op.kind \in {"retry", "snooze"} => ValidateInstant(op.at)

\* A JobResult; its Outcome says what kind op is.
Result == [id |-> op.id, queue |-> Head(queues)]

\* Mutant: cancellation ends the pass between two jobs of a batch.
NextJobUnlessCancelled ==
    /\ results' = Append(results, Result)
    /\ processed' = processed + 1
    /\ op' = NoOp /\ tries' = 0
    /\ IF cancelled \/ (Len(batch) = 1 /\ processed + 1 > PerQueueJobBudget)
       THEN Return("error")
       ELSE /\ batch' = Tail(batch)
            /\ phase' = IF Len(batch) = 1 THEN "fetching" ELSE "between"
            /\ UNCHANGED outcome

\* Mutant: the jobs of a queue are counted batch by batch.
NextJobUncounted ==
    /\ results' = Append(results, Result)
    /\ processed' = IF Len(batch) = 1 THEN 0 ELSE processed + 1
    /\ op' = NoOp /\ tries' = 0
    /\ IF Len(batch) = 1 /\ processed + 1 > PerQueueJobBudget
       THEN Return("error")
       ELSE /\ batch' = Tail(batch)
            /\ phase' = IF Len(batch) = 1 THEN "fetching" ELSE "between"
            /\ UNCHANGED outcome

\* The result is taken, recorded or not; the budget is looked at after a batch.
NextJob ==
    /\ results' = Append(results, Result)
    /\ processed' = processed + 1
    /\ op' = NoOp /\ tries' = 0
    /\ IF Len(batch) = 1 /\ processed + 1 > PerQueueJobBudget
       THEN Return("error")
       ELSE /\ batch' = Tail(batch)
            /\ phase' = IF Len(batch) = 1 THEN "fetching" ELSE "between"
            /\ UNCHANGED outcome

RecordSucceeds ==
    /\ phase = "recording" /\ Storable
    /\ Recorded
    /\ NextJob
    /\ UNCHANGED <<inserted, clock, cancelled, queues, moves, due, helped, adrift, bounds>>

Dropped == /\ adrift' = adrift \union {op.id}
           /\ NextJob

\* Every try is refused for an instant that cannot be stored.
RecordRefused ==
    /\ phase = "recording" /\ ~Storable
    /\ Dropped
    /\ UNCHANGED <<jobs, inserted, clock, cancelled, queues, moves, due, helped, failed, bounds>>

\* Mutant: one try too many.
RecordFailsOnceMore ==
    /\ phase = "recording" /\ Storable /\ Fault
    /\ Recorded \/ UNCHANGED <<jobs, failed>>
    /\ IF tries + 1 > MaxTries
       THEN Dropped
       ELSE /\ tries' = tries + 1
            /\ UNCHANGED <<phase, batch, processed, op, results, outcome, adrift>>
    /\ UNCHANGED <<inserted, clock, cancelled, queues, moves, due, helped, rescued>>

\* A try fails, before or after the backend took the outcome.  The context of
\* the calls is not the caller's.
RecordFails ==
    /\ phase = "recording" /\ Storable /\ Fault
    /\ Recorded \/ UNCHANGED <<jobs, failed>>
    /\ IF tries + 1 >= MaxTries
       THEN Dropped
       ELSE /\ tries' = tries + 1
            /\ UNCHANGED <<phase, batch, processed, op, results, outcome, adrift>>
    /\ UNCHANGED <<inserted, clock, cancelled, queues, moves, due, helped, rescued>>

-----------------------------------------------------------------------------
(* The world around the call.                                              *)

Resolved(inserts) == [k \in DOMAIN inserts |-> Resolve(inserts[k].kind, inserts[k].opts)]

\* The whole batch is built, and then taken by the store, or none of it is.
Stored(inserts) ==
    LET options == Resolved(inserts)
        reqs    == [k \in DOMAIN options |-> Requested(options[k], now)]
    IN  IF (\A k \in DOMAIN options : Problem(options[k]) = "none") /\ Accepted(reqs, now)
        THEN reqs ELSE << >>

\* The batches somebody may enqueue now.
Arrivals == IF last < MaxID THEN InsertsFor[last + 1] ELSE {}

EnqueueMany(inserts) ==
    /\ LET reqs == Stored(inserts)
           new  == (last + 1)..(last + Len(reqs))
       IN  /\ last + Len(reqs) <= MaxID
           /\ jobs' = Insert(jobs, last, reqs, now)
           /\ columns' = [i \in DOMAIN jobs \union new |->
                            IF i \in new THEN Columns(Resolved(inserts)[i - last])
                                         ELSE columns[i]]
           /\ last' = last + Len(reqs)
    /\ UNCHANGED <<clock, cancelled, phase, pass, history, bounds>>

Cancel ==
    /\ phase # "idle" /\ ~cancelled
    /\ cancelled' = TRUE
    /\ UNCHANGED <<jobs, inserted, clock, phase, pass, history, bounds>>

Tick ==
    /\ now < MaxNow /\ now' = now + 1
    /\ UNCHANGED <<jobs, inserted, inMemory, cancelled, phase, pass, history, bounds>>

\* Another client's rescuer finds a job whose heartbeat nobody renewed.
OthersRescue(i) ==
    /\ i \in Stale(jobs, now, RescueTTL)
    /\ rescued < MaxRescues /\ rescued' = rescued + 1
    /\ jobs' = Rescue(jobs, {i}, now)
    /\ helped' = helped \union {i}
    /\ failed' = Delete(failed, {i})
    /\ UNCHANGED <<inserted, clock, cancelled, phase, pass, due, adrift, faults>>

\* Its mover.
OthersMove(i) ==
    /\ i \in Due(jobs, now)
    /\ jobs' = MakeAvailable(jobs, {i})
    /\ helped' = helped \union {i}
    /\ UNCHANGED <<inserted, clock, cancelled, phase, pass, due, adrift, failed, bounds>>

-----------------------------------------------------------------------------

PassStep ==
    \/ Move \/ MoveFails
    \/ Fetch \/ Drained \/ StopAtFetch \/ FetchFails \/ ReturnResults
    \/ RunJob
    \/ \E result \in Results : WorkerReturns(result)
    \/ RecordSucceeds \/ RecordRefused \/ RecordFails

Others == \E i \in DOMAIN jobs : OthersRescue(i) \/ OthersMove(i)

-----------------------------------------------------------------------------
(* Properties.                                                             *)

\* The types of the variables.
ProcessTypeOK ==
    /\ DOMAIN jobs \subseteq 1..last /\ \A i \in DOMAIN jobs : jobs[i] \in JobRow
    /\ last \in 0..MaxID /\ DOMAIN columns = DOMAIN jobs
    /\ phase \in Phases
    /\ queues \in Seq(Queues)
    /\ moves \in 0..(MoveDueMaxBatches - 1)
    /\ Len(batch) <= FetchLimit
    /\ (batch = << >>) <=> (phase \in {"idle", "moving", "fetching"})
    /\ processed \in 0..(PerQueueJobBudget + FetchLimit)
    /\ tries \in 0..(MaxTries - 1)
    /\ outcome \in {"none", "nil", "error"}
    /\ helped \union adrift \union DOMAIN failed \subseteq 1..last

\* "Nothing is left in flight when it returns" (process.go:93-94), however it
\* returns: a job still running is one whose outcome the backend refused or
\* whose claim never came back.
NothingInFlight ==
    phase = "idle" =>
        \A i \in DOMAIN jobs : jobs[i].state = Running => i \in adrift

\* A pass that returns no error has run every job that was due in the named
\* queues when it was called, and no pass runs a job twice, a retried or snoozed
\* one included, unless another client put it back (process.go:87-93, 115-150).
EachDueJobOnce ==
    /\ outcome = "nil" =>
          \A i \in DOMAIN due \ helped : \E k \in DOMAIN results : results[k].id = i
    /\ \A k, m \in DOMAIN results :
          k < m /\ results[k].id = results[m].id => results[k].id \in helped

\* Of the jobs of one queue that were due at the call, the one with the earlier
\* PriorityAt ran first, across batches and whatever was enqueued meanwhile
\* (process.go:126-149, memory.go:97-102).
DueOrder ==
    \A k, m \in DOMAIN results :
        LET i == results[k].id
            j == results[m].id
        IN  k < m /\ {i, j} \subseteq DOMAIN due \ helped /\ due[i].queue = due[j].queue
                => Precedes(due, i, j)

\* A queue that keeps yielding jobs is given up on: no more than a batch past
\* the budget, and never without an error (process.go:105-107, 146-148).
WithinBudget ==
    \A q \in Queues :
        LET ran == Cardinality({k \in DOMAIN results : results[k].queue = q})
        IN  /\ ran <= PerQueueJobBudget + FetchLimit
            /\ outcome = "nil" => ran <= PerQueueJobBudget

\* The policies of the jobs that may be enqueued, after each attempt that is not
\* the last.
PoliciesInRange ==
    \A id \in 1..MaxID : \A inserts \in InsertsFor[id] : \A k \in DOMAIN inserts :
        LET column == Columns(Resolved(inserts)[k])
        IN  /\ column.maxAttempts \in Int
            /\ \A n \in 1..(column.maxAttempts - 1) : InRange(PolicyOr(column.policy), n)

\* From the failure of an attempt to the claim of the next, the job waits what
\* its policy promises, unless it was rescued in between (retry.go, executor.go:
\* 28-37, 132).
NoEarlyRetry ==
    [][\A i \in DOMAIN jobs \intersect DOMAIN failed \intersect DOMAIN jobs' :
          jobs'[i].generation > jobs[i].generation
              => now >= failed[i].at
                          + ShortestWait(PolicyOr(columns[i].policy), failed[i].attempt)]_passVars

\* "It honors cancellation between jobs" (process.go:103-104): once the context is
\* done and a job has run, no other job begins.
CancelledBetweenJobs ==
    [][cancelled /\ results # << >> => ~(phase = "between" /\ phase' = "working")]_passVars
=============================================================================
