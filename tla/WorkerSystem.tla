---------------------------- MODULE WorkerSystem ----------------------------
(***************************************************************************)
(* Clients working the jobs of one store: dispatcher.go (claims, heartbeat *)
(* loop, self-fencing, mover, rescuer), executor.go (runJob, pushFenced)   *)
(* and completer.go seen from outside (an operation waits in the client    *)
(* until the backend has it or the client gives up).                       *)
(*                                                                         *)
(* The clock slides: now is always 0 and a Tick, one HeartbeatInterval     *)
(* long, moves every instant in the store one step into the past, as far   *)
(* as Horizon, beyond which no test tells instants apart.                  *)
(***************************************************************************)
EXTENDS JobStore, SequencesExt

CONSTANTS Clients,
          Jobs,             \* the IDs of the jobs, all enqueued
          Queue,            \* the queue they are on
          Concurrency,      \* jobs a client runs at once
          MaxAttempts,
          RescueTTL,        \* in HeartbeatIntervals
          RetryDelay,       \* what the retry policy and a snooze wait
          MaxCrashes,       \* bound: processes that die
          MaxFaults,        \* bound: calls that fail, stall or lose their reply
          MaxSnoozes        \* bound: snoozes of all workers

ASSUME JobsAssumption        == Jobs \subseteq Nat \ {0}
ASSUME QueueAssumption       == Queue \in Queues
ASSUME ConcurrencyAssumption == Concurrency \in Nat \ {0}
ASSUME AttemptsAssumption    == MaxAttempts \in Nat \ {0}
ASSUME TTLAssumption         == RescueTTL \in Nat \ {0}
ASSUME DelayAssumption       == RetryDelay \in Nat
ASSUME FaultsAssumption      == MaxCrashes \in Nat /\ MaxFaults \in Nat /\ MaxSnoozes \in Nat

Horizon == -(RescueTTL + 1)
ASSUME RangeAssumption == Horizon >= MinInstant /\ RetryDelay <= MaxInstant

Now == 0

VARIABLES jobs,       \* the store
          execs,      \* runJob goroutines of all clients
          active,     \* Client.active: per client, the generation by job ID
          ops,        \* operations in the clients' completers
          failures,   \* heartbeatLoop's failures, per client
          beat,       \* how far each client's heartbeat of this interval is
          quiet,      \* history: the heartbeats of each client that came to
                      \* nothing since its last one that reached the store
          rescues,    \* history: how often each job was rescued
          crashes, faults, snoozed    \* bounds

store   == <<jobs, rescues>>
beats   == <<failures, beat, quiet>>
bounds  == <<crashes, faults, snoozed>>
vars    == <<jobs, execs, active, ops, failures, beat, quiet, rescues,
             crashes, faults, snoozed>>

\* A heartbeat is due, or called and unanswered, or done with; one that is
\* unanswered when its interval ends is late.
BeatPhases == {"due", "called", "done", "late"}

Results == {"ok", "cancel", "snooze", "error"}

\* An execution: the client, the claim it was handed, how far runJob got, the
\* result of its worker and whether the client has fenced it.
Execution(c, claim) == [client     |-> c,
                        id         |-> claim.id,
                        generation |-> claim.generation,
                        attempt    |-> claim.attempt,
                        snoozes    |-> claim.snoozes,
                        phase      |-> "claimed",
                        result     |-> "none",
                        fenced     |-> FALSE]

Token(e) == [id |-> e.id, generation |-> e.generation]

RunningOn(c) == {e \in execs : e.client = c}

\* The execution that Client.active holds for its job.
IsActive(e) == /\ e.id \in DOMAIN active[e.client]
               /\ active[e.client][e.id] = e.generation

FreshRow == NewRow([queue |-> Queue, boost |-> 0, at |-> NoTime], Now)

Init == /\ jobs = [i \in Jobs |-> FreshRow]
        /\ execs = {}
        /\ active = [c \in Clients |-> EmptyStore]
        /\ ops = {}
        /\ failures = [c \in Clients |-> 0]
        /\ beat = [c \in Clients |-> "due"]
        /\ quiet = [c \in Clients |-> 0]
        /\ rescues = [i \in Jobs |-> 0]
        /\ crashes = 0 /\ faults = 0 /\ snoozed = 0

Fault == faults < MaxFaults /\ faults' = faults + 1

-----------------------------------------------------------------------------
(* dispatchOnce and runJob.                                                *)

\* The rows a Fetch for the client's free slots returns.
Fetched(c) ==
    LET free == Concurrency - Cardinality(RunningOn(c))
    IN  FirstOf(jobs, Claimable(jobs, Queue, Now), free)

Dispatch(c) ==
    LET ids == Fetched(c)
    IN  /\ ids # {}
        /\ jobs' = Claim(jobs, ids, Now)
        /\ execs' = execs \union {Execution(c, ClaimOf(jobs', i)) : i \in ids}
        /\ UNCHANGED <<active, ops, rescues, beats, bounds>>

\* The claim was made but the client never heard of it.
DispatchLost(c) ==
    LET ids == Fetched(c)
    IN  /\ ids # {} /\ Fault
        /\ jobs' = Claim(jobs, ids, Now)
        /\ UNCHANGED <<execs, active, ops, rescues, beats, crashes, snoozed>>

\* runJob stores itself in active under the job's ID, over whatever execution
\* of the job the client may still be running, and calls the worker.
RunJob(e) ==
    /\ e.phase = "claimed"
    /\ execs' = (execs \ {e}) \union {[e EXCEPT !.phase = "working"]}
    /\ active' = [active EXCEPT ![e.client] =
                    [i \in DOMAIN @ \union {e.id} |->
                        IF i = e.id THEN e.generation ELSE @[i]]]
    /\ UNCHANGED <<store, ops, beats, bounds>>

\* Mutant: a plain Delete of the job's entry, whoever's it is.
ForgetTheJob(e) ==
    active' = [active EXCEPT ![e.client] = Delete(@, {e.id})]

\* The deferred CompareAndDelete: the entry goes only if it is this execution's.
Forget(e) ==
    active' = [active EXCEPT ![e.client] =
                 IF IsActive(e) THEN Delete(@, {e.id}) ELSE @]

\* The worker returns and pushFenced finds the execution not fenced.
WorkerReturns(e, result) ==
    /\ e.phase = "working" /\ ~e.fenced
    /\ result = "snooze" => snoozed < MaxSnoozes
    /\ snoozed' = IF result = "snooze" THEN snoozed + 1 ELSE snoozed
    /\ execs' = (execs \ {e}) \union {[e EXCEPT !.phase = "returned", !.result = result]}
    /\ UNCHANGED <<store, active, ops, beats, crashes, faults>>

\* The worker returns and pushFenced drops its result.
FencedWorkerReturns(e) ==
    /\ e.phase = "working" /\ e.fenced
    /\ execs' = execs \ {e}
    /\ Forget(e)
    /\ UNCHANGED <<store, ops, beats, bounds>>

\* Mutant: a failed attempt is the last only past the limit.
KindOneMore(e) ==
    CASE e.result = "ok"     -> "complete"
      [] e.result = "cancel" -> "cancel"
      [] e.result = "snooze" -> "snooze"
      [] e.result = "error"  -> IF e.attempt > MaxAttempts THEN "kill" ELSE "retry"

\* What becomes of the result: only an error looks at the attempts left.
Kind(e) ==
    CASE e.result = "ok"     -> "complete"
      [] e.result = "cancel" -> "cancel"
      [] e.result = "snooze" -> "snooze"
      [] e.result = "error"  -> IF e.attempt >= MaxAttempts THEN "kill" ELSE "retry"

\* The operation runJob makes of the result and of the row it was handed.
Operation(e) ==
    [client     |-> e.client,
     kind       |-> Kind(e),
     id         |-> e.id,
     generation |-> e.generation,
     attempt    |-> e.attempt,
     snoozes    |-> IF e.result = "snooze" THEN e.snoozes + 1 ELSE e.snoozes,
     at         |-> Now + RetryDelay,
     message    |-> TRUE]

Push(e) ==
    /\ e.phase = "returned"
    /\ ops' = ops \union {Operation(e)}
    /\ execs' = execs \ {e}
    /\ Forget(e)
    /\ UNCHANGED <<store, beats, bounds>>

\* The completer's channel stayed full until the push timed out.
PushDropped(e) ==
    /\ e.phase = "returned" /\ Fault
    /\ execs' = execs \ {e}
    /\ Forget(e)
    /\ UNCHANGED <<store, ops, beats, crashes, snoozed>>

-----------------------------------------------------------------------------
(* The completer's calls, one operation at a time (batches: MemoryBackend). *)

Apply(row, op) ==
    CASE op.kind = "complete" -> CompleteRow(row, op, Now)
      [] op.kind = "cancel"   -> CancelRow(row, op, Now)
      [] op.kind = "kill"     -> KillRow(row, op, Now)
      [] op.kind = "retry"    -> RetryRow(row, op)
      [] op.kind = "snooze"   -> SnoozeRow(row, op)

\* Applied, or found stale, which the completer takes for done.
Deliver(op) ==
    /\ jobs' = Finalize(jobs, <<op>>, Apply)
    /\ ops' = ops \ {op}
    /\ UNCHANGED <<execs, active, rescues, beats, bounds>>

\* The backend acted but the reply was lost: the completer will call again.
DeliverUnheard(op) ==
    /\ Fault
    /\ jobs' = Finalize(jobs, <<op>>, Apply)
    /\ UNCHANGED <<execs, active, ops, rescues, beats, crashes, snoozed>>

\* The retries of the call are used up: the outcome is dropped.
GiveUp(op) ==
    /\ Fault
    /\ ops' = ops \ {op}
    /\ UNCHANGED <<store, execs, active, beats, crashes, snoozed>>

-----------------------------------------------------------------------------
(* heartbeatLoop: one turn per client and interval.                        *)

ActiveTokens(c) == {[id |-> i, generation |-> active[c][i]] : i \in DOMAIN active[c]}

\* No error: the reply arrived, or there was nothing to send.
Heartbeat(c) ==
    /\ beat[c] = "due"
    /\ jobs' = Renew(jobs, ActiveTokens(c), Now)
    /\ beat' = [beat EXCEPT ![c] = "done"]
    /\ failures' = [failures EXCEPT ![c] = 0]
    /\ quiet' = [quiet EXCEPT ![c] = 0]
    /\ UNCHANGED <<execs, active, ops, rescues, bounds>>

\* A call nobody will answer; it may have reached the store all the same.
HeartbeatStalls(c) ==
    /\ beat[c] = "due" /\ DOMAIN active[c] # {} /\ Fault
    /\ beat' = [beat EXCEPT ![c] = "called"]
    /\ \/ /\ jobs' = Renew(jobs, ActiveTokens(c), Now)
          /\ quiet' = [quiet EXCEPT ![c] = 0]
       \/ /\ quiet' = [quiet EXCEPT ![c] = @ + 1]
          /\ UNCHANGED jobs
    /\ UNCHANGED <<execs, active, ops, failures, rescues, crashes, snoozed>>

FenceActive(c) ==
    execs' = {IF e.client = c /\ IsActive(e) THEN [e EXCEPT !.fenced = TRUE] ELSE e
                : e \in execs}

\* Mutant: the count of failures is never reset.
FailuresPileUp(c) ==
    /\ beat[c] \in {"called", "late"}
    /\ beat' = [beat EXCEPT ![c] = IF @ = "late" THEN "due" ELSE "done"]
    /\ failures' = [failures EXCEPT ![c] = @ + 1]
    /\ IF failures[c] >= 2 THEN FenceActive(c) ELSE UNCHANGED execs
    /\ UNCHANGED <<store, active, ops, quiet, bounds>>

\* The call's error, at the latest a HeartbeatInterval after the call.  The
\* third in a row fences what is in active.
HeartbeatFails(c) ==
    /\ beat[c] \in {"called", "late"}
    /\ beat' = [beat EXCEPT ![c] = IF @ = "late" THEN "due" ELSE "done"]
    /\ IF failures[c] + 1 >= 3
       THEN /\ FenceActive(c)
            /\ failures' = [failures EXCEPT ![c] = 0]
       ELSE /\ failures' = [failures EXCEPT ![c] = @ + 1]
            /\ UNCHANGED execs
    /\ UNCHANGED <<store, active, ops, quiet, bounds>>

-----------------------------------------------------------------------------
(* Some client's mover and rescuer, whose limit of 1000 is never reached.   *)

MoveDue ==
    /\ Due(jobs, Now) # {}
    /\ jobs' = MakeAvailable(jobs, Due(jobs, Now))
    /\ UNCHANGED <<execs, active, ops, rescues, beats, bounds>>

RescueStale ==
    LET ids == Stale(jobs, Now, RescueTTL)
    IN  /\ ids # {}
        /\ jobs' = Rescue(jobs, ids, Now)
        /\ rescues' = [i \in Jobs |-> IF i \in ids THEN rescues[i] + 1 ELSE rescues[i]]
        /\ UNCHANGED <<execs, active, ops, beats, bounds>>

-----------------------------------------------------------------------------
(* Time and death.                                                         *)

Slide(t) == IF t = NoTime \/ t = Horizon THEN t ELSE t - 1

SlideRow(row) == [row EXCEPT !.scheduledAt = Slide(@), !.priorityAt = Slide(@),
                             !.heartbeatAt = Slide(@), !.finalizedAt = Slide(@)]

\* An interval passes once every ticker fired in it and every goroutine that a
\* Dispatch started has run.  Completers deliver within an interval, unless a
\* call stalls.
Tick ==
    /\ \A c \in Clients : beat[c] \in {"called", "done"}
    /\ \A e \in execs : e.phase # "claimed"
    /\ ops # {} => faults < MaxFaults
    /\ faults' = IF ops # {} THEN faults + 1 ELSE faults
    /\ jobs' = [i \in Jobs |-> SlideRow(jobs[i])]
    /\ beat' = [c \in Clients |-> IF beat[c] = "called" THEN "late" ELSE "due"]
    /\ UNCHANGED <<execs, active, ops, failures, quiet, rescues, crashes, snoozed>>

\* The process dies with all it held, and is started again.
Crash(c) ==
    /\ crashes < MaxCrashes
    /\ crashes' = crashes + 1
    /\ execs' = execs \ RunningOn(c)
    /\ active' = [active EXCEPT ![c] = EmptyStore]
    /\ ops' = {op \in ops : op.client # c}
    /\ failures' = [failures EXCEPT ![c] = 0]
    /\ beat' = [beat EXCEPT ![c] = "done"]
    /\ quiet' = [quiet EXCEPT ![c] = 0]
    /\ UNCHANGED <<store, faults, snoozed>>

-----------------------------------------------------------------------------

ExecNext(e) ==
    \/ RunJob(e)
    \/ \E result \in Results : WorkerReturns(e, result)
    \/ FencedWorkerReturns(e)
    \/ Push(e)
    \/ PushDropped(e)

OpNext(op) == Deliver(op) \/ DeliverUnheard(op) \/ GiveUp(op)

ClientNext(c) == \/ Dispatch(c)
                 \/ DispatchLost(c)
                 \/ Heartbeat(c)
                 \/ HeartbeatStalls(c)
                 \/ HeartbeatFails(c)
                 \/ Crash(c)

Next == \/ \E e \in execs : ExecNext(e)
        \/ \E op \in ops : OpNext(op)
        \/ \E c \in Clients : ClientNext(c)
        \/ MoveDue
        \/ RescueStale
        \/ Tick

Spec == Init /\ [][Next]_vars

\* Every loop keeps turning, workers return, and calls are answered once there
\* are no faults left.  Workers, the network and processes owe nothing else.
Fairness ==
    /\ \A c \in Clients : /\ WF_vars(Dispatch(c))
                          /\ WF_vars(Heartbeat(c))
                          /\ WF_vars(HeartbeatFails(c))
                          /\ WF_vars(\E e \in RunningOn(c) :
                                \/ RunJob(e)
                                \/ \E result \in Results : WorkerReturns(e, result)
                                \/ FencedWorkerReturns(e)
                                \/ Push(e))
    /\ WF_vars(\E op \in ops : Deliver(op))
    /\ WF_vars(MoveDue)
    /\ WF_vars(RescueStale)
    /\ WF_vars(Tick)

FairSpec == Spec /\ Fairness

-----------------------------------------------------------------------------
(* Invariants.                                                             *)

Executions == [client : Clients, id : Jobs, generation : Nat, attempt : Nat,
               snoozes : Nat, phase : {"claimed", "working", "returned"},
               result : Results \union {"none"}, fenced : BOOLEAN]

Operations == [client : Clients, kind : {"complete", "cancel", "kill", "retry", "snooze"},
               id : Jobs, generation : Nat, attempt : Nat, snoozes : Nat,
               at : Instant, message : {TRUE}]

\* The types of the variables: rows as the store declares them, executions and
\* operations with the fields that runJob gives them.
TypeOK ==
    /\ jobs \in [Jobs -> JobRow]
    /\ execs \subseteq Executions
    /\ \A c \in Clients : active[c] \in [DOMAIN active[c] -> Nat] /\ DOMAIN active[c] \subseteq Jobs
    /\ ops \subseteq Operations
    /\ failures \in [Clients -> 0..2]
    /\ beat \in [Clients -> BeatPhases]

\* However clients crash, lose replies or are cut off, a claim is in one pair of
\* hands: no two executions or operations of any clients carry the same token,
\* none is ahead of its row, and the one that is level with a running row got
\* the attempt the row counts (guarantees.mdx:69; memory.go:106-113).
ExclusiveTokens ==
    LET hands == execs \union ops
    IN  /\ \A x, y \in hands : Token(x) = Token(y) => x = y
        /\ \A x \in hands : /\ x.generation <= jobs[x.id].generation
                            /\ Live(jobs, x) => x.attempt = jobs[x.id].attempt

\* The budget: an attempt beyond MaxAttempts is paid for by a rescue, since a
\* failed attempt at or past the limit kills the job (executor.go:106, 129) and
\* only the rescuer returns a job without asking (memory.go:281-298).
AttemptsBoundedByRescues ==
    \A i \in Jobs : jobs[i].attempt <= MaxAttempts + rescues[i]

\* The snooze counter the clients write into the metadata never loses a snooze
\* to a stale writer: it and the attempt add up to the claims there were, even
\* though each client bumps the counter of the row it once read
\* (executor.go:96; memory.go:138-142, 234).
SnoozesNeverLost ==
    \A i \in Jobs : jobs[i].attempt + jobs[i].snoozes = jobs[i].generation

-----------------------------------------------------------------------------
(* What a step may never do.                                               *)

\* The three-beat margin (client.mdx:171, guarantees.mdx:105): a job is rescued
\* from an execution that is still running only when as many heartbeats in a
\* row of its client came to nothing as fit into RescueTTL.  A client that runs
\* an earlier attempt of the job beside it is no exception, whichever returns
\* first (executor.go:82, 85).
RescuedOnlyWhenSilent ==
    [][\A e \in execs :
          (Live(jobs, e) /\ rescues'[e.id] # rescues[e.id])
          => quiet[e.client] >= RescueTTL]_vars

-----------------------------------------------------------------------------
(* What must happen.                                                       *)

\* Whatever was lost on the way, every job reaches a terminal state for good:
\* its claim is answered, or its silence is noticed, until its attempts are
\* used up.
EveryJobSettles == \A i \in Jobs : <>[](jobs[i].state \in TerminalStates)

-----------------------------------------------------------------------------
(* What the documentation says and the code does not keep.                 *)

\* "MaxAttempts is how many attempts the job gets before it is declared dead"
\* (backend.go:97).
AttemptsWithinMax == \A i \in Jobs : jobs[i].attempt <= MaxAttempts
=============================================================================
