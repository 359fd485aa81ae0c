# goque, specified

TLA+ modules for [goque](../src/README.md), a job queue library for Go: what its
backends do to the rows they keep, how concurrent statements, processes,
goroutines and lost calls interleave around those rows, and what holds all the
same. TLC checks every module on small instances; TLAPS proves what matters most about
both stores, the clients that work it, the dispatch loop, the completer, the client's
lifecycle, the synchronous pass, the client of a test and the migrations for every value
of the constants.

Line numbers in the modules refer to files of `src/`, and to
`src/backend/memory`, `src/backend/postgres` and `src/backend/backend.go` where
only a file name is given.

## The system

A **client** (`client.go`) enqueues jobs and works them. It talks to a **backend**
(`backend/backend.go`), which stores one row per job and is shared by any number of
clients in any number of processes. Nothing else is shared: all coordination is by
what the backend's operations do to the rows.

| Component | State it keeps | Operations | What is hard | What makes it correct |
|---|---|---|---|---|
| Backend contract: `backend/backend.go`, `errors.go` | one row per job: state, instants, attempt, generation, errors, metadata | Enqueue, Fetch, five finalizations, Heartbeat, MoveDue, RescueStale, Clean | finalizations arrive late, twice, or for an earlier claim | one holder at a time; one outcome per claim; finished jobs stay finished |
| Memory backend: `backend/memory` | a map and a mutex | the same, atomically; SetCancelRequested, Reset | batches that mix claims of a job; wrap-around of instants | the contract; ordering; error history; priority arithmetic |
| PostgreSQL backend: `backend/postgres` | a table and a sequence | the same, each one SQL statement | statements overlap: snapshots, SKIP LOCKED, waits, rechecks, deadlocks | a statement's reply is true when it commits; the same contract |
| Executor and heartbeats: `executor.go`, `dispatcher.go` | `active`, the heartbeat failure count, fences | runJob, heartbeatLoop, fenceActive, mover, rescuer | processes die, replies are lost, heartbeats stall; a client may hold two claims of one job | the attempt budget; no snooze lost; rescue only after three fruitless heartbeats |
| Dispatch loop: `dispatcher.go` | slot counters, credits, the wake channel | dispatchLoop, dispatchOnce | counters change during a pass; shares round to nothing | caps; balanced credits; no starvation; strict order |
| Completer: `completer.go` | a bounded channel, a buffer, the batches under way | push, flush, retry with backoff, stop | full channel, slow backend, aborted drain | every outcome is in one place, recorded, or counted as dropped; stop returns |
| Client lifecycle: `dispatcher.go`, `client.go` | started, stopping, three contexts, three wait groups | Start, Stop, StopAndCancel, the drain | two callers; a restart while draining; closing a channel others send on | no send on the closed channel; heartbeats outlive jobs; a drain ends; a restart is clean |
| ProcessReady: `process.go` | a pass in the caller's goroutine | ProcessReady: promotion, claims in batches, runJob, synchronous finalization | the context ends between two jobs; workers enqueue, retry and snooze; calls fail or lose their reply; another client works the same store | each due job once, in order; nothing claimed is left in flight; a budget per queue |
| Fake client: `fake.go` | a clock, the queues tracked, a round | Fake, Advance, SetNow, TrackQueue, RunReady, RunUntilIdle, Reset | queues that appear during a run; rows that arrive another way; a bound on rounds | a run that came to rest left nothing to run |
| Retry policies: `retry.go` | none (a registry filled at start) | Delay, Encode, Decode | the doubling and the product wrap around time.Duration | no retry before its wait |
| Migrations: `backend/postgres/goosemigrate` | the version table, the indexes, an advisory lock | Up: checks, lock, sweep, builds, records | processes of two releases at once; death between two statements, a session that outlives its process; IF NOT EXISTS | nil means usable; once each; no valid index lost; Up returns |
| Client configuration and enqueueing: `options.go`, `client.go` | the filled-in Config | NewClient, Enqueue, EnqueueMany: overlay of options, the row made of them | four layers of options that contradict each other though each is sound; one job of a batch that makes no row | the most specific layer decides; a batch is stored as a whole or not at all |
| Registry, middleware: `registry.go`, `middleware` | maps filled at start | registration, composition | nothing concurrent | ordinary tests reach it |

The website under `src/website` is documentation. It was read for what it promises,
as was `backendtest/suite.go`, the conformance suite every backend has to pass.

## Modules

```
JobLifecycle ── JobLifecycleProofs
Instants ─┬─ JobStore ─┬─ MemoryBackend ── BatchLoop ── MemoryBackendProofs
          │            │        └ refines JobLifecycle
          │            ├─ PostgresBackend ── PostgresProofs
          │            │        └ refines JobLifecycle
          │            ├─ WorkerSystem ── WorkerProofs
          │            └─┬─ ProcessReady ── FakeClient ── ProcessProofs
          └─ RetryPolicies ── Options
Completer ── ClientLifecycle ── LifecycleProofs
Dispatcher ── DispatcherProofs, with ClientConfig in its instance
Migrations ── MigrationsProofs
```

Each module `X` that is run has an `MCX` with its instances. Operators whose
comment begins "Mutant:" are deliberate mistakes, defined beside the operator they
stand in for; no module uses them. They record which mistake each property catches.

**Instants** is `backend/time.go`: signed words of any width, their validation, and
the subtraction of a boost with and without clamping, wrap-around included.

**JobStore** is the row and the effect of every operation on a store, as operators
from a store to a store. Both backends and WorkerSystem use them, so "Fetch" means
the same everywhere. Of the metadata only the snooze counter is kept; kind,
payload, CreatedAt, AttemptedAt, AttemptedBy and Version decide nothing and are
left out.

**JobLifecycle** is the promise about one job, independent of any store: unborn,
waiting, held under a generation, finished, gone; each held generation has at most
one outcome. It is the abstract specification, and `OncePerClaim` is what its user may
rely on.

**MemoryBackend** has one action per method, since each holds the mutex throughout.
Its callers are as unhelpful as a network makes them: instants need not advance, and
any claim ever handed out may be quoted again, late, or twice in a batch.
`claims` and `settled` are history variables. `ImplementsContract` is the refinement
of JobLifecycle: the phase is read off the row's state, the generation off the
claims, because a deleted row takes its own with it. **BatchLoop** is the loop of
`memory.go:119-136`, entry by entry, for each of the five kinds of finalization; with
it the set-at-a-time operators, that follow the SQL statement, are compared.

**PostgresBackend** takes a statement apart: `Begin` reads the snapshot and fixes the
scan order, `LockNext` locks one row and evaluates the WHERE clause again on its
newest version, `SkipLocked` passes over a row another session has locked (sweeps
only; the fenced updates wait), a commit writes, `Abort` is any failure: a cancelled
context, a lost connection, the victim of a deadlock. These rules are PostgreSQL's
(READ COMMITTED) and external to the repository; the clauses are the code's. What
an UPDATE or INSERT writes plays no part in its locking and is chosen at the commit.

**WorkerSystem** composes clients, executions, heartbeats and completers on one
store. Time slides: now is 0, a Tick of one HeartbeatInterval moves every stored
instant one step into the past. Crashes, failed calls, calls that took effect but
whose reply was lost, and heartbeats that stall are actions, each bounded by a named
constant. A worker may do anything at any time; its own timeout and a cancellation
only make it return, which it may do anyway.

**Completer** has the sending goroutines, the loop, its calls and `stop`, each
`select` an action per ready case. One case of the code has no action: `push` giving
up because the completer's lifetime has ended (`completer.go:83`), which no execution
of a client can reach, since `stop` begins when every push has returned
(`SendsAreSafe`). **ClientLifecycle** EXTENDS it with Start, Stop,
StopAndCancel and the drain goroutine; the outcomes of Completer are its jobs.

**Dispatcher** has `dispatchOnce` as a step per queue, with the counters as they were
when the pass began, and the end of a job in the three steps the code takes: the
wake, then `globalRunning`, then `running`.

**RetryPolicies** is the five policies and what decoding makes of one this process does
not know, with Go's wrapping multiplication. Jitter is a range of answers. Beside
`Delay` stands `ShortestWait`, what the documentation promises; MCFakeClient compares
the two over small policies, as long as the waits are `InRange`, `DelaysAsDocumented` does
for all of them, and `NoEarlyRetry` for the retries that are run.

**Options** is how an enqueue comes to a row: the library's defaults, those of the
Config, the options of the kind (with its `Priority()`), and the options of the call,
laid over each other field by field; what `buildRow` refuses (a delay together with a
start time, metadata that is no object) or panics on (metadata that is JSON null); and
the columns an execution goes by. ProcessReady and FakeClient enqueue through it.
MCFakeClient assumes, for TLC to evaluate, that `Resolve` is what the documentation
promises: the most specific layer that sets a field decides it. `MostSpecificDecides`
says so of all layers.

**ClientConfig** is the part of `NewClient` that decides how a client works: the queues
it refuses, their weights, the worker slots, and the RescueTTL that follows from the
heartbeat interval. The Dispatcher's instance is one that `Filled` returns, and the
RescueTTL of three intervals that WorkerSystem runs with is asserted there.

**ProcessReady** is `process.go` with `runJob` of `executor.go` and the synchronous
finalizer of `completer.go:222-245` under it: promotion of the due jobs, queue by queue
batches claimed and run job by job, each outcome recorded before the next job begins.
A call to the backend fails, or takes effect and loses its reply, as often as `MaxFaults`
allows; the context may end in the middle of a job; a worker may enqueue. The client is
not started, as the documentation asks, but another client may rescue and move jobs of
the store it works on. **FakeClient** EXTENDS it with the test's side: before `Fake` the
test calls ProcessReady itself, afterwards only through RunReady and RunUntilIdle.

**Migrations** is `Up` statement by statement, for any number of processes that know
different numbers of migrations. A process that dies, or loses its connection, leaves a
session behind at the server, which finishes the statement it is in before it gives up
the lock. What PostgreSQL and goose do is external and stated in the module's header.

Every definition that models code is mapped to its lines in `PROJECT.json`.

## What the runs show

| Run | Bounds | Shows |
|---|---|---|
| `memory` | one job, four claims, batches of two, 4-bit instants | the fence, the attempt budget, the error history, FinalizedAt, priorities, batch equals loop for every kind, the contract |
| `postgres` | two sessions, two jobs, two claims | replies are true at commit; holders lose only to silence; the contract |
| `system` | two clients, one job, one crash, three faults, fair | no claim in two hands; the budget is exceeded only by rescues; no snooze lost; rescue only after three fruitless heartbeats; every job settles |
| `completer` | four outcomes, a channel of one, batches of two, two tries | nothing forgotten; losses counted and justified |
| `lifecycle` | two jobs, two callers, two starts, fair | sends are safe; beats outlive jobs; restarts clean; drains end; outcomes settle |
| `dispatch` | three queues (weights 3, 1, 1), two slots, fair | caps, credits within their bound, strict order, no starvation |
| `process` | two queues, three jobs, two faults, one other client | each due job once and in order; nothing in flight; the budget; no early retry; idle means idle |
| `migrations` | three processes of two releases, three migrations, two calls each, three faults, fair | nil means usable; once each; valid for ever; Up returns |

Why these bounds are enough to meet the hard cases:

- A stale token needs one earlier generation, a stale token between two live ones
  needs three, and one more shows a row rescued, snoozed and retried: hence four claims
  in `memory`. A batch of two holds every pair of entries, for one generation or for two,
  and the fence looks at entries in pairs. Of what several jobs add, `process` checks the
  claim order (DueOrder) and `postgres` the cut by the limit; the theorems about `memory`
  hold for any number of jobs.
- Words of four bits with boosts of both extremes wrap in both directions; the
  code's width appears only as the constants of Instants.
- With two sessions one can stop at any point of a statement while the other runs
  any sequence of statements; two rows are what a lock-order deadlock, a LIMIT that
  cuts and a batch half stale need. Limit 1 makes the sweeps count only what they
  take. `MaxClaims` bounds the claims of both jobs together: either one job is
  claimed twice or each of them once.
- Three faults in a row fence a client, and RescueTTL is 3 intervals as the client's
  default makes it (`client.go:199`); two clients are a holder and a successor.
- A channel of one and batches of two make every outcome meet a full channel, a
  partial buffer and a full one. Two callers are the first and any other. Two starts
  are a start and a restart.
- Weights 3, 1, 1 on two slots give quotas that round down to nothing, which is where
  a light queue could starve.
- In `process` a batch is two jobs, so that a pass has a first, a last and a further
  batch; a promotion takes one row and so continues; the budget is two jobs of three.
  The three jobs have different policies: one unknown to the process, one whose wait is
  past the range, one exponential; and different boosts and start times. They come in a
  batch of two and one alone; one more batch holds a job whose kind has a delay and
  whose call has a start time.
- In `migrations` the second version builds two indexes, so that a process can die in a
  build, between two, and after the last but before the record; the third is known to one
  release only; the third process has a statement_timeout. Three faults are a loss, a
  loss of the successor, and a failed statement of the third.

`MaxID`, `MaxGeneration`, `MaxClaims`, `MaxBatch`, `MaxCrashes`, `MaxFaults`,
`MaxSnoozes`, `MaxRescues`, `MaxNow`, `MaxCalls` and `MaxStarts` are bounds of the models
and have no counterpart in the code.

### Fairness

`memory`, `postgres`, `completer` and `process` assume none. The rest check safety and
liveness of one fair specification. It is weak fairness, per loop:

- WorkerSystem: every goroutine that can proceed does, workers return, and the network
  answers once its bounded faults are spent. Without the last no job could settle.
- Completer (in `lifecycle`): the loop takes whichever case of its `select` is ready, calls return
  because `callTimeout` bounds them and a Backend must honour its context
  (`backend.go:353-357`). A backend may fail for ever: outcomes are then dropped.
- ClientLifecycle: in addition, goroutines notice an ended context. Nobody is assumed
  to call Stop or to cancel a context.
- Dispatcher: the poll timer fires, Fetch returns, jobs end.
- Migrations: a process that is alive goes on, since its statements are answered or fail
  and its waits for the lock are counted (`recover.go:171`). No server is assumed to
  notice that the process behind a session is gone: a lock may stay held for ever.

### Where documentation and code differ

Four runs are expected to be violated; each quotes a sentence in `PROJECT.json`.

- `attempts_beyond_max`: MaxAttempts is compared only when a worker returns an error,
  so a job that takes its process down is rescued and claimed again without limit.
  What holds is `AttemptsBoundedByRescues`.
- `stop_nil_early`: a second Stop returns nil while the first drains and a job is still
  in its worker.
- `drain_without_beats`: heartbeats stop when the workers have returned, although the
  completer may still hold their outcomes for up to 30 s. What holds is
  `BeatsOutliveJobs`.
- `cancelled_between_jobs`: a pass looks at its context once per batch, not between
  jobs. What holds, and holds because of that, is `NothingInFlight`.

Further observations that are not runs:

- One unstorable instant (say `RetryAt` of year 3000) refuses the whole Retry or Snooze
  batch it shares, which the completer retries and then drops as a whole: the other
  jobs of that batch are left to the rescuer. In a pass of ProcessReady the outcome is
  refused at every try and dropped: the row stays running although its JobResult says
  that it was retried.
- An outcome that is past the fence check when its client fences itself, or that waits
  in the completer, is still written; the generation keeps that harmless.
- A job's wake precedes the return of its slot (`executor.go:86`): a loop that takes it
  in between finds no slot and sleeps until the poll timer, although
  `queues.mdx:132-134` says that a completion wakes it.
- An uncapped exponential or linear policy wraps for a large attempt, and the retry is
  then due at once. A cap above half the range does not prevent that, because the
  doubling comes before the comparison (`retry.go:40-52`).
- One pass promotes at most 1000 batches of 1000 jobs; what is due beyond that is left
  to the next pass (`MoveDueMaxBatches` in ProcessReady).
- The check for newer migrations precedes the lock (`goosemigrate.go:89-113`). An older
  binary that passes it and then waits while a newer one migrates finds nothing pending
  and returns nil on a schema newer than it knows. `NilMeansUsable` says only that what
  it knows is there.
- Metadata that is the JSON value null makes `options.go:190-204` write to a nil map, and
  the enqueue panics (`Problem` in Options).
- A kind that sets Delay cannot be enqueued with WithScheduledAt: the two layers are
  overlaid first and conflict afterwards, although the call is the more specific.
- A WithTimeout below one millisecond is stored as 0, no timeout (`options.go:211`).

## What is proved

### The store in memory

`MemoryBackendProofs` proves, for every width of instants, number of jobs, claims and
batch size, and every set of instants, boosts and limits:

| Theorem | `Spec => []` |
|---|---|
| `TypeCorrect` | TypeOK |
| `HolderIsUnique` | OneHolder |
| `OutcomesAreFenced` | OneOutcomePerClaim |
| `RowsAreSound` | RowsSound |

The assumptions are those stated in the modules: that instants are a symmetric signed
word (`InstantRange`) and that the constants have their types. In particular nothing
is assumed of the callers' clocks, so the theorems hold for clocks that disagree.

The argument. Invariants about the claims (who holds what) and about the rows (what
each field says) need each other. That a claim is of a generation its row has reached
(OneHolder) is what makes its outcome come after all recorded ones
(OneOutcomePerClaim); but that a finalization's quoted attempt is the running row's,
which the error history needs, follows only because the claim *is* the one the row's
generation was handed out under, which is OneHolder again together with the fence.
So the inductive invariant is

    IInv == TypeOK /\ OneHolder /\ RowsOK /\ OneOutcomePerClaim

with `RowsOK` the conjunction of the four properties of single rows. The rows' part is
proved once per row operator (`ClaimRow`, `RetryRow`, ... each maps a good row to a
good row), lifted to stores, and then used by every action. OneHolder is preserved by
any action that leaves generations alone and makes no row running (`KeepsHolders`);
only Fetch needs an argument of its own. Each theorem combines initialisation, one
step per action, and temporal reasoning.

From it follow:

| Theorem | Shows |
|---|---|
| `HoldersLoseOnlyToSilence` | HolderLosesOnlyToSilence |
| `ContractIsKept` | ImplementsContract |
| `OutcomesOnce` | OncePerClaim, of the contract kept |
| `BatchesAreLoops` | BatchIsLoop |

The second is the refinement: initial states map to initial states, and each step is
shown to move every job by one of six moves (kept, born, handed out, answered, rescued,
removed) or to be Reset. Each move is then, in the view of that job, a step of
JobLifecycle or a stutter. The view reads the generation off the claims, so it takes one
invariant more, `GenerationsClaimed`: a row's generation is that of its youngest claim.

`BatchesAreLoops` is about every batch of every kind, with any two entries for one job or
one claim. `After` says in closed form what the loop has made of the store after its first
k entries: an entry takes effect if it is live at the start and the first of its claim.
That agrees with the loop step by step (`AfterStep`), and the loop, a function defined
recursively, is the only one that follows its equation: it could not differ from `After` at
a least number (`LeastNatural`).

### What the contract is worth

`JobLifecycleProofs` proves of the contract alone, `EachClaimOnce`: the outcomes of a job
are of claims there were, each of one claim only, in the order of the claims; none is of
the claim that holds the job, and a finished job ended with the outcome of its last claim.
The invariant (`LivesOK`) adds that no outcome is of a generation beyond the job's. Both
stores keep the contract, and so does the system of clients; each cites the proof through
an INSTANCE of JobLifecycleProofs rather than repeat it.

### The store in PostgreSQL

`PostgresProofs`, for any number of sessions, jobs, claims and rows per statement:

| Theorem | Shows |
|---|---|
| `RowsAndLocks` | TypeOK, and that no row is locked by two sessions |
| `RepliesHold` | RepliesAreTrue |
| `HoldersLoseOnlyToSilence` | HolderLosesOnlyToSilence |
| `ContractIsKept` | ImplementsContract |
| `OutcomesOnce` | OncePerClaim, of the contract kept |

The assumptions are that the constants have their types, and PostgreSQL's rules as the
module has them: a row lock is exclusive and held to the end of the statement, a row that
was waited for is evaluated again, a statement takes effect as a whole.

The argument is about overlap. `Reliable` is what a statement has learnt so far: the rows
it took are locked by it and qualify, and a token of its batch that it did not take is dead
or still to be looked at. Other sessions cannot take that away: locks are disjoint, a commit
changes only what its own statement took, so the rows are as they were seen
(`OthersReliable`); and a dead token stays dead whatever commits (`DeadStaysDead`), because
generations only grow. Ids to be inserted are not locked but come from a sequence, and no
two sessions have the same. The invariant is

    PInv == Rows /\ ClaimsOK /\ SessionsOK

with `Reliable` in SessionsOK, and in ClaimsOK that no claim is ahead of its row. That a
commit moves each job by one of the six moves of the memory store is shown per statement
(`FetchMoves`, `RescueMoves`, `RetryMoves`, ...) from what it can rely on; the invariant,
the fence and the refinement follow from the moves alone. PInv was also checked by TLC on
the instance of `postgres`.

### The clients at work

`WorkerProofs`, for any number of clients, jobs, crashes and faults:

| Theorem | Shows |
|---|---|
| `SystemTypeCorrect` | TypeOK |
| `ClaimsInOneHand` | ExclusiveTokens |
| `BudgetKept` | AttemptsBoundedByRescues |
| `SnoozesKept` | SnoozesNeverLost |
| `RescuesNeedSilence` | RescuedOnlyWhenSilent |
| `SystemKeepsContract` | that the clients, together, keep the contract of JobLifecycle |
| `SystemRecordsOnce` | OncePerClaim, of the contract kept |

The assumptions: attempts, RescueTTL and concurrency are positive, the constants have
their types, and the instants reach back far enough for ages up to RescueTTL + 1 to be told
apart (`RangeAssumption`), which is a matter of the model's relative time.

None is inductive. An attempt is within its budget because a row that *waits* has one
left, and that is true only because whoever decided on its outcome knew the attempt
(`ExecOK`, `OpOK`). A hand knows it, and the snoozes, only while its claim is live, so
what matters is that no change of a row brings a dead claim back to life (`Keeps`) and
that two hands never hold the same claim (`Apart`). `WorkInv` is these together.

`RescuesNeedSilence` needs time. `Sync` says of every execution that has its job: between
claim and start it is in its first interval, and its row was stamped within it; from then
on its claim is the one its client beats for (no other job of the client has displaced it),
and its row's heartbeat is no older than the heartbeats in a row that came to nothing, plus
one interval while the next is due. So a row older than RescueTTL has a silent client.
Both invariants were checked by TLC on the instance of `system`.

`SystemKeepsContract` is the contract seen from the clients. WorkerSystem does not remember
which claims had their outcome recorded; `RecordedSpec` adds a history variable, `settled`,
that writes them down when a finalization takes effect and hinders no step. With it each
job leads a life of JobLifecycle, waiting from the start, whatever crashes, repeated calls,
lost replies and rescues there are. TLC has checked both theorems' claims on the instance of
`system`, too, where a job with two recorded claims is reached.

### The completer and the client

`LifecycleProofs` proves about Completer, for any number of outcomes, capacities, batch
sizes and tries, and about ClientLifecycle, in addition for any number of jobs, callers of
Stop and restarts:

| Theorem | Shows |
|---|---|
| `TypeCorrect` | CompleterTypeOK |
| `EachInOnePlace` | NothingForgotten |
| `LossesHaveReasons` | LostOnlyWhenStuck |
| `ClientTypeCorrect` | TypeOK |
| `NoSendAfterClose` | SendsAreSafe |
| `HeartbeatsOutliveJobs` | BeatsOutliveJobs |
| `RestartsAreClean` | RestartsClean |

The assumptions are that capacities, batch sizes and tries are positive, that every
outcome has a kind, and that the sets are finite.

An outcome is in one place because the channel and the buffer repeat nothing, the
batches are disjoint (`BatchesSort`: sorting a buffer by kind makes disjoint batches of
the same outcomes), and the places do not overlap with each other or with what is
recorded or dropped. `Busy` ties the loop's phase to the batches under way, `Closing` ties
the channel's closing to `stop`, and `HeadTried` counts the failures of the first batch
against its tries, which is what a drop has to show.

The client's properties are all about order, and none is inductive: that no job can send
on the closed channel holds because the drain has waited for the fetchers before the
jobs and for the jobs before it closes. `Orderly` says what has ended, and what has not
been touched, by the time the drain is at each of its steps; what the completer's own
steps preserve is cited. Start replaces the completer, so its
properties begin anew there; that this loses nothing is `RestartsAreClean`.

### The dispatch loop

`DispatcherProofs`, for any finite set of queues and any weights and caps that are
positive, which is what `NewClient` lets through:

| Theorem | Shows |
|---|---|
| `TypeCorrect` | TypeOK, and with it that slots are never negative, a pass under way has one to give, and credits stay within `MaxCredit` |
| `CapsAlwaysHold` | CapsHold |
| `HeavierComeFirst` | HeavierFirst |
| `CreditsStayEven` | that credits add up to nothing, and how far they go from it |
| `EveryShareCounts` | that a pass under way asks its next queue for a row at least |
| `NobodyWaitsForLong` | that a queue with room is passed over a bounded number of times |

A pass works with numbers it read when it began, while jobs go on ending. That is safe in
one direction only: what the pass believes to be free may by now be less than what is.
`PassFits` says so, for the client (`globalRunning + free` is within MaxWorkers) and for
each queue yet to be served, and what a Fetch returns is bounded by both beliefs, so
the caps hold after it. `PassOrdered` is the same for strict priority: the demands are
sorted, and a queue that has none had no room or gave less than asked for (a Fetch that
fails counts as one that found nothing), so a lighter queue is served only after every
heavier one has had its turn.

The client's counter is a sum over its queues. What such a sum does when one of its terms
changes would be an induction over the set; instead the proofs take the smallest set for
which the claim fails (`SmallestSet`), which exists since strict inclusion is well-founded
on the subsets of a finite set.

Credits are changed only by passes, each of which pays every queue with room its weight and
charges the first of them the sum. So they add up to nothing; but the queues with room come
and go, and that no credit runs away is not in sight of any one pass. The invariant (`Even`)
speaks of all sets of queues: k of n queues together owe at most k(n-k) times the weights of
all. A pass makes a set owe more only if it charges the set's first queue for queues outside
it; then the set has a credit no smaller than that of a queue outside, so its debt is
at most the mean of what the set with that queue owes and the set without its first, and
k(n-k) exceeds that mean by one, which is what the pass may charge (`PassEvens`). With k = 1
and k = n-1 that is `MaxCredit`, the weights of all times n-1.

From the bound follows the part of `NoStarvation` that is a safety property. A history
variable, `passedOver`, counts the passes in which a queue had room and was not first; each
raises its credit by its weight, so that count times its weight is at most twice
`MaxCredit`. What that leaves to liveness is that passes go on being made.

### The pass in the foreground and the client of a test

`ProcessProofs` is about FakeClient with ProcessReady in it, for any number of jobs,
queues, faults and rescues, any program of enqueues, and any batch sizes and budgets:

| Theorem | Shows |
|---|---|
| `TypeCorrect` | TypeOK |
| `NothingIsLeftInFlight` | NothingInFlight |
| `BudgetIsKept` | WithinBudget |
| `DueJobsRunInOrder` | DueOrder |
| `DueJobsRunOnce` | EachDueJobOnce, if `Roomy` |
| `IdleIsIdle` | IdleMeansIdle, if `Roomy` |
| `RetriesWait` | NoEarlyRetry, if `PoliciesInRange` |
| `DelaysAsDocumented` | that `Delay` is never below what is documented, and without jitter equal to it, while in range |
| `MostSpecificDecides` | that the most specific layer of options that sets a field decides it |

The assumptions are that the constants have their types, and that a queue which some layer
of options names is one of `Queues` and a boost a word (`OptionsAssumption`). `Roomy` is the
hypothesis of two theorems: there are no more jobs than one pass can promote, 1000 batches
of 1000 in the code. Without it they are false, since what is due beyond that number waits
for the next pass.

None of the properties is inductive: each speaks of jobs that have run or of a pass that has
returned, and says nothing of the jobs that are claimed and still to run. So the argument is
about the *line*: the jobs that ran followed by those left of the batch. A claim extends the
line, a run moves its boundary. The invariant says

- `Claimed`: a running row is one of the batch, or is adrift (its claim's reply was
  lost or its outcome dropped), and each claim of the batch is its row's youngest;
- `Counted`: what has run in the queue being worked is `processed`, and that together with
  the batch is within the budget and one batch; queues to come have had no run;
- `Ordered`: the line repeats no job unless another client had a hand in it, it follows
  PriorityAt per queue, and every due job that is not in it still waits, as it was at the
  call and behind those that are;
- `Complete`: once the promotion is over, each of those is Available and its queue is still
  to be worked. While it goes on, at least `moves * MoveDueBatch` jobs are Available, so it
  cannot come to its limit with one left out; this is where `Roomy` is used;
- `Idle`, for the test: the queues tracked are those of every job the client has stored,
  and a run that has not begun to claim takes as due all that waits.

A claim keeps the line in order because a Fetch takes the first of what is Available, and
what workers enqueue between two of them was not due at the call, so it is not in question
(`Own`). Another client may rescue or move jobs of the same store (`WorldStep`); the
properties except those it has helped, and the invariant accounts for them. `FakeInv` was
also checked by TLC on the instance of `process`.

`NoEarlyRetry` compares the claim of a job with the failure before it, and between the two
the outcome has to reach the store, by whichever call. `WaitInv` follows it there:

- `Attempted`: a running job has an attempt behind its claim, so what a policy is asked is
  the attempt that failed;
- `OpWaits`: the outcome being recorded, if the row will take it, is no earlier than the
  policy promises, or is a snooze that keeps an earlier promise;
- `FailedWait`: a failed job that waits is scheduled no earlier than its instant, and one
  that runs has reached it.

`PoliciesInRange` is the hypothesis: after each attempt that is not the last, the wait of
each policy in use fits a time.Duration, and if the doubling of `Delay` is stopped by the
cap, so does twice the base and twice the cap. The default policy (2s doubled up to 15m) is
one such; beyond that range Go's arithmetic wraps around and the promise is not kept.
MCFakeClient assumes it of its jobs, for TLC to evaluate. The code doubles in a loop, the
promise has a power of two; both are functions defined recursively over Nat, and that such
a function exists and follows its equation (`StepByStep`) is proved by taking the least
number for which it would not (`LeastNatural`), which exists since < is well-founded on Nat.
`DelaysAsDocumented` is the comparison for all five policies. TLC has checked `WaitInv`,
too, on the instance of `process`.

### The migrations

`MigrationsProofs` proves, for any number of processes, releases, migrations, indexes,
calls and faults:

| Theorem | Shows |
|---|---|
| `TypeCorrect` | TypeOK |
| `NilIsTrue` | NilMeansUsable |
| `OnceOnly` | AppliedOnce |
| `NeverDropped` | ValidForEver |

The assumptions: every release knows the migrations up to some number, and no two
statements build an index of the same name (`OwnNames`, true of the files in
`migrations/`). None of the three properties is inductive. That a version is recorded
with its indexes valid rests on what the process that records it has seen: the sweep
left none of its indexes invalid, those of the statements it has done are valid, and
nobody has touched them since. The last rests on the lock, and the lock survives its
process only because its session does. So the invariant says

- `LockHeld`: only the holder of the lock is between its steps;
- `OrphansLocked`: while a session left behind is building, the lock is its own, and
  the indexes it builds are invalid;
- `RecordedUsable`, `Counted`, `NilDone`: a recorded version comes after all before it,
  has its indexes valid, and was applied once, any other never; nil means recorded;
- `Sound(p)`: what process p believes, by the phase it is in. While it drops, an index of
  a pending version that is invalid is among those it found; when it lists and applies,
  none is invalid that it is not itself building; `pending` is what is not recorded, and
  the first `built` indexes of the first pending version are valid.

A step of a process that does not hold the lock disturbs nobody's belief (`Aside`); one
that holds it is the only one with any (`UnderLock`); leaving the lock, by an error or
by death, is one lemma (`Leaves`). `IInv` was also checked by TLC on the
instance of `migrations`.

## What is only model-checked

Liveness, which is beyond the prover: `EveryJobSettles`, `DrainEnds`, `OutcomesSettle`,
`NoStarvation` (of which `NobodyWaitsForLong` is the bounded part) and `UpEnds`. Every other
property of the runs that pass is stated by a theorem.

## What is not modelled

- Of enqueueing: middleware, the payload, and timeouts, which bound a context that
  nobody in the models watches. Of the Config: retentions and the poll interval, since the
  loops they pace run at any time.
- Encoding: payloads, metadata beyond the snooze counter, the JSON of batches,
  `wire.go` and `scan.go`, the pgx drivers, which only convert and do I/O.
- Resolution: the table rounds `heartbeat_at` and `finalized_at` to microseconds.
- Logging, error texts, panics of handlers; the registry and middleware, which do not
  change once a client has started.
- The periodic loops' pauses: mover, rescuer and cleaner run at any time.
- The conformance suite and the website, read for what they promise.
- In `process` the store in memory is this client's alone, and programs enqueue between
  passes or from workers.

## Plan

Written in this order, the most important behaviour first: Instants and JobStore;
MemoryBackend with JobLifecycle; its proofs; WorkerSystem; Completer;
ClientLifecycle; Dispatcher; PostgresBackend; Migrations and its proofs; RetryPolicies,
ProcessReady and FakeClient; Options and ClientConfig; the refinement of the store in
memory; the proofs about the completer, the client, the clients at work and the store in
PostgreSQL; those about the dispatch loop; those about the pass and the client of a test;
those about the contract, the credits, and batches as loops. What is left:

1. Finer time in WorkerSystem, with the phases of heartbeat and rescuer apart.
