-------------------------- MODULE PostgresBackend --------------------------
(***************************************************************************)
(* backend/postgres: every operation is one SQL statement, its own         *)
(* transaction at READ COMMITTED.  Statements of several sessions overlap: *)
(*                                                                         *)
(*   - a statement reads the rows committed when it began (its snapshot),  *)
(*     and locks them one by one;                                          *)
(*   - the four sweeps (Fetch, MoveDue, RescueStale, Clean) lock with FOR  *)
(*     UPDATE SKIP LOCKED, in the order of ORDER BY and up to LIMIT: they  *)
(*     pass over a row another session has locked;                         *)
(*   - the fenced updates (the finalizations and Heartbeat) WAIT for such  *)
(*     a row, and lock in whatever order the join yields;                  *)
(*   - once a row is locked, the WHERE clause is evaluated again on its    *)
(*     newest version, and a row that no longer qualifies is left alone,   *)
(*     locked, until the statement ends;                                   *)
(*   - the changes become visible when the statement commits; a statement  *)
(*     that fails (a cancelled context, a lost connection, a deadlock      *)
(*     broken by the server) changes nothing but the ID sequence.          *)
(*                                                                         *)
(* Those are PostgreSQL's rules; the clauses are the code's.  What a       *)
(* fenced update or an INSERT writes plays no part in its locking, so the  *)
(* model settles it when the statement commits, and keeps only its tokens  *)
(* or its IDs before.                                                      *)
(***************************************************************************)
EXTENDS JobStore

CONSTANTS Clock, Boosts, StartTimes, RetryTimes, TTL, Retention, Cancellable,
          Limits, MaxBatch, MaxID, MaxGeneration,    \* as in MemoryBackend
          MaxClaims,                                 \* bound: claims in all
          Sessions                                   \* the connections

ASSUME ClockAssumption      == Clock \subseteq Instant
ASSUME BoostsAssumption     == Boosts \subseteq Duration
ASSUME StartTimesAssumption == StartTimes \subseteq Int
ASSUME RetryTimesAssumption == RetryTimes \subseteq Int
ASSUME LimitsAssumption     == Limits \subseteq Nat
ASSUME BoundsAssumption     == MaxBatch \in Nat /\ MaxID \in Nat

VARIABLES jobs,      \* the committed rows of goque_job
          nextID,    \* the last value of its ID sequence
          claims,    \* history: the claims that Fetch committed
          settled,   \* history: per job, the generations whose finalization
                     \* was committed, in order
          born,      \* history: the IDs whose INSERT was committed
          session    \* what each connection is doing
vars == <<jobs, nextID, claims, settled, born, session>>

Memory == INSTANCE MemoryBackend
Sequence == INSTANCE SequencesExt

JobIds == 1..MaxID

\* todo holds the rows of the snapshot still to be locked.  An element of it
\* and of taken is a record with the row's id; in a fenced update it is the
\* token that the row was joined with.
Idle == [stmt |-> [op |-> "none"], todo |-> << >>, locked |-> {}, taken |-> {}]

Init == /\ jobs = EmptyStore
        /\ nextID = 0
        /\ claims = {}
        /\ settled = [i \in JobIds |-> << >>]
        /\ born = {}
        /\ session = [s \in Sessions |-> Idle]

-----------------------------------------------------------------------------
(* The WHERE clauses, the ORDER BY clauses and the locks.                  *)

Qualifies(stmt, row) ==
    CASE stmt.op = "fetch"       -> row.id \in Claimable(jobs, stmt.queue, stmt.now)
      [] stmt.op = "moveDue"     -> row.id \in Due(jobs, stmt.now)
      [] stmt.op = "rescueStale" -> row.id \in Stale(jobs, stmt.now, TTL)
      [] stmt.op = "clean"       -> row.id \in Expired(jobs, stmt.now, Retention)
      [] stmt.op = "fenced"      -> Live(jobs, row)

Sweeps(stmt) == stmt.op \in {"fetch", "moveDue", "rescueStale", "clean"}

\* What the statement joins with the table: every row, or its tokens.
Scanned(stmt) == IF Sweeps(stmt) THEN {[id |-> i] : i \in DOMAIN jobs}
                                 ELSE stmt.tokens

Before(stmt, r1, r2) ==
    LET a == jobs[r1.id]
        b == jobs[r2.id]
    IN  CASE stmt.op = "fetch"       -> Precedes(jobs, r1.id, r2.id)
          [] stmt.op = "moveDue"     -> a.scheduledAt < b.scheduledAt
          [] stmt.op = "rescueStale" -> a.heartbeatAt < b.heartbeatAt
          [] stmt.op = "clean"       -> a.finalizedAt < b.finalizedAt
          [] stmt.op = "fenced"      -> FALSE

ScanOrders(stmt) ==
    {o \in Sequence!SetToSeqs({r \in Scanned(stmt) : Qualifies(stmt, r)}) :
        \A m, n \in DOMAIN o : m < n => ~Before(stmt, o[n], o[m])}

Begin(s, stmt) ==
    /\ session[s] = Idle
    /\ \E o \in ScanOrders(stmt) :
          session' = [session EXCEPT ![s].stmt = stmt, ![s].todo = o]
    /\ UNCHANGED <<jobs, nextID, claims, settled, born>>

\* Mutant: row locks keep nobody out.
NobodyElse(s, i) == FALSE

LockedElsewhere(s, i) == \E t \in Sessions \ {s} : i \in session[t].locked

\* Mutant: the row is taken for what the snapshot showed.
TrustSnapshot(stmt, row) == row.id \in DOMAIN jobs

Recheck(stmt, row) == Qualifies(stmt, row)

LimitReached(s) == LET stmt == session[s].stmt
                   IN  Sweeps(stmt) /\ Cardinality(session[s].taken) = stmt.limit

\* Mutant: the fenced updates pass over locked rows as well.
SkipAnyLocked(s) ==
    /\ session[s].todo # << >> /\ ~LimitReached(s)
    /\ LockedElsewhere(s, Head(session[s].todo).id)
    /\ session' = [session EXCEPT ![s].todo = Tail(@)]
    /\ UNCHANGED <<jobs, nextID, claims, settled, born>>

SkipLocked(s) ==
    /\ Sweeps(session[s].stmt)
    /\ session[s].todo # << >> /\ ~LimitReached(s)
    /\ LockedElsewhere(s, Head(session[s].todo).id)
    /\ session' = [session EXCEPT ![s].todo = Tail(@)]
    /\ UNCHANGED <<jobs, nextID, claims, settled, born>>

\* A row deleted since the snapshot is passed over.
LockNext(s) ==
    /\ session[s].todo # << >> /\ ~LimitReached(s)
    /\ LET row  == Head(session[s].todo)
           stmt == session[s].stmt
       IN  /\ ~LockedElsewhere(s, row.id)
           /\ session' = [session EXCEPT
                 ![s].todo   = Tail(@),
                 ![s].locked = @ \union ({row.id} \intersect DOMAIN jobs),
                 ![s].taken  = @ \union (IF Recheck(stmt, row) THEN {row} ELSE {})]
    /\ UNCHANGED <<jobs, nextID, claims, settled, born>>

Abort(s) ==
    /\ session[s] # Idle
    /\ session' = [session EXCEPT ![s] = Idle]
    /\ UNCHANGED <<jobs, nextID, claims, settled, born>>

-----------------------------------------------------------------------------
(* What the statements write to the rows they took.                        *)

Commits(s, op) ==
    /\ session[s].stmt.op = op
    /\ session[s].todo = << >> \/ LimitReached(s)
    /\ session' = [session EXCEPT ![s] = Idle]

TakenIds(s) == {r.id : r \in session[s].taken}

\* The bounds MaxGeneration and MaxClaims keep jobs from being claimed.
Fetch(s) ==
    /\ Commits(s, "fetch")
    /\ Cardinality(claims) + Cardinality(TakenIds(s)) <= MaxClaims
    /\ \A i \in TakenIds(s) : jobs[i].generation < MaxGeneration
    /\ jobs' = Claim(jobs, TakenIds(s), session[s].stmt.now)
    /\ claims' = claims \union {ClaimOf(jobs', i) : i \in TakenIds(s)}
    /\ UNCHANGED <<nextID, settled, born>>

MoveDue(s) ==
    /\ Commits(s, "moveDue")
    /\ jobs' = MakeAvailable(jobs, TakenIds(s))
    /\ UNCHANGED <<nextID, claims, settled, born>>

RescueStale(s) ==
    /\ Commits(s, "rescueStale")
    /\ jobs' = Rescue(jobs, TakenIds(s), session[s].stmt.now)
    /\ UNCHANGED <<nextID, claims, settled, born>>

Clean(s) ==
    /\ Commits(s, "clean")
    /\ jobs' = Delete(jobs, TakenIds(s))
    /\ UNCHANGED <<nextID, claims, settled, born>>

\* SET of a finalization: entries(t) is what the caller sent with token t.
Finalization(s, entries(_), Apply(_, _)) ==
    LET token(i) == CHOOSE t \in session[s].taken : t.id = i
    IN  /\ Commits(s, "fenced")
        /\ jobs' = [i \in DOMAIN jobs |->
                       IF i \in TakenIds(s) THEN Apply(jobs[i], entries(token(i)))
                                            ELSE jobs[i]]
        /\ settled' = [i \in JobIds |->
                       IF i \in TakenIds(s) THEN Append(settled[i], token(i).generation)
                                            ELSE settled[i]]
        /\ UNCHANGED <<nextID, claims, born>>

Plain(t)   == Memory!Entry(t, NoTime, FALSE)

Complete(s, now) ==
    Finalization(s, Plain, LAMBDA row, e : CompleteRow(row, e, now))

Kill(s, now) ==
    Finalization(s, Plain, LAMBDA row, e : KillRow(row, e, now))

\* reasons are the tokens that come with a reason.
Cancel(s, reasons, now) ==
    Finalization(s, LAMBDA t : Memory!Entry(t, NoTime, t \in reasons),
                 LAMBDA row, e : CancelRow(row, e, now))

Rescheduled(s, at) == [t \in session[s].stmt.tokens |-> Memory!Entry(t, at[t], FALSE)]

\* One unstorable instant and the batch is refused before it begins.
Retry(s, at) ==
    /\ AllStorable(Rescheduled(s, at))
    /\ Finalization(s, LAMBDA t : Rescheduled(s, at)[t], RetryRow)

Snooze(s, at) ==
    /\ AllStorable(Rescheduled(s, at))
    /\ Finalization(s, LAMBDA t : [Rescheduled(s, at)[t] EXCEPT !.snoozes = @ + 1],
                    SnoozeRow)

Heartbeat(s, now) ==
    /\ Commits(s, "fenced")
    /\ jobs' = [i \in DOMAIN jobs |->
                   IF i \in TakenIds(s) THEN [jobs[i] EXCEPT !.heartbeatAt = now]
                                        ELSE jobs[i]]
    /\ UNCHANGED <<nextID, claims, settled, born>>

-----------------------------------------------------------------------------
(* Enqueue: the sequence hands out IDs one by one, to whoever asks, and is *)
(* not rolled back; the rows appear together.                              *)

NextVal(s) ==
    /\ session[s].stmt.op \in {"none", "enqueue"}
    /\ nextID < MaxID
    /\ Cardinality(session[s].taken) < MaxBatch
    /\ nextID' = nextID + 1
    /\ session' = [session EXCEPT ![s].stmt  = [op |-> "enqueue"],
                                  ![s].taken = @ \union {[id |-> nextID']}]
    /\ UNCHANGED <<jobs, claims, settled, born>>

Enqueue(s, reqs, now) ==
    LET ids     == TakenIds(s)
        rank(i) == Cardinality({j \in ids : j <= i})
    IN  /\ Commits(s, "enqueue")
        /\ Len(reqs) = Cardinality(ids)
        /\ Accepted(reqs, now)
        /\ jobs' = [i \in DOMAIN jobs \union ids |->
                       IF i \in ids THEN NewRow(reqs[rank(i)], now) ELSE jobs[i]]
        /\ born' = born \union ids
        /\ UNCHANGED <<nextID, claims, settled>>

-----------------------------------------------------------------------------

\* A Limit of zero or less and an empty batch cause no statement.
BeginSweep(s, now) ==
    \E limit \in Limits :
        /\ limit > 0
        /\ \/ \E q \in Queues : Begin(s, [op |-> "fetch", queue |-> q, now |-> now,
                                          limit |-> limit])
           \/ \E op \in {"moveDue", "rescueStale", "clean"} :
                 Begin(s, [op |-> op, now |-> now, limit |-> limit])

BeginFenced(s) ==
    \E tokens \in SUBSET claims :
        /\ tokens # {} /\ Cardinality(tokens) <= MaxBatch
        /\ Begin(s, [op |-> "fenced", tokens |-> tokens])

CommitFenced(s) ==
    /\ session[s].stmt.op = "fenced"
    /\ \/ \E now \in Clock :
             \/ Complete(s, now)
             \/ Kill(s, now)
             \/ \E reasons \in SUBSET session[s].stmt.tokens : Cancel(s, reasons, now)
             \/ Heartbeat(s, now)
       \/ \E at \in [session[s].stmt.tokens -> RetryTimes] : Retry(s, at) \/ Snooze(s, at)

Next == \E s \in Sessions :
    \/ \E now \in Clock : BeginSweep(s, now)
    \/ BeginFenced(s)
    \/ SkipLocked(s)
    \/ LockNext(s)
    \/ Abort(s)
    \/ Fetch(s) \/ MoveDue(s) \/ RescueStale(s) \/ Clean(s)
    \/ CommitFenced(s)
    \/ NextVal(s)
    \/ \E now \in Clock, reqs \in Memory!BatchesOf(Memory!Requests) : Enqueue(s, reqs, now)

Spec == Init /\ [][Next]_vars

-----------------------------------------------------------------------------

\* The rows are well-formed, no row is locked by two sessions, and a statement
\* takes only rows it has locked, or IDs nobody else has.
TypeOK ==
    /\ Memory!TypeOK
    /\ DOMAIN jobs \subseteq born /\ born \subseteq 1..nextID
    /\ \A s \in Sessions :
          /\ session[s].stmt.op \in {"none", "enqueue", "fenced", "fetch", "moveDue",
                                     "rescueStale", "clean"}
          /\ session[s].locked \subseteq DOMAIN jobs
          /\ TakenIds(s) \subseteq IF session[s].stmt.op = "enqueue"
                                   THEN 1..nextID \ born ELSE session[s].locked
    /\ \A s, t \in Sessions : s # t =>
          session[s].locked \intersect session[t].locked = {}

\* What a statement reports is true when it commits, whatever committed since
\* its snapshot.  A row it took still qualifies, so that no two sweeps count
\* the same claim, promotion, rescue or deletion (backend.go:427).  A token
\* that is about to be reported stale has lost its job: the completer drops
\* its outcome as recorded, and a heartbeat does not renew it (completer.go:222,
\* finalize.go:178-189).
RepliesAreTrue ==
    \A s \in Sessions :
        /\ session[s].stmt.op # "enqueue" =>
              \A r \in session[s].taken : Qualifies(session[s].stmt, r)
        /\ session[s].stmt.op = "fenced" /\ session[s].todo = << >> =>
              \A t \in session[s].stmt.tokens \ session[s].taken : ~Live(jobs, t)

\* A running attempt is taken from its holder only by an outcome of that same
\* generation, or by a rescuer to whom its last committed heartbeat is older
\* than the TTL: not by a rescuer or a fetcher that saw the row before the
\* heartbeat, the rescue or the claim of another session was committed
\* (fetch.go:13-28, maintain.go:28-42).
HolderLosesOnlyToSilence ==
    [][\A i \in DOMAIN jobs : jobs[i].state = Running =>
          \/ /\ i \in DOMAIN jobs'
             /\ jobs'[i].state = Running
             /\ jobs'[i].generation = jobs[i].generation
          \/ settled'[i] = Append(settled[i], jobs[i].generation)
          \/ \E now \in Clock : i \in Stale(jobs, now, TTL)]_vars

\* The life of a job starts when its row is committed.
LifeOf(i) ==
    [phase      |-> IF i \in DOMAIN jobs THEN Memory!PhaseOf(jobs[i].state)
                    ELSE IF i \in born THEN "gone" ELSE "unborn",
     generation |-> Memory!Youngest(i),
     outcomes   |-> settled[i]]

Contract == INSTANCE JobLifecycle WITH Ids <- JobIds,
                                       life <- [i \in JobIds |-> LifeOf(i)]

\* Overlapping statements keep the contract that the memory backend keeps
\* under its mutex: claims, outcomes, rescues and deletions of a job come one
\* after the other, each from the state the one before left (backend.go:337-357).
ImplementsContract == Contract!Spec
=============================================================================
