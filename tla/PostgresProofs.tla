--------------------------- MODULE PostgresProofs ---------------------------
(***************************************************************************)
(* Proofs about PostgresBackend, for any number of sessions, jobs and      *)
(* claims.                                                                 *)
(*                                                                         *)
(* The argument.  What a statement took is locked, locks are disjoint, and *)
(* a commit changes only what its statement took: so what a statement has  *)
(* seen of its rows stays true until it commits itself (Reliable).  What   *)
(* a commit does to one job is one of six moves (Moved), from which follow *)
(* the rest of the invariant, and that the contract is kept.               *)
(***************************************************************************)
EXTENDS PostgresBackend, FiniteSetTheorems, SequenceTheorems, TLAPS

USE DEF Scheduled, Available, Running, Retryable, Completed, Cancelled, Dead,
        TerminalStates

Statements == {"none", "enqueue", "fenced", "fetch", "moveDue", "rescueStale", "clean"}

\* A row that runs has had an attempt.
RowGood(row) == /\ row \in JobRow
                /\ row.attempt >= IF row.state = Running THEN 1 ELSE 0

Rows == /\ jobs = [i \in DOMAIN jobs |-> jobs[i]]
        /\ nextID \in 0..MaxID
        /\ DOMAIN jobs \subseteq born /\ born \subseteq 1..nextID
        /\ \A i \in DOMAIN jobs : RowGood(jobs[i])
        /\ settled \in [JobIds -> Seq(Nat)]

\* No claim is ahead of its row, as long as there is one, and a row's generation
\* was handed out, if it is any.
ClaimsOK ==
    /\ claims \subseteq Memory!Claims /\ IsFiniteSet(claims)
    /\ \A c \in claims : /\ c.id \in born
                         /\ c.id \in DOMAIN jobs => c.generation <= jobs[c.id].generation
    /\ \A i \in DOMAIN jobs : jobs[i].generation \in Memory!Generations(i)

\* What the statement of a session, x, can rely on.
Reliable(x) ==
    /\ x = [stmt |-> x.stmt, todo |-> x.todo, locked |-> x.locked, taken |-> x.taken]
    /\ x.stmt.op \in Statements
    /\ x.stmt.op = "none" => x = Idle
    /\ x.locked \subseteq DOMAIN jobs
    /\ x.stmt.op = "enqueue" => /\ {r.id : r \in x.taken} \subseteq (1..nextID) \ born
                                /\ x.todo = << >> /\ x.locked = {}
    /\ x.stmt.op # "enqueue" => /\ {r.id : r \in x.taken} \subseteq x.locked
                                /\ \A r \in x.taken : Qualifies(x.stmt, r)
    /\ Sweeps(x.stmt) => x.stmt.now \in Clock /\ x.todo \in Seq([id : JobIds])
    /\ x.stmt.op = "fenced" =>
          /\ x.stmt.tokens \subseteq claims /\ x.taken \subseteq x.stmt.tokens
          /\ x.todo \in Seq(x.stmt.tokens)
          /\ \A t \in x.stmt.tokens \ x.taken :
                ~Live(jobs, t) \/ \E n \in DOMAIN x.todo : x.todo[n] = t

SessionsOK ==
    /\ session = [s \in Sessions |-> session[s]]
    /\ \A s \in Sessions : Reliable(session[s])
    /\ \A s, t \in Sessions : s # t =>
          /\ session[s].locked \intersect session[t].locked = {}
          /\ session[s].stmt.op = "enqueue" /\ session[t].stmt.op = "enqueue" =>
                TakenIds(s) \intersect TakenIds(t) = {}

PInv == Rows /\ ClaimsOK /\ SessionsOK

-----------------------------------------------------------------------------
(* Rows.                                                                   *)

\* The overflow tests of time.go are exact.
LEMMA Subtraction ==
    ASSUME NEW t \in Instant, NEW d \in Duration
    PROVE  /\ SubDurationClamped(t, d) \in Instant
           /\ ~SubWraps(t, d) => SubDuration(t, d) \in Instant
  BY InstantRange DEF Instant, Duration, SubDurationClamped, SubWraps, SubDuration, Clamp,
                      Wrap, Span

\* The row of an accepted request.
LEMMA NewRowGood ==
    ASSUME NEW now \in Clock, NEW req \in Memory!Requests,
           SubStorable(StartAt(req, now), req.boost)
    PROVE  /\ RowGood(NewRow(req, now)) /\ NewRow(req, now).generation = 0
           /\ NewRow(req, now).state \in {Scheduled, Available}
<1> DEFINE at == StartAt(req, now)
<1>1. /\ at \in Instant /\ req.boost \in Duration /\ req.queue \in Queues
      /\ SubDuration(at, req.boost) \in Instant
  BY Subtraction, BoostsAssumption DEF SubStorable, ValidateInstant, Memory!Requests
<1>2. << >> \in Seq(Int)
  OBVIOUS
<1> HIDE DEF at
<1>3. NewRow(req, now) =
        [queue |-> req.queue, boost |-> req.boost,
         state |-> IF at > now THEN Scheduled ELSE Available,
         scheduledAt |-> at, priorityAt |-> SubDuration(at, req.boost), attempt |-> 0,
         generation |-> 0, heartbeatAt |-> NoTime, finalizedAt |-> NoTime,
         cancelRequested |-> FALSE, snoozes |-> 0, errors |-> << >>]
  BY DEF NewRow, at
<1> QED BY <1>1, <1>2, <1>3 DEF RowGood, JobRow, States

\* A claim.
LEMMA ClaimRowGood ==
    ASSUME NEW row, RowGood(row), row.state = Available, NEW now \in Clock
    PROVE  /\ RowGood(ClaimRow(row, now)) /\ ClaimRow(row, now).state = Running
           /\ ClaimRow(row, now).generation = row.generation + 1
<1> DEFINE new == ClaimRow(row, now)
<1>1. row \in JobRow /\ row.attempt \in Int /\ row.generation \in Nat /\ now \in Instant
      /\ row.attempt >= 0
  BY ClockAssumption DEF RowGood, JobRow
<1>2. new \in JobRow
  <2>1. \A a \in Int, g \in Nat :
          [row EXCEPT !.state = Running, !.attempt = a, !.generation = g,
                      !.heartbeatAt = now] \in JobRow
    BY <1>1 DEF JobRow, States
  <2>2. row.attempt + 1 \in Int /\ row.generation + 1 \in Nat
    BY <1>1
  <2> QED BY <2>1, <2>2 DEF ClaimRow
<1>3. /\ new.state = Running /\ new.attempt = row.attempt + 1
      /\ new.generation = row.generation + 1
  BY <1>1 DEF JobRow, ClaimRow
<1> HIDE DEF new
<1> QED BY <1>1, <1>2, <1>3 DEF RowGood, new

\* An entry quotes the claim it was made of.
Entries == [id : JobIds, generation : Nat, attempt : Int, snoozes : Nat,
            at : Int, message : BOOLEAN]

\* The finalizations that end a job.
LEMMA FinalRowGood ==
    ASSUME NEW row, RowGood(row), row.state = Running, NEW now \in Clock, NEW e \in Entries
    PROVE  \A new \in {CompleteRow(row, e, now), KillRow(row, e, now), CancelRow(row, e, now)} :
              RowGood(new) /\ new.state # Running /\ new.generation = row.generation
<1>1. /\ row \in JobRow /\ row.attempt \in Int /\ row.errors \in Seq(Int) /\ now \in Instant
      /\ row.attempt >= 1 /\ e.snoozes \in Nat /\ e.attempt \in Int
  BY ClockAssumption DEF RowGood, JobRow, Entries
<1>2. Append(row.errors, row.attempt) \in Seq(Int) /\ Append(row.errors, e.attempt) \in Seq(Int)
  BY <1>1
<1>3. ASSUME NEW new, new = CompleteRow(row, e, now)
      PROVE  RowGood(new) /\ new.state # Running /\ new.generation = row.generation
  <2>1. new \in JobRow
    BY <1>1, <1>3 DEF CompleteRow, JobRow, States
  <2>2. new.state = Completed /\ new.generation = row.generation /\ new.attempt = row.attempt
    BY <1>1, <1>3 DEF CompleteRow, JobRow
  <2> QED BY <1>1, <2>1, <2>2 DEF RowGood
<1>4. ASSUME NEW new, new = KillRow(row, e, now)
      PROVE  RowGood(new) /\ new.state # Running /\ new.generation = row.generation
  <2>1. new \in JobRow
    BY <1>1, <1>2, <1>4 DEF KillRow, JobRow, States
  <2>2. new.state = Dead /\ new.generation = row.generation /\ new.attempt = row.attempt
    BY <1>1, <1>4 DEF KillRow, JobRow
  <2> QED BY <1>1, <2>1, <2>2 DEF RowGood
<1>5. ASSUME NEW new, new = CancelRow(row, e, now)
      PROVE  RowGood(new) /\ new.state # Running /\ new.generation = row.generation
  <2>0. PICK es \in Seq(Int) :
           new = [row EXCEPT !.state = Cancelled, !.finalizedAt = now, !.errors = es,
                             !.snoozes = e.snoozes]
    BY <1>1, <1>2, <1>5 DEF CancelRow, JobRow
  <2>1. new \in JobRow
    BY <1>1, <2>0 DEF JobRow, States
  <2>2. new.state = Cancelled /\ new.generation = row.generation /\ new.attempt = row.attempt
    BY <1>1, <2>0 DEF JobRow
  <2> QED BY <1>1, <2>1, <2>2 DEF RowGood
<1> QED BY <1>3, <1>4, <1>5

\* The finalizations that reschedule it, to an instant that is storable.
LEMMA LaterRowGood ==
    ASSUME NEW row, RowGood(row), row.state = Running, NEW e \in Entries, ValidateInstant(e.at)
    PROVE  \A new \in {RetryRow(row, e), SnoozeRow(row, e)} :
              RowGood(new) /\ new.state # Running /\ new.generation = row.generation
<1>1. /\ row \in JobRow /\ row.attempt \in Int /\ row.errors \in Seq(Int)
      /\ row.boost \in Duration /\ row.attempt >= 1 /\ e.snoozes \in Nat /\ e.attempt \in Int
  BY DEF RowGood, JobRow, Entries
<1>2. Append(row.errors, row.attempt) \in Seq(Int) /\ Append(row.errors, e.attempt) \in Seq(Int)
  BY <1>1
<1>3. ASSUME NEW new, new = RetryRow(row, e)
      PROVE  RowGood(new) /\ new.state # Running /\ new.generation = row.generation
  <2>0. e.at \in Instant /\ SubDurationClamped(e.at, row.boost) \in Instant
    BY <1>1, <1>3, Subtraction DEF ValidateInstant
  <2>1. new \in JobRow
    BY <1>1, <1>2, <1>3, <2>0 DEF RetryRow, JobRow, States
  <2>2. new.state = Retryable /\ new.generation = row.generation /\ new.attempt = row.attempt
    BY <1>1, <1>3 DEF RetryRow, JobRow
  <2> QED BY <1>1, <2>1, <2>2 DEF RowGood
<1>4. ASSUME NEW new, new = SnoozeRow(row, e)
      PROVE  RowGood(new) /\ new.state # Running /\ new.generation = row.generation
  <2>0. e.at \in Instant /\ SubDurationClamped(e.at, row.boost) \in Instant
        /\ row.attempt - 1 \in Int /\ row.attempt - 1 >= 0
    BY <1>1, <1>4, Subtraction DEF ValidateInstant
  <2>1. new = [row EXCEPT !.state = Retryable, !.attempt = row.attempt - 1,
                          !.scheduledAt = e.at,
                          !.priorityAt = SubDurationClamped(e.at, row.boost),
                          !.finalizedAt = NoTime, !.snoozes = e.snoozes]
    BY <1>1, <1>4 DEF SnoozeRow, JobRow
  <2>2. new \in JobRow
    BY <1>1, <2>0, <2>1 DEF JobRow, States
  <2>3. new.state = Retryable /\ new.generation = row.generation
        /\ new.attempt = row.attempt - 1
    BY <1>1, <2>1 DEF JobRow
  <2> QED BY <1>1, <2>0, <2>2, <2>3 DEF RowGood
<1> QED BY <1>3, <1>4

\* What the mover, the rescuer and a heartbeat write.
LEMMA SweptRowGood ==
    ASSUME NEW row, RowGood(row), NEW now \in Clock, NEW new
    PROVE  /\ new = [row EXCEPT !.state = Available] /\ row.state # Running
                 => RowGood(new) /\ new.state = Available /\ new.generation = row.generation
           /\ new = RescueRow(row, now)
                 => RowGood(new) /\ new.state = Retryable /\ new.generation = row.generation
           /\ new = [row EXCEPT !.heartbeatAt = now]
                 => RowGood(new) /\ new.state = row.state /\ new.generation = row.generation
<1>1. /\ row \in JobRow /\ row.attempt \in Int /\ row.boost \in Duration /\ now \in Instant
      /\ row.attempt >= 0 /\ SubDurationClamped(now, row.boost) \in Instant
  BY ClockAssumption, Subtraction DEF RowGood, JobRow
<1>2. ASSUME new = [row EXCEPT !.state = Available], row.state # Running
      PROVE  RowGood(new) /\ new.state = Available /\ new.generation = row.generation
  <2>1. new \in JobRow
    BY <1>1, <1>2 DEF JobRow, States
  <2>2. new.state = Available /\ new.generation = row.generation /\ new.attempt = row.attempt
    BY <1>1, <1>2 DEF JobRow
  <2> QED BY <1>1, <2>1, <2>2 DEF RowGood
<1>3. ASSUME new = RescueRow(row, now)
      PROVE  RowGood(new) /\ new.state = Retryable /\ new.generation = row.generation
  <2>1. new \in JobRow
    BY <1>1, <1>3 DEF RescueRow, JobRow, States
  <2>2. new.state = Retryable /\ new.generation = row.generation /\ new.attempt = row.attempt
    BY <1>1, <1>3 DEF RescueRow, JobRow
  <2> QED BY <1>1, <2>1, <2>2 DEF RowGood
<1>4. ASSUME new = [row EXCEPT !.heartbeatAt = now]
      PROVE  RowGood(new) /\ new.state = row.state /\ new.generation = row.generation
  <2>1. new \in JobRow
    BY <1>1, <1>4 DEF JobRow
  <2>2. new.state = row.state /\ new.generation = row.generation /\ new.attempt = row.attempt
    BY <1>1, <1>4 DEF JobRow
  <2> QED BY <1>1, <2>1, <2>2 DEF RowGood
<1> QED BY <1>2, <1>3, <1>4

-----------------------------------------------------------------------------
(* Before the commit.                                                      *)

tables == <<jobs, nextID, claims, settled, born>>

\* The instance counts as the module does.
LEMMA SameCardinality == \A S : Sequence!Cardinality(S) = Cardinality(S)
  BY DEF Sequence!Cardinality, Cardinality

\* A scan order of finitely many rows visits each of them.
LEMMA ScanCovers ==
    ASSUME NEW S, IsFiniteSet(S), NEW o \in Sequence!SetToSeqs(S)
    PROVE  o \in Seq(S) /\ \A t \in S : \E n \in DOMAIN o : o[n] = t
<1>1. /\ Cardinality(S) \in Nat /\ IsFiniteSet(1..Cardinality(S))
      /\ Cardinality(1..Cardinality(S)) = Cardinality(S)
  BY FS_CardinalityType, FS_Interval
<1>2. Sequence!SetToSeqs(S) =
        {f \in [1..Cardinality(S) -> S] :
            \A i, j \in 1..Cardinality(S) : i # j => f[i] # f[j]}
  BY SameCardinality DEF Sequence!SetToSeqs
<1>3. o \in [1..Cardinality(S) -> S]
  BY <1>2
<1>4. o \in Injection(1..Cardinality(S), S)
  BY <1>2 DEF Injection, IsInjective
<1>5. o \in Surjection(1..Cardinality(S), S)
  BY <1>1, <1>4, FS_Injection
<1>6. o \in Seq(S)
  BY <1>1, <1>3
<1> QED BY <1>3, <1>5, <1>6 DEF Surjection

\* Sequences of a set are sequences of any larger one.
LEMMA LargerSeq ==
    ASSUME NEW S, NEW T, S \subseteq T, NEW o \in Seq(S)
    PROVE  o \in Seq(T)
  OBVIOUS

\* The head of a sequence, and the rest of it.
LEMMA HeadAndTail ==
    ASSUME NEW T, NEW o \in Seq(T), o # << >>
    PROVE  /\ Tail(o) \in Seq(T) /\ Head(o) \in T /\ Head(o) = o[1]
           /\ \A n \in DOMAIN o : n # 1 => n - 1 \in DOMAIN Tail(o) /\ Tail(o)[n - 1] = o[n]
  OBVIOUS

\* The fields of a session, one by one.
LEMMA SessionFields ==
    ASSUME NEW y, y = [stmt |-> y.stmt, todo |-> y.todo, locked |-> y.locked, taken |-> y.taken],
           NEW a, NEW b, NEW c, NEW z
    PROVE  /\ z = [y EXCEPT !.stmt = a, !.todo = b]
                 => z = [stmt |-> a, todo |-> b, locked |-> y.locked, taken |-> y.taken]
           /\ z = [y EXCEPT !.stmt = a, !.taken = b]
                 => z = [stmt |-> a, todo |-> y.todo, locked |-> y.locked, taken |-> b]
           /\ z = [y EXCEPT !.todo = a, !.locked = b, !.taken = c]
                 => z = [stmt |-> y.stmt, todo |-> a, locked |-> b, taken |-> c]
<1> DEFINE st == y.stmt  to == y.todo  lo == y.locked  ta == y.taken
<1>1. y = [stmt |-> st, todo |-> to, locked |-> lo, taken |-> ta]
  OBVIOUS
<1> HIDE DEF st, to, lo, ta
<1>2. ASSUME z = [y EXCEPT !.stmt = a, !.todo = b]
      PROVE  z = [stmt |-> a, todo |-> b, locked |-> lo, taken |-> ta]
  BY <1>1, <1>2
<1>3. ASSUME z = [y EXCEPT !.stmt = a, !.taken = b]
      PROVE  z = [stmt |-> a, todo |-> to, locked |-> lo, taken |-> b]
  BY <1>1, <1>3
<1>4. ASSUME z = [y EXCEPT !.todo = a, !.locked = b, !.taken = c]
      PROVE  z = [stmt |-> st, todo |-> a, locked |-> b, taken |-> c]
  BY <1>1, <1>4
<1> QED BY <1>2, <1>3, <1>4 DEF st, to, lo, ta

\* A session that changes while the tables do not.
LEMMA SessionStep ==
    ASSUME PInv, UNCHANGED tables, NEW s \in Sessions, NEW x,
           session' = [session EXCEPT ![s] = x], Reliable(x),
           x.stmt.op # "enqueue",
           \A t \in Sessions \ {s} : x.locked \intersect session[t].locked = {}
    PROVE  PInv'
<1>1. /\ session' = [t \in Sessions |-> session'[t]] /\ session'[s] = x
      /\ \A t \in Sessions \ {s} : session'[t] = session[t]
  BY DEF PInv, SessionsOK
<1>2. \A y : Reliable(y) <=> Reliable(y)'
  BY DEF tables, Reliable, Qualifies, Live, Claimable, Due, Stale, Expired
<1>3. SessionsOK'
  BY <1>1, <1>2 DEF PInv, SessionsOK, TakenIds
<1> QED BY <1>3 DEF PInv, Rows, ClaimsOK, tables, Memory!Generations

\* A row that qualifies is there.
LEMMA QualifiedIsThere ==
    ASSUME NEW stmt, Sweeps(stmt) \/ stmt.op = "fenced", NEW row, Qualifies(stmt, row)
    PROVE  row.id \in DOMAIN jobs
  BY DEF Sweeps, Qualifies, Claimable, Due, Stale, Expired, Live

\* A statement scans finitely many rows.
LEMMA ScanIsFinite ==
    ASSUME PInv, NEW stmt, Sweeps(stmt) \/ (stmt.op = "fenced" /\ stmt.tokens \subseteq claims)
    PROVE  IsFiniteSet(Scanned(stmt))
<1>1. CASE Sweeps(stmt)
  <2>1. IsFiniteSet(DOMAIN jobs)
    <3>1. DOMAIN jobs \subseteq 1..nextID /\ nextID \in Int
      BY BoundsAssumption DEF PInv, Rows
    <3>2. IsFiniteSet(1..nextID)
      BY <3>1, FS_Interval
    <3> QED BY <3>1, <3>2, FS_Subset
  <2> DEFINE f == [i \in DOMAIN jobs |-> [id |-> i]]
  <2>2. f \in Surjection(DOMAIN jobs, Scanned(stmt))
    BY <1>1 DEF Scanned, Surjection
  <2> QED BY <2>1, <2>2, FS_Surjection
<1>2. CASE ~Sweeps(stmt)
  BY <1>2, FS_Subset DEF Scanned, PInv, ClaimsOK
<1> QED BY <1>1, <1>2

\* A statement begins.
LEMMA BeginKeeps ==
    ASSUME PInv, NEW s \in Sessions, NEW stmt, Begin(s, stmt), stmt.op \in Statements,
           \/ Sweeps(stmt) /\ stmt.now \in Clock
           \/ stmt.op = "fenced" /\ stmt.tokens \subseteq claims
    PROVE  PInv'
<1>0. IsFiniteSet(Scanned(stmt))
  BY ScanIsFinite
<1> DEFINE S == {r \in Scanned(stmt) : Qualifies(stmt, r)}
<1>1. PICK o \in Sequence!SetToSeqs(S) :
         session' = [session EXCEPT ![s].stmt = stmt, ![s].todo = o]
  BY DEF Begin, ScanOrders
<1>2. IsFiniteSet(S)
  BY <1>0, FS_Subset
<1>3. o \in Seq(S) /\ \A t \in S : \E n \in DOMAIN o : o[n] = t
  <2> HIDE DEF S
  <2> QED BY <1>2, ScanCovers
<1> DEFINE x == [stmt |-> stmt, todo |-> o, locked |-> {}, taken |-> {}]
<1>4. session' = [session EXCEPT ![s] = x]
  <2>1. session = [t \in Sessions |-> session[t]] /\ session[s] = Idle
    BY DEF Begin, PInv, SessionsOK
  <2>2. ASSUME NEW z, z = [session[s] EXCEPT !.stmt = stmt, !.todo = o] PROVE z = x
    <3>1. session[s] = [stmt |-> session[s].stmt, todo |-> session[s].todo,
                        locked |-> session[s].locked, taken |-> session[s].taken]
          /\ session[s].locked = {} /\ session[s].taken = {}
      BY <2>1 DEF Idle
    <3> QED BY <2>2, <3>1, SessionFields
  <2>3. session' = [session EXCEPT ![s] = [session[s] EXCEPT !.stmt = stmt, !.todo = o]]
    BY <1>1, <2>1
  <2> QED BY <2>2, <2>3
<1>5. stmt.op # "none" /\ stmt.op # "enqueue" /\ (stmt.op = "fenced" => ~Sweeps(stmt))
  BY DEF Sweeps
<1>6. ASSUME Sweeps(stmt) PROVE o \in Seq([id : JobIds])
  <2>1. S \subseteq [id : JobIds]
    BY <1>6, BoundsAssumption DEF Scanned, PInv, Rows, JobIds
  <2> HIDE DEF S
  <2>2. o \in Seq(S)
    BY <1>3
  <2> QED BY <2>1, <2>2, LargerSeq
<1>7. ASSUME stmt.op = "fenced"
      PROVE  /\ o \in Seq(stmt.tokens)
             /\ \A t \in stmt.tokens : ~Live(jobs, t) \/ \E n \in DOMAIN o : o[n] = t
  <2>1. S = {r \in stmt.tokens : Live(jobs, r)}
    BY <1>5, <1>7 DEF Scanned, Qualifies
  <2> HIDE DEF S
  <2>2. o \in Seq(stmt.tokens)
    <3>1. S \subseteq stmt.tokens /\ o \in Seq(S)
      BY <1>3, <2>1
    <3> QED BY <3>1
  <2> QED BY <1>3, <2>1, <2>2
<1>8. Reliable(x)
  BY <1>5, <1>6, <1>7 DEF Reliable
<1>9. UNCHANGED tables
  BY DEF Begin, tables
<1> HIDE DEF x, S
<1>10. x.stmt.op # "enqueue" /\ x.locked = {}
  BY <1>5 DEF x
<1> QED BY <1>4, <1>8, <1>9, <1>10, SessionStep

\* A locked row is passed over.
LEMMA SkipLockedKeeps ==
    ASSUME PInv, NEW s \in Sessions, SkipLocked(s)
    PROVE  PInv'
<1> DEFINE y == session[s]
           x == [y EXCEPT !.todo = Tail(@)]
<1>1. /\ Reliable(y) /\ Sweeps(y.stmt) /\ y.todo # << >>
      /\ \A t \in Sessions \ {s} : y.locked \intersect session[t].locked = {}
  BY DEF SkipLocked, PInv, SessionsOK
<1>2. session' = [session EXCEPT ![s] = x] /\ UNCHANGED tables
  BY DEF SkipLocked, tables, PInv, SessionsOK
<1>3. x = [stmt |-> y.stmt, todo |-> Tail(y.todo), locked |-> y.locked, taken |-> y.taken]
  BY <1>1 DEF Reliable
<1>4. y.stmt.op # "enqueue" /\ y.stmt.op # "none" /\ y.stmt.op # "fenced"
  BY <1>1 DEF Sweeps
<1>5. Tail(y.todo) \in Seq([id : JobIds])
  BY <1>1 DEF Reliable
<1> HIDE DEF x, y
<1>6. Reliable(x)
  BY <1>1, <1>3, <1>4, <1>5 DEF Reliable
<1> QED BY <1>1, <1>2, <1>3, <1>4, <1>6, SessionStep

\* The next row is locked, and taken if it still qualifies.
LEMMA LockNextKeeps ==
    ASSUME PInv, NEW s \in Sessions, LockNext(s)
    PROVE  PInv'
<1> DEFINE y   == session[s]
           row == Head(y.todo)
           x   == [stmt |-> y.stmt, todo |-> Tail(y.todo),
                   locked |-> y.locked \union ({row.id} \intersect DOMAIN jobs),
                   taken |-> y.taken \union (IF Recheck(y.stmt, row) THEN {row} ELSE {})]
<1>1. /\ Reliable(y) /\ y.todo # << >>
      /\ \A t \in Sessions \ {s} : y.locked \intersect session[t].locked = {}
      /\ \A t \in Sessions \ {s} : row.id \notin session[t].locked
  BY DEF LockNext, PInv, SessionsOK, LockedElsewhere
<1>2. session' = [session EXCEPT ![s] = x] /\ UNCHANGED tables
  <2>1. session = [t \in Sessions |-> session[t]] /\ UNCHANGED tables
    BY DEF LockNext, tables, PInv, SessionsOK
  <2>2. ASSUME NEW z,
               z = [y EXCEPT !.todo = Tail(@),
                             !.locked = @ \union ({row.id} \intersect DOMAIN jobs),
                             !.taken = @ \union (IF Recheck(y.stmt, row) THEN {row} ELSE {})]
        PROVE  z = x
    <3>1. y = [stmt |-> y.stmt, todo |-> y.todo, locked |-> y.locked, taken |-> y.taken]
      BY <1>1 DEF Reliable
    <3> HIDE DEF row, y
    <3> QED BY <2>2, <3>1, SessionFields
  <2>3. session' = [session EXCEPT ![s] =
                      [y EXCEPT !.todo = Tail(@),
                                !.locked = @ \union ({row.id} \intersect DOMAIN jobs),
                                !.taken = @ \union (IF Recheck(y.stmt, row) THEN {row} ELSE {})]]
    BY <2>1 DEF LockNext
  <2> QED BY <2>1, <2>2, <2>3
<1>3. y.stmt.op # "enqueue" /\ y.stmt.op # "none" /\ (Sweeps(y.stmt) \/ y.stmt.op = "fenced")
  BY <1>1 DEF Sweeps, Reliable, Idle, Statements
<1>4. Recheck(y.stmt, row) => Qualifies(y.stmt, row) /\ row.id \in DOMAIN jobs
  BY <1>3, QualifiedIsThere DEF Recheck
<1>5. ASSUME Sweeps(y.stmt) PROVE Tail(y.todo) \in Seq([id : JobIds])
  BY <1>1, <1>5 DEF Reliable
<1>6. ASSUME y.stmt.op = "fenced"
      PROVE  /\ Tail(y.todo) \in Seq(y.stmt.tokens) /\ row \in y.stmt.tokens
             /\ \A t \in y.stmt.tokens \ x.taken :
                   ~Live(jobs, t) \/ \E n \in DOMAIN Tail(y.todo) : Tail(y.todo)[n] = t
  <2>1. y.todo \in Seq(y.stmt.tokens) /\ y.todo # << >>
    BY <1>1, <1>6 DEF Reliable
  <2>2. /\ Tail(y.todo) \in Seq(y.stmt.tokens) /\ row \in y.stmt.tokens /\ row = y.todo[1]
        /\ \A n \in DOMAIN y.todo : n # 1 =>
              n - 1 \in DOMAIN Tail(y.todo) /\ Tail(y.todo)[n - 1] = y.todo[n]
    BY <2>1, HeadAndTail
  <2>3. ASSUME NEW t \in y.stmt.tokens \ x.taken, Live(jobs, t)
        PROVE  \E n \in DOMAIN Tail(y.todo) : Tail(y.todo)[n] = t
    <3>1. t \notin y.taken /\ (Recheck(y.stmt, row) => t # row)
      BY <2>3
    <3>2. PICK n \in DOMAIN y.todo : y.todo[n] = t
      BY <1>1, <1>6, <2>3, <3>1 DEF Reliable
    <3>3. t # row
      BY <1>6, <2>3, <3>1 DEF Recheck, Qualifies
    <3>4. n # 1
      BY <3>2, <3>3, <2>2
    <3>5. n - 1 \in DOMAIN Tail(y.todo) /\ Tail(y.todo)[n - 1] = t
      BY <2>2, <3>2, <3>4
    <3> QED BY <3>5
  <2> QED BY <2>2, <2>3
<1>7. /\ x.stmt = y.stmt /\ x.todo = Tail(y.todo)
      /\ x.locked = y.locked \union ({row.id} \intersect DOMAIN jobs)
      /\ x.taken = y.taken \union (IF Recheck(y.stmt, row) THEN {row} ELSE {})
      /\ x = [stmt |-> x.stmt, todo |-> x.todo, locked |-> x.locked, taken |-> x.taken]
  OBVIOUS
<1>8. y.stmt.op = "fenced" => ~Sweeps(y.stmt)
  BY DEF Sweeps
<1> HIDE DEF x, y, row
<1>9. Reliable(x)
  BY <1>1, <1>3, <1>4, <1>5, <1>6, <1>7, <1>8 DEF Reliable
<1>10. \A t \in Sessions \ {s} : x.locked \intersect session[t].locked = {}
  BY <1>1, <1>7
<1> QED BY <1>2, <1>3, <1>7, <1>9, <1>10, SessionStep

\* A statement that fails leaves no trace but the IDs it drew.
LEMMA AbortKeeps ==
    ASSUME PInv, NEW s \in Sessions, Abort(s)
    PROVE  PInv'
<1>1. Reliable(Idle) /\ Idle.stmt.op # "enqueue" /\ Idle.locked = {}
  BY DEF Reliable, Idle, Statements, Sweeps
<1> QED BY <1>1, SessionStep DEF Abort, tables

\* An ID drawn from the sequence is nobody else's.
LEMMA NextValKeeps ==
    ASSUME PInv, NEW s \in Sessions, NextVal(s)
    PROVE  PInv'
<1> DEFINE y == session[s]
           x == [stmt |-> [op |-> "enqueue"], todo |-> y.todo, locked |-> y.locked,
                 taken |-> y.taken \union {[id |-> nextID + 1]}]
<1>1. /\ UNCHANGED <<jobs, claims, settled, born>> /\ nextID' = nextID + 1
      /\ nextID \in Nat /\ nextID + 1 \in 0..MaxID /\ born \subseteq 1..nextID
  BY BoundsAssumption DEF NextVal, PInv, Rows
<1>2. Rows' /\ ClaimsOK'
  BY <1>1 DEF PInv, Rows, ClaimsOK, Memory!Generations
<1>3. /\ session' = [session EXCEPT ![s] = x]
      /\ Reliable(y) /\ y.stmt.op \in {"none", "enqueue"}
  <2>1. /\ session = [t \in Sessions |-> session[t]] /\ Reliable(y)
        /\ y.stmt.op \in {"none", "enqueue"}
    BY DEF NextVal, PInv, SessionsOK
  <2>2. ASSUME NEW z, z = [y EXCEPT !.stmt = [op |-> "enqueue"],
                                    !.taken = @ \union {[id |-> nextID + 1]}]
        PROVE  z = x
    <3>1. y = [stmt |-> y.stmt, todo |-> y.todo, locked |-> y.locked, taken |-> y.taken]
      BY <2>1 DEF Reliable
    <3> HIDE DEF y
    <3> QED BY <2>2, <3>1, SessionFields
  <2>3. session' = [session EXCEPT ![s] =
                      [y EXCEPT !.stmt = [op |-> "enqueue"],
                                !.taken = @ \union {[id |-> nextID + 1]}]]
    BY <1>1, <2>1 DEF NextVal
  <2> QED BY <2>1, <2>2, <2>3
<1>4. /\ y.todo = << >> /\ y.locked = {} /\ {r.id : r \in y.taken} \subseteq (1..nextID) \ born
  BY <1>3 DEF Reliable, Idle
<1>5. /\ \A t \in Sessions \ {s} : session'[t] = session[t]
      /\ session'[s] = x /\ session' = [t \in Sessions |-> session'[t]]
  BY <1>3 DEF PInv, SessionsOK
<1>6. ASSUME NEW z, Reliable(z) PROVE Reliable(z)'
  <2>1. \A stmt, row : (Qualifies(stmt, row) <=> Qualifies(stmt, row)')
                       /\ (Live(jobs, row) <=> Live(jobs', row))
    BY <1>1 DEF Qualifies, Live, Claimable, Due, Stale, Expired
  <2>2. (1..nextID) \ born \subseteq (1..nextID') \ born'
    BY <1>1
  <2> QED BY <1>1, <1>6, <2>1, <2>2 DEF Reliable
<1>7. /\ x.stmt.op = "enqueue" /\ x.todo = << >> /\ x.locked = {}
      /\ {r.id : r \in x.taken} = {r.id : r \in y.taken} \union {nextID + 1}
      /\ x = [stmt |-> x.stmt, todo |-> x.todo, locked |-> x.locked, taken |-> x.taken]
      /\ ~Sweeps(x.stmt)
  <2>1. \A r : r \in x.taken <=> r \in y.taken \/ r = [id |-> nextID + 1]
    OBVIOUS
  <2>2. [id |-> nextID + 1].id = nextID + 1
    OBVIOUS
  <2>3. {r.id : r \in x.taken} = {r.id : r \in y.taken} \union {nextID + 1}
    BY <2>1, <2>2, Zenon
  <2> QED BY <1>4, <2>3 DEF Sweeps
<1> HIDE DEF x, y
<1>8. ASSUME NEW z, z = x PROVE Reliable(z)'
  <2>1. {r.id : r \in z.taken} \subseteq (1..nextID') \ born'
    <3>1. {r.id : r \in z.taken} = {r.id : r \in y.taken} \union {nextID + 1}
      BY <1>7, <1>8
    <3>2. nextID + 1 \notin born /\ nextID + 1 \in 1..nextID' /\ 1..nextID \subseteq 1..nextID'
      BY <1>1
    <3> QED BY <1>1, <1>4, <3>1, <3>2
  <2> QED BY <1>7, <1>8, <2>1 DEF Reliable, Statements
<1>9. ASSUME NEW t \in Sessions \ {s}, session[t].stmt.op = "enqueue"
      PROVE  {r.id : r \in x.taken} \intersect TakenIds(t) = {}
  <2>1. TakenIds(t) \subseteq 1..nextID
    BY <1>9 DEF PInv, SessionsOK, Reliable, TakenIds
  <2>2. {r.id : r \in y.taken} \intersect TakenIds(t) = {}
    <3>1. CASE y.stmt.op = "none"
      BY <1>3, <3>1 DEF Reliable, Idle
    <3>2. CASE y.stmt.op = "enqueue"
      BY <1>9, <3>2 DEF PInv, SessionsOK, TakenIds, y
    <3> QED BY <1>3, <3>1, <3>2
  <2>3. nextID + 1 \notin TakenIds(t)
    BY <1>1, <2>1
  <2> QED BY <1>7, <2>2, <2>3
<1>10. SessionsOK'
  <2>1. \A t \in Sessions : Reliable(session[t])'
    <3>1. \A z : Reliable(z) => Reliable(z)'
      BY <1>6
    <3>2. \A z : z = x => Reliable(z)'
      BY <1>8
    <3>3. \A t \in Sessions : Reliable(session[t])
      BY DEF PInv, SessionsOK
    <3>4. \A t \in Sessions : \A z : z = session'[t] => Reliable(z)'
      BY <1>5, <3>1, <3>2, <3>3
    <3>5. \A z : Reliable(z)' <=> Reliable(z)'
      OBVIOUS
    <3> QED BY <3>4 DEF Reliable
  <2>2. ASSUME NEW t \in Sessions, NEW u \in Sessions, t # u
        PROVE  session'[t].locked \intersect session'[u].locked = {}
    BY <1>5, <1>7, <2>2 DEF PInv, SessionsOK
  <2>3. ASSUME NEW t \in Sessions, NEW u \in Sessions, t # u,
               session'[t].stmt.op = "enqueue", session'[u].stmt.op = "enqueue"
        PROVE  TakenIds(t)' \intersect TakenIds(u)' = {}
    <3>1. CASE t # s /\ u # s
      BY <1>5, <2>3, <3>1 DEF PInv, SessionsOK, TakenIds
    <3>2. CASE t = s
      BY <1>5, <1>9, <2>3, <3>2 DEF TakenIds
    <3>3. CASE u = s
      BY <1>5, <1>9, <2>3, <3>3 DEF TakenIds
    <3> QED BY <3>1, <3>2, <3>3
  <2> QED BY <1>5, <2>1, <2>2, <2>3 DEF SessionsOK
<1> QED BY <1>2, <1>10 DEF PInv

-----------------------------------------------------------------------------
(* What a commit does to one job.                                          *)

Generations(i) == Memory!Generations(i)
Phase(row) == Memory!PhaseOf(row.state)

\* The phases, in the states of this module.
LEMMA Phases ==
    \A row : Phase(row) = IF row.state = Running THEN "held"
                         ELSE IF row.state \in TerminalStates THEN "finished"
                         ELSE "waiting"
  BY DEF Phase, Memory!PhaseOf, Memory!Running, Memory!TerminalStates, Memory!Completed,
         Memory!Cancelled, Memory!Dead

\* Neither the outcomes nor the claims of job i change.
SameHistory(i) == settled'[i] = settled[i] /\ Generations(i)' = Generations(i)

\* Job i has a row before and after.
Stays(i) == i \in DOMAIN jobs /\ i \in DOMAIN jobs'

Kept(i) ==
    /\ SameHistory(i)
    /\ \/ /\ Stays(i)
          /\ jobs'[i].generation = jobs[i].generation
          /\ Phase(jobs'[i]) = Phase(jobs[i])
       \/ /\ i \notin DOMAIN jobs /\ i \notin DOMAIN jobs'
          /\ i \in born' <=> i \in born

Born(i) ==
    /\ SameHistory(i)
    /\ i \notin born /\ i \in DOMAIN jobs'
    /\ jobs'[i].generation = 0 /\ Phase(jobs'[i]) = "waiting"

Handed(i) ==
    /\ Stays(i)
    /\ Phase(jobs[i]) = "waiting" /\ jobs'[i].state = Running
    /\ jobs'[i].generation = jobs[i].generation + 1
    /\ settled'[i] = settled[i]
    /\ Generations(i)' = Generations(i) \union {jobs'[i].generation}

Answered(i) ==
    /\ Stays(i)
    /\ jobs[i].state = Running /\ jobs'[i].state # Running
    /\ jobs'[i].generation = jobs[i].generation
    /\ settled'[i] = Append(settled[i], jobs[i].generation)
    /\ Generations(i)' = Generations(i)

Rescued(i) ==
    /\ Stays(i)
    /\ jobs[i].state = Running /\ Phase(jobs'[i]) = "waiting"
    /\ jobs'[i].generation = jobs[i].generation
    /\ SameHistory(i)
    /\ \E now \in Clock : i \in Stale(jobs, now, TTL)

Removed(i) ==
    /\ SameHistory(i)
    /\ i \in DOMAIN jobs /\ i \notin DOMAIN jobs' /\ i \in born'
    /\ Phase(jobs[i]) = "finished"

Moved(i) == Kept(i) \/ Born(i) \/ Handed(i) \/ Answered(i) \/ Rescued(i) \/ Removed(i)

\* Claims that do not change leave the generations alone.
LEMMA SameClaims == claims' = claims => \A i : Generations(i)' = Generations(i)
  BY DEF Generations, Memory!Generations

\* The rows that there are.
LEMMA RowsThere ==
    ASSUME PInv, NEW i \in DOMAIN jobs
    PROVE  /\ i \in JobIds /\ i \in born /\ i \in 1..nextID
           /\ RowGood(jobs[i]) /\ jobs[i] \in JobRow /\ jobs[i].generation \in Nat
  BY BoundsAssumption DEF PInv, Rows, JobIds, RowGood, JobRow

\* A token that is dead stays dead.
LEMMA DeadStaysDead ==
    ASSUME PInv, NEW t \in claims, ~Live(jobs, t), Moved(t.id)
    PROVE  ~Live(jobs', t)
<1>1. /\ t.id \in born /\ t.generation \in Nat
      /\ t.id \in DOMAIN jobs => /\ t.generation <= jobs[t.id].generation
                                 /\ jobs[t.id].generation \in Nat
  BY RowsThere DEF PInv, ClaimsOK, Memory!Claims
<1> SUFFICES ASSUME Live(jobs', t) PROVE FALSE
  OBVIOUS
<1>2. /\ t.id \in DOMAIN jobs' /\ jobs'[t.id].state = Running
      /\ jobs'[t.id].generation = t.generation /\ Phase(jobs'[t.id]) = "held"
  BY Phases DEF Live
<1>3. ~Born(t.id) /\ ~Answered(t.id) /\ ~Rescued(t.id) /\ ~Removed(t.id)
  BY <1>1, <1>2 DEF Born, Answered, Rescued, Removed
<1>4. ~Handed(t.id)
  BY <1>1, <1>2 DEF Handed, Stays
<1>5. ~Kept(t.id)
  <2>1. ASSUME t.id \in DOMAIN jobs, Phase(jobs[t.id]) = "held"
        PROVE  jobs[t.id].state = Running
    BY <2>1, Phases
  <2> QED BY <1>2, <2>1 DEF Kept, Stays, Live
<1> QED BY <1>3, <1>4, <1>5 DEF Moved

\* What a claim that was handed out says, by the moves.
LEMMA ClaimsStayOK ==
    ASSUME PInv, born \subseteq born', claims' \subseteq Memory!Claims, IsFiniteSet(claims'),
           \A c \in claims' \ claims : c.id \in DOMAIN jobs,
           DOMAIN jobs' \subseteq JobIds,
           \A i \in DOMAIN jobs' : jobs'[i].generation \in Nat,
           \A i \in JobIds : Moved(i)
    PROVE  ClaimsOK'
<1>1. ASSUME NEW i \in DOMAIN jobs'
      PROVE  /\ jobs'[i].generation \in Generations(i)'
             /\ \A g \in Generations(i)' : g <= jobs'[i].generation
  <2>1. Moved(i) /\ jobs'[i].generation \in Nat
    BY <1>1
  <2>2. i \in DOMAIN jobs =>
           /\ jobs[i].generation \in Generations(i) /\ jobs[i].generation \in Nat
           /\ \A g \in Generations(i) : g \in Nat /\ g <= jobs[i].generation
    BY RowsThere DEF PInv, ClaimsOK, Generations, Memory!Generations, Memory!Claims
  <2>3. i \notin born => Generations(i) = {0}
    BY DEF PInv, ClaimsOK, Generations, Memory!Generations
  <2>4. CASE i \in DOMAIN jobs
    BY <2>1, <2>2, <2>4, RowsThere
       DEF Moved, Kept, Born, Handed, Answered, Rescued, Removed, SameHistory, Stays
  <2>5. CASE i \notin DOMAIN jobs
    <3>1. Born(i)
      BY <1>1, <2>1, <2>5 DEF Moved, Kept, Handed, Answered, Rescued, Removed, Stays
    <3> QED BY <2>3, <3>1 DEF Born, SameHistory
  <2> QED BY <2>4, <2>5
<1>2. ASSUME NEW c \in claims', c.id \in DOMAIN jobs'
      PROVE  c.generation <= jobs'[c.id].generation
  <2>1. c.generation \in Generations(c.id)'
    BY DEF Generations, Memory!Generations
  <2> QED BY <1>1, <1>2, <2>1
<1>3. ASSUME NEW c \in claims'
      PROVE  c.id \in born'
  BY RowsThere DEF PInv, ClaimsOK
<1> QED BY <1>1, <1>2, <1>3 DEF ClaimsOK, Generations

\* Row i is as it was.
Untouched(i) == /\ i \in DOMAIN jobs' <=> i \in DOMAIN jobs
                /\ i \in DOMAIN jobs => jobs'[i] = jobs[i]

\* The tables after a commit of s that moves every job and touches no row but
\* those s took.
CommitMoves(s) ==
    /\ session' = [session EXCEPT ![s] = Idle] /\ nextID' = nextID
    /\ born \subseteq born'
    /\ born' \subseteq born \union (IF session[s].stmt.op = "enqueue" THEN TakenIds(s) ELSE {})
    /\ jobs' = [i \in DOMAIN jobs' |-> jobs'[i]] /\ DOMAIN jobs' \subseteq born'
    /\ \A i \in DOMAIN jobs' : RowGood(jobs'[i])
    /\ settled' \in [JobIds -> Seq(Nat)]
    /\ claims \subseteq claims' /\ claims' \subseteq Memory!Claims /\ IsFiniteSet(claims')
    /\ \A c \in claims' \ claims : c.id \in DOMAIN jobs
    /\ \A i : i \notin TakenIds(s) => Untouched(i)
    /\ \A i \in JobIds : Moved(i)

\* Such a commit leaves what the other statements have seen true.
LEMMA OthersReliable ==
    ASSUME PInv, NEW s \in Sessions, CommitMoves(s), NEW t \in Sessions, t # s,
           NEW y, y = session[t]
    PROVE  Reliable(y)'
<1>1. /\ Reliable(session[s]) /\ Reliable(y)
      /\ session[s].locked \intersect y.locked = {}
      /\ session[s].stmt.op = "enqueue" /\ y.stmt.op = "enqueue" =>
            TakenIds(s) \intersect {r.id : r \in y.taken} = {}
  BY DEF PInv, SessionsOK, TakenIds
<1>2. /\ nextID' = nextID /\ claims \subseteq claims' /\ DOMAIN jobs \subseteq born
  BY DEF CommitMoves, PInv, Rows
<1>3. ASSUME NEW i \in y.locked PROVE i \in DOMAIN jobs /\ i \in DOMAIN jobs' /\ jobs'[i] = jobs[i]
  <2>1. i \in DOMAIN jobs
    BY <1>1, <1>3 DEF Reliable
  <2>2. i \notin TakenIds(s)
    <3>1. CASE session[s].stmt.op = "enqueue"
      BY <1>1, <1>2, <2>1, <3>1 DEF Reliable, TakenIds
    <3>2. CASE session[s].stmt.op # "enqueue"
      BY <1>1, <1>3, <3>2 DEF Reliable, TakenIds
    <3> QED BY <3>1, <3>2
  <2> QED BY <2>1, <2>2 DEF CommitMoves, Untouched
<1>4. ASSUME y.stmt.op = "enqueue"
      PROVE  {r.id : r \in y.taken} \subseteq (1..nextID') \ born'
  BY <1>1, <1>2, <1>4 DEF Reliable, CommitMoves
<1>5. ASSUME y.stmt.op # "enqueue", NEW r \in y.taken
      PROVE  Qualifies(y.stmt, r)'
  <2>1. r.id \in y.locked /\ Qualifies(y.stmt, r)
    BY <1>1, <1>5 DEF Reliable
  <2>2. r.id \in DOMAIN jobs /\ r.id \in DOMAIN jobs' /\ jobs'[r.id] = jobs[r.id]
    BY <1>3, <2>1
  <2>3. y.stmt.op \in {"fetch", "moveDue", "rescueStale", "clean", "fenced"}
    BY <1>1, <1>5 DEF Reliable, Idle, Statements
  <2>4. CASE y.stmt.op = "fetch"
    BY <2>1, <2>2, <2>4 DEF Qualifies, Claimable
  <2>5. CASE y.stmt.op = "moveDue"
    BY <2>1, <2>2, <2>5 DEF Qualifies, Due
  <2>6. CASE y.stmt.op = "rescueStale"
    BY <2>1, <2>2, <2>6 DEF Qualifies, Stale
  <2>7. CASE y.stmt.op = "clean"
    BY <2>1, <2>2, <2>7 DEF Qualifies, Expired
  <2>8. CASE y.stmt.op = "fenced"
    BY <2>1, <2>2, <2>8 DEF Qualifies, Live
  <2> QED BY <2>3, <2>4, <2>5, <2>6, <2>7, <2>8
<1>6. ASSUME y.stmt.op = "fenced", NEW u \in y.stmt.tokens, ~Live(jobs, u)
      PROVE  ~Live(jobs', u)
  <2>1. u \in claims
    BY <1>1, <1>6 DEF Reliable
  <2>2. u.id \in JobIds
    BY <2>1, BoundsAssumption DEF PInv, ClaimsOK, Rows, JobIds
  <2>3. Moved(u.id)
    BY <2>2 DEF CommitMoves
  <2> QED BY <1>6, <2>1, <2>3, DeadStaysDead
<1>7. y.locked \subseteq DOMAIN jobs'
  BY <1>3
<1> QED BY <1>1, <1>2, <1>4, <1>5, <1>6, <1>7 DEF Reliable

\* So it keeps the invariant.
LEMMA CommitKeeps ==
    ASSUME PInv, NEW s \in Sessions, CommitMoves(s)
    PROVE  PInv'
<1>1. Rows'
  <2>1. born' \subseteq 1..nextID
    <3>1. session[s].stmt.op = "enqueue" => TakenIds(s) \subseteq 1..nextID
      BY DEF PInv, SessionsOK, Reliable, TakenIds
    <3> QED BY <3>1 DEF CommitMoves, PInv, Rows
  <2> QED BY <2>1 DEF CommitMoves, PInv, Rows
<1>2. ClaimsOK'
  <2>1. DOMAIN jobs' \subseteq JobIds
    BY <1>1, BoundsAssumption DEF Rows, JobIds
  <2>2. \A i \in DOMAIN jobs' : jobs'[i].generation \in Nat
    BY DEF CommitMoves, RowGood, JobRow
  <2> QED BY <2>1, <2>2, ClaimsStayOK DEF CommitMoves
<1>3. SessionsOK'
  <2>1. /\ session' = [t \in Sessions |-> session'[t]] /\ session'[s] = Idle
        /\ \A t \in Sessions \ {s} : session'[t] = session[t]
    BY DEF CommitMoves, PInv, SessionsOK
  <2>2. Reliable(Idle)'
    BY DEF Reliable, Idle, Statements, Sweeps
  <2>3. \A t \in Sessions : Reliable(session[t])'
    <3>1. ASSUME NEW t \in Sessions, t # s, NEW y, y = session'[t] PROVE Reliable(y)'
      BY <2>1, <3>1, OthersReliable
    <3>2. ASSUME NEW t \in Sessions, t = s, NEW y, y = session'[t] PROVE Reliable(y)'
      BY <2>1, <2>2, <3>2 DEF Idle
    <3>3. \A t \in Sessions : \A y : y = session'[t] => Reliable(y)'
      BY <3>1, <3>2
    <3> QED BY <3>3 DEF Reliable
  <2>4. Idle.locked = {} /\ Idle.stmt.op # "enqueue"
    BY DEF Idle
  <2>5. ASSUME NEW t \in Sessions, NEW u \in Sessions, t # u
        PROVE  session'[t].locked \intersect session'[u].locked = {}
    BY <2>1, <2>4, <2>5 DEF PInv, SessionsOK
  <2>6. ASSUME NEW t \in Sessions, NEW u \in Sessions, t # u,
               session'[t].stmt.op = "enqueue", session'[u].stmt.op = "enqueue"
        PROVE  TakenIds(t)' \intersect TakenIds(u)' = {}
    BY <2>1, <2>4, <2>6 DEF PInv, SessionsOK, TakenIds
  <2> QED BY <2>1, <2>3, <2>5, <2>6 DEF SessionsOK
<1> QED BY <1>1, <1>2, <1>3 DEF PInv

-----------------------------------------------------------------------------
(* The commits.                                                            *)

\* The rows a sweep or a fenced update took still qualify.
LEMMA TakenRows ==
    ASSUME PInv, NEW s \in Sessions, session[s].stmt.op # "enqueue", NEW i \in TakenIds(s)
    PROVE  /\ i \in DOMAIN jobs /\ i \in JobIds /\ RowGood(jobs[i])
           /\ \E r \in session[s].taken : r.id = i /\ Qualifies(session[s].stmt, r)
  BY RowsThere DEF PInv, SessionsOK, Reliable, TakenIds

\* What the clauses of the sweeps say of a row taken.
LEMMA SweptRows ==
    ASSUME PInv, NEW s \in Sessions, NEW i \in TakenIds(s)
    PROVE  LET stmt == session[s].stmt
           IN  /\ Sweeps(stmt) => stmt.now \in Clock
               /\ stmt.op = "fetch" => jobs[i].state = Available
               /\ stmt.op = "moveDue" => jobs[i].state \in {Scheduled, Retryable}
               /\ stmt.op = "rescueStale" => /\ jobs[i].state = Running
                                            /\ i \in Stale(jobs, stmt.now, TTL)
               /\ stmt.op = "clean" => jobs[i].state \in TerminalStates
<1> DEFINE stmt == session[s].stmt
<1>1. Sweeps(stmt) => stmt.now \in Clock
  BY DEF PInv, SessionsOK, Reliable
<1>2. stmt.op # "enqueue" => \E r \in session[s].taken : r.id = i /\ Qualifies(stmt, r)
  BY TakenRows
<1>3. stmt.op = "fetch" => jobs[i].state = Available
  BY <1>2 DEF Qualifies, Claimable
<1>4. stmt.op = "moveDue" => jobs[i].state \in {Scheduled, Retryable}
  BY <1>2 DEF Qualifies, Due
<1>5. stmt.op = "rescueStale" => jobs[i].state = Running /\ i \in Stale(jobs, stmt.now, TTL)
  BY <1>2 DEF Qualifies, Stale
<1>6. stmt.op = "clean" => jobs[i].state \in TerminalStates
  BY <1>2 DEF Qualifies, Expired
<1> QED BY <1>1, <1>3, <1>4, <1>5, <1>6

\* A commit that rewrites the rows it took.
LEMMA Rewrites ==
    ASSUME PInv, NEW s \in Sessions, NEW op, op # "enqueue", Commits(s, op),
           UNCHANGED <<nextID, claims, born>>,
           jobs' = [i \in DOMAIN jobs |-> jobs'[i]],
           \A i \in DOMAIN jobs : i \notin TakenIds(s) => jobs'[i] = jobs[i],
           settled' \in [JobIds -> Seq(Nat)],
           \A i \in JobIds : i \notin TakenIds(s) => settled'[i] = settled[i],
           \A i \in TakenIds(s) : RowGood(jobs'[i]) /\ Moved(i)
    PROVE  CommitMoves(s)
<1>1. DOMAIN jobs' = DOMAIN jobs
  OBVIOUS
<1>2. \A i : i \notin TakenIds(s) => Untouched(i)
  BY <1>1 DEF Untouched
<1>3. ASSUME NEW i \in JobIds PROVE Moved(i)
  <2>1. CASE i \in TakenIds(s)
    BY <2>1
  <2>2. CASE i \notin TakenIds(s)
    <3>1. SameHistory(i)
      BY <2>2, SameClaims DEF SameHistory
    <3> QED BY <1>1, <2>2, <3>1 DEF Moved, Kept, Stays
  <2> QED BY <2>1, <2>2
<1>4. \A i \in DOMAIN jobs' : RowGood(jobs'[i])
  BY <1>1, RowsThere
<1>5. DOMAIN jobs' \subseteq born' /\ claims' \subseteq Memory!Claims /\ IsFiniteSet(claims')
  BY <1>1 DEF PInv, Rows, ClaimsOK
<1>6. jobs' = [i \in DOMAIN jobs' |-> jobs'[i]]
  BY <1>1
<1> QED BY <1>2, <1>3, <1>4, <1>5, <1>6 DEF CommitMoves, Commits

\* A job that becomes available was waiting already.
LEMMA MoveDueMoves ==
    ASSUME PInv, NEW s \in Sessions, MoveDue(s)
    PROVE  CommitMoves(s)
<1>1. /\ jobs' = [i \in DOMAIN jobs |-> IF i \in TakenIds(s)
                                       THEN [jobs[i] EXCEPT !.state = Available] ELSE jobs[i]]
      /\ Commits(s, "moveDue") /\ UNCHANGED <<nextID, claims, settled, born>>
      /\ session[s].stmt.op = "moveDue" /\ Sweeps(session[s].stmt)
  BY DEF MoveDue, MakeAvailable, Commits, Sweeps
<1>2. ASSUME NEW i \in TakenIds(s) PROVE RowGood(jobs'[i]) /\ Moved(i)
  <2>1. /\ i \in DOMAIN jobs /\ RowGood(jobs[i]) /\ jobs[i].state \in {Scheduled, Retryable}
        /\ session[s].stmt.now \in Clock
    BY <1>1, TakenRows, SweptRows
  <2>2. jobs'[i] = [jobs[i] EXCEPT !.state = Available] /\ Stays(i)
    BY <1>1, <2>1 DEF Stays
  <2>3. /\ RowGood(jobs'[i]) /\ jobs'[i].state = Available
        /\ jobs'[i].generation = jobs[i].generation
    BY <2>1, <2>2, SweptRowGood
  <2>4. Phase(jobs'[i]) = Phase(jobs[i])
    BY <2>1, <2>3, Phases
  <2>5. SameHistory(i)
    BY <1>1, SameClaims DEF SameHistory
  <2> QED BY <2>2, <2>3, <2>4, <2>5 DEF Moved, Kept
<1> QED BY <1>1, <1>2, Rewrites DEF PInv, Rows

\* RescueStale takes jobs only from holders that were silent.
LEMMA RescueMoves ==
    ASSUME PInv, NEW s \in Sessions, RescueStale(s)
    PROVE  CommitMoves(s)
<1> DEFINE now == session[s].stmt.now
<1>1. /\ jobs' = [i \in DOMAIN jobs |-> IF i \in TakenIds(s)
                                       THEN RescueRow(jobs[i], now) ELSE jobs[i]]
      /\ Commits(s, "rescueStale") /\ UNCHANGED <<nextID, claims, settled, born>>
      /\ session[s].stmt.op = "rescueStale" /\ Sweeps(session[s].stmt)
  BY DEF RescueStale, Rescue, Commits, Sweeps
<1>2. ASSUME NEW i \in TakenIds(s) PROVE RowGood(jobs'[i]) /\ Moved(i)
  <2>1. /\ i \in DOMAIN jobs /\ RowGood(jobs[i]) /\ jobs[i].state = Running
        /\ now \in Clock /\ i \in Stale(jobs, now, TTL)
    BY <1>1, TakenRows, SweptRows
  <2>2. jobs'[i] = RescueRow(jobs[i], now) /\ Stays(i)
    BY <1>1, <2>1 DEF Stays
  <2>3. /\ RowGood(jobs'[i]) /\ jobs'[i].state = Retryable
        /\ jobs'[i].generation = jobs[i].generation
    BY <2>1, <2>2, SweptRowGood
  <2>4. Phase(jobs'[i]) = "waiting"
    BY <2>3, Phases
  <2>5. SameHistory(i)
    BY <1>1, SameClaims DEF SameHistory
  <2> QED BY <2>1, <2>2, <2>3, <2>4, <2>5 DEF Moved, Rescued
<1> QED BY <1>1, <1>2, Rewrites DEF PInv, Rows

\* Clean removes jobs that are finished.
LEMMA CleanMoves ==
    ASSUME PInv, NEW s \in Sessions, Clean(s)
    PROVE  CommitMoves(s)
<1>1. /\ jobs' = [i \in DOMAIN jobs \ TakenIds(s) |-> jobs[i]]
      /\ Commits(s, "clean") /\ UNCHANGED <<nextID, claims, settled, born>>
      /\ session[s].stmt.op = "clean"
  BY DEF Clean, Delete, Commits
<1>2. DOMAIN jobs' = DOMAIN jobs \ TakenIds(s) /\ \A i \in DOMAIN jobs' : jobs'[i] = jobs[i]
  BY <1>1
<1>3. ASSUME NEW i \in JobIds PROVE Moved(i)
  <2>1. SameHistory(i)
    BY <1>1, SameClaims DEF SameHistory
  <2>2. CASE i \in TakenIds(s)
    <3>1. /\ i \in DOMAIN jobs /\ i \in born /\ jobs[i].state \in TerminalStates
      BY <1>1, <2>2, TakenRows, SweptRows, RowsThere
    <3>2. Phase(jobs[i]) = "finished"
      BY <3>1, Phases
    <3> QED BY <1>1, <1>2, <2>1, <2>2, <3>1, <3>2 DEF Moved, Removed
  <2>3. CASE i \notin TakenIds(s)
    BY <1>1, <1>2, <2>1, <2>3 DEF Moved, Kept, Stays
  <2> QED BY <2>2, <2>3
<1>4. \A i : i \notin TakenIds(s) => Untouched(i)
  BY <1>2 DEF Untouched
<1>5. /\ jobs' = [i \in DOMAIN jobs' |-> jobs'[i]] /\ DOMAIN jobs' \subseteq born'
      /\ \A i \in DOMAIN jobs' : RowGood(jobs'[i])
      /\ settled' \in [JobIds -> Seq(Nat)]
      /\ claims' \subseteq Memory!Claims /\ IsFiniteSet(claims')
  <2>1. DOMAIN jobs' \subseteq born' /\ \A i \in DOMAIN jobs' : RowGood(jobs'[i])
    BY <1>1, <1>2, RowsThere
  <2> QED BY <1>1, <2>1 DEF PInv, Rows, ClaimsOK
<1> QED BY <1>1, <1>3, <1>4, <1>5 DEF CommitMoves, Commits

\* Fetch hands jobs that waited out, each under its next generation.
LEMMA FetchMoves ==
    ASSUME PInv, NEW s \in Sessions, Fetch(s)
    PROVE  CommitMoves(s)
<1> DEFINE ids == TakenIds(s)
           now == session[s].stmt.now
<1>1. /\ jobs' = [i \in DOMAIN jobs |-> IF i \in ids THEN ClaimRow(jobs[i], now) ELSE jobs[i]]
      /\ claims' = claims \union {ClaimOf(jobs', i) : i \in ids}
      /\ Commits(s, "fetch") /\ UNCHANGED <<nextID, settled, born>>
      /\ session[s].stmt.op = "fetch" /\ Sweeps(session[s].stmt)
  BY DEF Fetch, Claim, Commits, Sweeps
<1>2. \A i \in ids : /\ i \in DOMAIN jobs /\ i \in JobIds /\ RowGood(jobs[i])
                    /\ jobs[i].state = Available /\ now \in Clock
  BY <1>1, TakenRows, SweptRows
<1>3. IsFiniteSet(ids)
  <2>1. ids \subseteq 1..nextID /\ nextID \in Int
    BY <1>2, RowsThere, BoundsAssumption DEF PInv, Rows
  <2>2. IsFiniteSet(1..nextID)
    BY <2>1, FS_Interval
  <2> QED BY <2>1, <2>2, FS_Subset
<1> HIDE DEF ids, now
<1>4. DOMAIN jobs' = DOMAIN jobs
  BY <1>1
<1>5. ASSUME NEW i \in ids
      PROVE  /\ RowGood(jobs'[i]) /\ jobs'[i].state = Running
             /\ jobs'[i].generation = jobs[i].generation + 1
  <2>1. jobs'[i] = ClaimRow(jobs[i], now)
    BY <1>1, <1>2
  <2> QED BY <1>2, <2>1, ClaimRowGood
<1>6. \A j : /\ ClaimOf(jobs', j).id = j
            /\ ClaimOf(jobs', j).generation = jobs'[j].generation
  BY DEF ClaimOf
<1>7. \A i \in ids : ClaimOf(jobs', i) \in Memory!Claims
  <2> SUFFICES ASSUME NEW i \in ids PROVE ClaimOf(jobs', i) \in Memory!Claims
    OBVIOUS
  <2>1. /\ i \in Memory!JobIds /\ jobs'[i] \in JobRow /\ jobs'[i].attempt >= 1
        /\ jobs[i].generation \in Nat /\ jobs'[i].generation = jobs[i].generation + 1
    BY <1>2, <1>5, RowsThere DEF JobIds, Memory!JobIds, RowGood
  <2>2. /\ jobs'[i].generation \in Nat \ {0} /\ jobs'[i].attempt \in Nat \ {0}
        /\ jobs'[i].snoozes \in Nat
    BY <2>1 DEF JobRow
  <2> QED BY <2>1, <2>2 DEF ClaimOf, Memory!Claims
<1>8. claims' \subseteq Memory!Claims /\ IsFiniteSet(claims')
  <2> DEFINE new == {ClaimOf(jobs', i) : i \in ids}
             f == [i \in ids |-> ClaimOf(jobs', i)]
  <2>1. f \in Surjection(ids, new)
    BY DEF Surjection
  <2>2. IsFiniteSet(new)
    BY <1>3, <2>1, FS_Surjection
  <2>3. new \subseteq Memory!Claims
    BY <1>7
  <2> HIDE DEF new
  <2>4. claims' = claims \union new /\ claims \subseteq Memory!Claims /\ IsFiniteSet(claims)
    BY <1>1 DEF PInv, ClaimsOK, new
  <2> QED BY <2>2, <2>3, <2>4, FS_Union
<1>9. ASSUME NEW i, i \notin ids
      PROVE  Generations(i)' = Generations(i)
  BY <1>1, <1>6, <1>9 DEF Generations, Memory!Generations
<1>10. ASSUME NEW i \in ids
       PROVE  Generations(i)' = Generations(i) \union {jobs'[i].generation}
  <2>1. {d \in claims' : d.id = i} = {d \in claims : d.id = i} \union {ClaimOf(jobs', i)}
    BY <1>1, <1>6
  <2> QED BY <1>6, <2>1 DEF Generations, Memory!Generations
<1>11. ASSUME NEW i \in JobIds PROVE Moved(i)
  <2>1. CASE i \in ids
    <3>1. Phase(jobs[i]) = "waiting" /\ Stays(i) /\ settled'[i] = settled[i]
      BY <1>1, <1>2, <1>4, <2>1, Phases DEF Stays
    <3> QED BY <1>5, <1>10, <2>1, <3>1 DEF Moved, Handed
  <2>2. CASE i \notin ids
    BY <1>1, <1>4, <1>9, <2>2 DEF Moved, Kept, Stays, SameHistory
  <2> QED BY <2>1, <2>2
<1>12. \A i : i \notin ids => Untouched(i)
  BY <1>1, <1>4 DEF Untouched
<1>13. /\ jobs' = [i \in DOMAIN jobs' |-> jobs'[i]] /\ DOMAIN jobs' \subseteq born'
       /\ \A i \in DOMAIN jobs' : RowGood(jobs'[i])
       /\ settled' \in [JobIds -> Seq(Nat)]
  <2>1. \A i \in DOMAIN jobs' : RowGood(jobs'[i])
    BY <1>1, <1>4, <1>5, RowsThere
  <2> QED BY <1>1, <1>4, <2>1 DEF PInv, Rows
<1>14. \A c \in claims' \ claims : c.id \in DOMAIN jobs
  BY <1>1, <1>2, <1>6
<1> QED BY <1>1, <1>8, <1>11, <1>12, <1>13, <1>14 DEF CommitMoves, Commits, ids

\* Heartbeat keeps every job.
LEMMA HeartbeatMoves ==
    ASSUME PInv, NEW s \in Sessions, NEW now \in Clock, Heartbeat(s, now)
    PROVE  CommitMoves(s)
<1>1. /\ jobs' = [i \in DOMAIN jobs |-> IF i \in TakenIds(s)
                                       THEN [jobs[i] EXCEPT !.heartbeatAt = now] ELSE jobs[i]]
      /\ Commits(s, "fenced") /\ UNCHANGED <<nextID, claims, settled, born>>
      /\ session[s].stmt.op = "fenced"
  BY DEF Heartbeat, Commits
<1>2. ASSUME NEW i \in TakenIds(s) PROVE RowGood(jobs'[i]) /\ Moved(i)
  <2>1. i \in DOMAIN jobs /\ RowGood(jobs[i])
    BY <1>1, TakenRows
  <2>2. jobs'[i] = [jobs[i] EXCEPT !.heartbeatAt = now] /\ Stays(i)
    BY <1>1, <2>1 DEF Stays
  <2>3. /\ RowGood(jobs'[i]) /\ jobs'[i].state = jobs[i].state
        /\ jobs'[i].generation = jobs[i].generation
    BY <2>1, <2>2, SweptRowGood
  <2>4. Phase(jobs'[i]) = Phase(jobs[i])
    BY <2>3, Phases
  <2>5. SameHistory(i)
    BY <1>1, SameClaims DEF SameHistory
  <2> QED BY <2>2, <2>3, <2>4, <2>5 DEF Moved, Kept
<1> QED BY <1>1, <1>2, Rewrites DEF PInv, Rows

\* The token a row was taken with.
TokenOf(s, i) == CHOOSE t \in session[s].taken : t.id = i

\* The entry of a finalization that quotes it, with a message or without.
EntryOf(s, i, m) == Memory!Entry(TokenOf(s, i), NoTime, m)

\* It is the claim that holds the row.
LEMMA TakenToken ==
    ASSUME PInv, NEW s \in Sessions, session[s].stmt.op = "fenced", NEW i \in TakenIds(s)
    PROVE  /\ TokenOf(s, i) \in session[s].stmt.tokens /\ TokenOf(s, i) \in Memory!Claims
           /\ i \in DOMAIN jobs /\ i \in JobIds /\ RowGood(jobs[i])
           /\ jobs[i].state = Running /\ jobs[i].generation = TokenOf(s, i).generation
           /\ TokenOf(s, i).generation \in Nat
           /\ \A at \in Int, m \in BOOLEAN :
                 /\ Memory!Entry(TokenOf(s, i), at, m) \in Entries
                 /\ [Memory!Entry(TokenOf(s, i), at, m) EXCEPT !.snoozes = @ + 1] \in Entries
                 /\ Memory!Entry(TokenOf(s, i), at, m).at = at
                 /\ [Memory!Entry(TokenOf(s, i), at, m) EXCEPT !.snoozes = @ + 1].at = at
<1> DEFINE t == TokenOf(s, i)
<1>1. t \in session[s].taken /\ t.id = i
  BY DEF TokenOf, TakenIds
<1> HIDE DEF t
<1>2. /\ t \in session[s].stmt.tokens /\ t \in claims
      /\ Qualifies(session[s].stmt, t)
  BY <1>1 DEF PInv, SessionsOK, Reliable
<1>3. i \in DOMAIN jobs /\ jobs[i].state = Running /\ jobs[i].generation = t.generation
  BY <1>1, <1>2 DEF Qualifies, Live
<1>4. t \in Memory!Claims /\ i \in JobIds /\ RowGood(jobs[i])
  BY <1>2, <1>3, RowsThere DEF PInv, ClaimsOK
<1>5. t.id \in JobIds /\ t.generation \in Nat /\ t.attempt \in Int /\ t.snoozes \in Nat
  BY <1>1, <1>4 DEF Memory!Claims
<1>6. ASSUME NEW at \in Int, NEW m \in BOOLEAN
      PROVE  /\ Memory!Entry(t, at, m) \in Entries
             /\ [Memory!Entry(t, at, m) EXCEPT !.snoozes = @ + 1] \in Entries
             /\ Memory!Entry(t, at, m).at = at
             /\ [Memory!Entry(t, at, m) EXCEPT !.snoozes = @ + 1].at = at
  <2>1. Memory!Entry(t, at, m) \in Entries /\ Memory!Entry(t, at, m).at = at
    BY <1>5 DEF Memory!Entry, Entries
  <2>2. \A e \in Entries : /\ [e EXCEPT !.snoozes = @ + 1] \in Entries
                           /\ [e EXCEPT !.snoozes = @ + 1].at = e.at
    BY DEF Entries
  <2> QED BY <2>1, <2>2
<1> QED BY <1>2, <1>3, <1>4, <1>5, <1>6 DEF t

\* A finalization answers the holders of the rows it took.
LEMMA SettleMoves ==
    ASSUME PInv, NEW s \in Sessions, Commits(s, "fenced"), UNCHANGED <<nextID, claims, born>>,
           settled' = [i \in JobIds |-> IF i \in TakenIds(s)
                                       THEN Append(settled[i], TokenOf(s, i).generation)
                                       ELSE settled[i]],
           jobs' = [i \in DOMAIN jobs |-> jobs'[i]],
           \A i \in DOMAIN jobs : i \notin TakenIds(s) => jobs'[i] = jobs[i],
           \A i \in TakenIds(s) : /\ RowGood(jobs'[i]) /\ jobs'[i].state # Running
                                  /\ jobs'[i].generation = jobs[i].generation
    PROVE  CommitMoves(s)
<1>1. session[s].stmt.op = "fenced"
  BY DEF Commits
<1>2. ASSUME NEW i \in TakenIds(s) PROVE RowGood(jobs'[i]) /\ Moved(i)
  <2>1. /\ i \in DOMAIN jobs /\ i \in JobIds /\ jobs[i].state = Running
        /\ jobs[i].generation = TokenOf(s, i).generation
    BY <1>1, TakenToken
  <2>2. settled'[i] = Append(settled[i], jobs[i].generation) /\ Stays(i)
    BY <2>1 DEF Stays
  <2> QED BY <2>1, <2>2, SameClaims DEF Moved, Answered
<1>3. settled' \in [JobIds -> Seq(Nat)]
  <2>1. ASSUME NEW i \in JobIds
        PROVE  (IF i \in TakenIds(s) THEN Append(settled[i], TokenOf(s, i).generation)
                                     ELSE settled[i]) \in Seq(Nat)
    <3>1. settled[i] \in Seq(Nat)
      BY DEF PInv, Rows
    <3>2. i \in TakenIds(s) => TokenOf(s, i).generation \in Nat
      BY <1>1, TakenToken
    <3> QED BY <3>1, <3>2
  <2> QED BY <2>1
<1> QED BY <1>2, <1>3, Rewrites

\* The zero time is a number.
LEMMA NoTimeIsInt == NoTime \in Int
  BY InstantRange DEF NoTime

\* Complete answers.
LEMMA CompleteMoves ==
    ASSUME PInv, NEW s \in Sessions, NEW now \in Clock,
           Complete(s, now)
    PROVE  CommitMoves(s)
<1>1. /\ jobs' = [i \in DOMAIN jobs |->
                     IF i \in TakenIds(s)
                     THEN CompleteRow(jobs[i], EntryOf(s, i, FALSE), now)
                     ELSE jobs[i]]
      /\ Commits(s, "fenced") /\ UNCHANGED <<nextID, claims, born>>
      /\ settled' = [i \in JobIds |-> IF i \in TakenIds(s)
                                       THEN Append(settled[i], TokenOf(s, i).generation)
                                       ELSE settled[i]]
      /\ session[s].stmt.op = "fenced"
  BY DEF Complete, Finalization, Commits, TokenOf, Plain, EntryOf
<1>2. ASSUME NEW i \in TakenIds(s)
      PROVE  /\ RowGood(jobs'[i]) /\ jobs'[i].state # Running
             /\ jobs'[i].generation = jobs[i].generation
  <2>1. /\ i \in DOMAIN jobs /\ RowGood(jobs[i]) /\ jobs[i].state = Running
        /\ EntryOf(s, i, FALSE) \in Entries
    BY <1>1, TakenToken, NoTimeIsInt DEF EntryOf
  <2>2. jobs'[i] = CompleteRow(jobs[i], EntryOf(s, i, FALSE), now)
    BY <1>1, <2>1
  <2>3. LET new == CompleteRow(jobs[i], EntryOf(s, i, FALSE), now)
        IN  RowGood(new) /\ new.state # Running /\ new.generation = jobs[i].generation
    BY <2>1, FinalRowGood
  <2> QED BY <2>2, <2>3
<1> QED BY <1>1, <1>2, SettleMoves

\* Kill answers.
LEMMA KillMoves ==
    ASSUME PInv, NEW s \in Sessions, NEW now \in Clock,
           Kill(s, now)
    PROVE  CommitMoves(s)
<1>1. /\ jobs' = [i \in DOMAIN jobs |->
                     IF i \in TakenIds(s)
                     THEN KillRow(jobs[i], EntryOf(s, i, FALSE), now)
                     ELSE jobs[i]]
      /\ Commits(s, "fenced") /\ UNCHANGED <<nextID, claims, born>>
      /\ settled' = [i \in JobIds |-> IF i \in TakenIds(s)
                                       THEN Append(settled[i], TokenOf(s, i).generation)
                                       ELSE settled[i]]
      /\ session[s].stmt.op = "fenced"
  BY DEF Kill, Finalization, Commits, TokenOf, Plain, EntryOf
<1>2. ASSUME NEW i \in TakenIds(s)
      PROVE  /\ RowGood(jobs'[i]) /\ jobs'[i].state # Running
             /\ jobs'[i].generation = jobs[i].generation
  <2>1. /\ i \in DOMAIN jobs /\ RowGood(jobs[i]) /\ jobs[i].state = Running
        /\ EntryOf(s, i, FALSE) \in Entries
    BY <1>1, TakenToken, NoTimeIsInt DEF EntryOf
  <2>2. jobs'[i] = KillRow(jobs[i], EntryOf(s, i, FALSE), now)
    BY <1>1, <2>1
  <2> QED BY <2>1, <2>2, FinalRowGood
<1> QED BY <1>1, <1>2, SettleMoves

\* Cancel answers.
LEMMA CancelMoves ==
    ASSUME PInv, NEW s \in Sessions, NEW now \in Clock, NEW reasons,
           Cancel(s, reasons, now)
    PROVE  CommitMoves(s)
<1>1. /\ jobs' = [i \in DOMAIN jobs |->
                     IF i \in TakenIds(s)
                     THEN CancelRow(jobs[i], EntryOf(s, i, TokenOf(s, i) \in reasons), now)
                     ELSE jobs[i]]
      /\ Commits(s, "fenced") /\ UNCHANGED <<nextID, claims, born>>
      /\ settled' = [i \in JobIds |-> IF i \in TakenIds(s)
                                       THEN Append(settled[i], TokenOf(s, i).generation)
                                       ELSE settled[i]]
      /\ session[s].stmt.op = "fenced"
  BY DEF Cancel, Finalization, Commits, TokenOf, EntryOf
<1>2. ASSUME NEW i \in TakenIds(s)
      PROVE  /\ RowGood(jobs'[i]) /\ jobs'[i].state # Running
             /\ jobs'[i].generation = jobs[i].generation
  <2>0. PICK m \in BOOLEAN : m = (TokenOf(s, i) \in reasons)
    <3>1. (TokenOf(s, i) \in reasons) \in BOOLEAN
      BY SMT
    <3> QED BY <3>1, Zenon
  <2>1. /\ i \in DOMAIN jobs /\ RowGood(jobs[i]) /\ jobs[i].state = Running
        /\ EntryOf(s, i, m) \in Entries
    BY <1>1, TakenToken, NoTimeIsInt DEF EntryOf
  <2>2. jobs'[i] = CancelRow(jobs[i], EntryOf(s, i, m), now)
    BY <1>1, <2>1, <2>0
  <2> QED BY <2>1, <2>2, FinalRowGood
<1> QED BY <1>1, <1>2, SettleMoves

\* Retry answers.
LEMMA RetryMoves ==
    ASSUME PInv, NEW s \in Sessions, NEW at \in [session[s].stmt.tokens -> RetryTimes],
           Retry(s, at)
    PROVE  CommitMoves(s)
<1>1. /\ jobs' = [i \in DOMAIN jobs |->
                     IF i \in TakenIds(s)
                     THEN RetryRow(jobs[i], Rescheduled(s, at)[TokenOf(s, i)])
                     ELSE jobs[i]]
      /\ Commits(s, "fenced") /\ UNCHANGED <<nextID, claims, born>>
      /\ settled' = [i \in JobIds |-> IF i \in TakenIds(s)
                                       THEN Append(settled[i], TokenOf(s, i).generation)
                                       ELSE settled[i]]
      /\ session[s].stmt.op = "fenced"
  BY DEF Retry, Finalization, Commits, TokenOf
<1>2. ASSUME NEW i \in TakenIds(s)
      PROVE  /\ RowGood(jobs'[i]) /\ jobs'[i].state # Running
             /\ jobs'[i].generation = jobs[i].generation
  <2> DEFINE p == Memory!Entry(TokenOf(s, i), at[TokenOf(s, i)], FALSE)
             e == p
  <2>1. /\ TokenOf(s, i) \in session[s].stmt.tokens /\ at[TokenOf(s, i)] \in Int
        /\ i \in DOMAIN jobs /\ RowGood(jobs[i]) /\ jobs[i].state = Running
    BY <1>1, TakenToken, RetryTimesAssumption
  <2>2. e \in Entries /\ e.at = at[TokenOf(s, i)] /\ p.at = at[TokenOf(s, i)]
    BY <1>1, <2>1, TakenToken
  <2>3. /\ Rescheduled(s, at)[TokenOf(s, i)] = p
        /\ DOMAIN Rescheduled(s, at) = session[s].stmt.tokens
    BY <2>1 DEF Rescheduled
  <2> HIDE DEF p
  <2>4. ValidateInstant(e.at)
    BY <2>1, <2>2, <2>3 DEF Retry, AllStorable
  <2>5. jobs'[i] = RetryRow(jobs[i], e)
    BY <1>1, <2>1, <2>3
  <2> HIDE DEF e
  <2> QED BY <2>1, <2>2, <2>4, <2>5, LaterRowGood
<1> QED BY <1>1, <1>2, SettleMoves

\* Snooze answers.
LEMMA SnoozeMoves ==
    ASSUME PInv, NEW s \in Sessions, NEW at \in [session[s].stmt.tokens -> RetryTimes],
           Snooze(s, at)
    PROVE  CommitMoves(s)
<1>1. /\ jobs' = [i \in DOMAIN jobs |->
                     IF i \in TakenIds(s)
                     THEN SnoozeRow(jobs[i], [Rescheduled(s, at)[TokenOf(s, i)]
                                                EXCEPT !.snoozes = @ + 1])
                     ELSE jobs[i]]
      /\ Commits(s, "fenced") /\ UNCHANGED <<nextID, claims, born>>
      /\ settled' = [i \in JobIds |-> IF i \in TakenIds(s)
                                       THEN Append(settled[i], TokenOf(s, i).generation)
                                       ELSE settled[i]]
      /\ session[s].stmt.op = "fenced"
  BY DEF Snooze, Finalization, Commits, TokenOf
<1>2. ASSUME NEW i \in TakenIds(s)
      PROVE  /\ RowGood(jobs'[i]) /\ jobs'[i].state # Running
             /\ jobs'[i].generation = jobs[i].generation
  <2> DEFINE p == Memory!Entry(TokenOf(s, i), at[TokenOf(s, i)], FALSE)
             e == [p EXCEPT !.snoozes = @ + 1]
  <2>1. /\ TokenOf(s, i) \in session[s].stmt.tokens /\ at[TokenOf(s, i)] \in Int
        /\ i \in DOMAIN jobs /\ RowGood(jobs[i]) /\ jobs[i].state = Running
    BY <1>1, TakenToken, RetryTimesAssumption
  <2>2. e \in Entries /\ e.at = at[TokenOf(s, i)] /\ p.at = at[TokenOf(s, i)]
    <3>1. /\ \A v \in Int, m \in BOOLEAN :
                /\ Memory!Entry(TokenOf(s, i), v, m).at = v
                /\ [Memory!Entry(TokenOf(s, i), v, m) EXCEPT !.snoozes = @ + 1] \in Entries
      BY <1>1, TakenToken
    <3>2. p.at = at[TokenOf(s, i)] /\ e \in Entries
      BY <2>1, <3>1
    <3>3. e.at = p.at
      OBVIOUS
    <3> QED BY <3>2, <3>3
  <2>3. /\ Rescheduled(s, at)[TokenOf(s, i)] = p
        /\ DOMAIN Rescheduled(s, at) = session[s].stmt.tokens
    BY <2>1 DEF Rescheduled
  <2> HIDE DEF p
  <2>4. ValidateInstant(e.at)
    BY <2>1, <2>2, <2>3 DEF Snooze, AllStorable
  <2>5. jobs'[i] = SnoozeRow(jobs[i], e)
    BY <1>1, <2>1, <2>3
  <2> HIDE DEF e
  <2> QED BY <2>1, <2>2, <2>4, <2>5, LaterRowGood
<1> QED BY <1>1, <1>2, SettleMoves

\* The requests of a batch are numbered by the IDs drawn for them.
LEMMA RankOf ==
    ASSUME NEW ids, IsFiniteSet(ids), ids \subseteq Nat, NEW i \in ids
    PROVE  Cardinality({j \in ids : j <= i}) \in 1..Cardinality(ids)
<1> DEFINE S == {j \in ids : j <= i}
<1>1. S \subseteq ids /\ S # {}
  <2>1. i \in S
    OBVIOUS
  <2> QED BY <2>1
<1> HIDE DEF S
<1>2. IsFiniteSet(S) /\ Cardinality(S) <= Cardinality(ids)
  BY <1>1, FS_Subset
<1>3. Cardinality(S) \in Nat /\ Cardinality(ids) \in Nat /\ Cardinality(S) # 0
  BY <1>1, <1>2, FS_CardinalityType, FS_EmptySet
<1>4. Cardinality(S) \in 1..Cardinality(ids)
  BY <1>2, <1>3
<1> QED BY <1>4 DEF S

\* Enqueue keeps the jobs there are and gives birth to others.
LEMMA EnqueueMoves ==
    ASSUME PInv, NEW s \in Sessions, NEW now \in Clock,
           NEW reqs \in Memory!BatchesOf(Memory!Requests), Enqueue(s, reqs, now)
    PROVE  CommitMoves(s)
<1> DEFINE ids == TakenIds(s)
           rank(i) == Cardinality({j \in ids : j <= i})
<1>1. /\ jobs' = [i \in DOMAIN jobs \union ids |->
                     IF i \in ids THEN NewRow(reqs[rank(i)], now) ELSE jobs[i]]
      /\ born' = born \union ids
      /\ Commits(s, "enqueue") /\ UNCHANGED <<nextID, claims, settled>>
      /\ session[s].stmt.op = "enqueue"
      /\ Len(reqs) = Cardinality(ids) /\ Accepted(reqs, now)
  BY DEF Enqueue, Commits
<1>2. ids \subseteq (1..nextID) \ born /\ nextID \in Nat /\ DOMAIN jobs \subseteq born
  BY <1>1, BoundsAssumption DEF PInv, SessionsOK, Reliable, TakenIds, Rows
<1>3. IsFiniteSet(ids) /\ ids \subseteq Nat
  <2>1. IsFiniteSet(1..nextID)
    BY <1>2, FS_Interval
  <2> QED BY <1>2, <2>1, FS_Subset
<1>4. \A i \in ids : rank(i) \in DOMAIN reqs /\ reqs[rank(i)] \in Memory!Requests
  <2>1. PICK n \in 1..MaxBatch : reqs \in [1..n -> Memory!Requests]
    BY DEF Memory!BatchesOf
  <2>2. Len(reqs) = n /\ DOMAIN reqs = 1..n
    BY <2>1, BoundsAssumption
  <2>3. \A i \in ids : rank(i) \in 1..Cardinality(ids)
    BY <1>3, RankOf
  <2> QED BY <1>1, <2>1, <2>2, <2>3
<1> HIDE DEF ids, rank
<1>5. ASSUME NEW i \in ids
      PROVE  /\ i \in DOMAIN jobs' /\ i \notin born /\ RowGood(jobs'[i])
             /\ jobs'[i].generation = 0 /\ Phase(jobs'[i]) = "waiting"
  <2>1. jobs'[i] = NewRow(reqs[rank(i)], now)
    BY <1>1
  <2>2. reqs[rank(i)] \in Memory!Requests
        /\ SubStorable(StartAt(reqs[rank(i)], now), reqs[rank(i)].boost)
    BY <1>1, <1>4 DEF Accepted
  <2>3. /\ RowGood(jobs'[i]) /\ jobs'[i].generation = 0
        /\ jobs'[i].state \in {Scheduled, Available}
    BY <2>1, <2>2, NewRowGood
  <2>4. Phase(jobs'[i]) = "waiting"
    BY <2>3, Phases
  <2> QED BY <1>1, <1>2, <2>3, <2>4
<1>6. DOMAIN jobs' = DOMAIN jobs \union ids
      /\ \A i \in DOMAIN jobs : i \notin ids => jobs'[i] = jobs[i]
  BY <1>1
<1>7. \A i : SameHistory(i)
  BY <1>1, SameClaims DEF SameHistory
<1>8. \A i \in JobIds : Moved(i)
  <2> SUFFICES ASSUME NEW i \in JobIds PROVE Moved(i)
    OBVIOUS
  <2>1. CASE i \in ids
    BY <1>5, <1>7, <2>1 DEF Moved, Born
  <2>2. CASE i \notin ids
    BY <1>1, <1>6, <1>7, <2>2 DEF Moved, Kept, Stays
  <2> QED BY <2>1, <2>2
<1>9. \A i : i \notin ids => Untouched(i)
  BY <1>6 DEF Untouched
<1>10. \A i \in DOMAIN jobs' : RowGood(jobs'[i])
  BY <1>5, <1>6, RowsThere
<1>11. /\ jobs' = [i \in DOMAIN jobs' |-> jobs'[i]] /\ DOMAIN jobs' \subseteq born'
       /\ settled' \in [JobIds -> Seq(Nat)]
       /\ claims' \subseteq Memory!Claims /\ IsFiniteSet(claims')
  BY <1>1, <1>2, <1>6 DEF PInv, Rows, ClaimsOK
<1> QED BY <1>1, <1>8, <1>9, <1>10, <1>11 DEF CommitMoves, Commits, ids

-----------------------------------------------------------------------------
(* Every step.                                                             *)

\* A step that leaves the tables alone keeps every job.
LEMMA TablesKept ==
    UNCHANGED <<jobs, claims, settled, born>> => \A i \in JobIds : Moved(i)
  BY SameClaims DEF Moved, Kept, SameHistory, Stays

\* Every step keeps the invariant and moves every job.
LEMMA StepMoves ==
    ASSUME PInv, [Next]_vars
    PROVE  PInv' /\ \A i \in JobIds : Moved(i)
<1>1. ASSUME NEW s \in Sessions, CommitMoves(s)
      PROVE  PInv' /\ \A i \in JobIds : Moved(i)
  BY <1>1, CommitKeeps DEF CommitMoves
<1>2. ASSUME NEW s \in Sessions, NEW now \in Clock, BeginSweep(s, now)
      PROVE  PInv' /\ \A i \in JobIds : Moved(i)
  <2>1. ASSUME NEW stmt, Begin(s, stmt), stmt.now = now,
               stmt.op \in {"fetch", "moveDue", "rescueStale", "clean"}
        PROVE  PInv' /\ \A i \in JobIds : Moved(i)
    <3>1. Sweeps(stmt) /\ stmt.op \in Statements
      BY <2>1 DEF Sweeps, Statements
    <3>2. PInv'
      BY <2>1, <3>1, BeginKeeps
    <3> QED BY <2>1, <3>2, TablesKept DEF Begin
  <2>2. PICK limit \in Limits :
           \/ \E q \in Queues : Begin(s, [op |-> "fetch", queue |-> q, now |-> now,
                                          limit |-> limit])
           \/ \E op \in {"moveDue", "rescueStale", "clean"} :
                 Begin(s, [op |-> op, now |-> now, limit |-> limit])
    BY <1>2 DEF BeginSweep
  <2>3. ASSUME NEW q \in Queues,
               Begin(s, [op |-> "fetch", queue |-> q, now |-> now, limit |-> limit])
        PROVE  PInv' /\ \A i \in JobIds : Moved(i)
    <3> DEFINE stmt == [op |-> "fetch", queue |-> q, now |-> now, limit |-> limit]
    <3>1. Begin(s, stmt) /\ stmt.now = now /\ stmt.op = "fetch"
      BY <2>3
    <3> HIDE DEF stmt
    <3> QED BY <2>1, <3>1
  <2>4. ASSUME NEW op \in {"moveDue", "rescueStale", "clean"},
               Begin(s, [op |-> op, now |-> now, limit |-> limit])
        PROVE  PInv' /\ \A i \in JobIds : Moved(i)
    <3> DEFINE stmt == [op |-> op, now |-> now, limit |-> limit]
    <3>1. Begin(s, stmt) /\ stmt.now = now /\ stmt.op = op
      BY <2>4
    <3> HIDE DEF stmt
    <3> QED BY <2>1, <3>1
  <2> QED BY <2>2, <2>3, <2>4
<1>3. ASSUME NEW s \in Sessions, BeginFenced(s)
      PROVE  PInv' /\ \A i \in JobIds : Moved(i)
  <2>1. PICK stmt : Begin(s, stmt) /\ stmt.op = "fenced" /\ stmt.tokens \subseteq claims
    BY <1>3 DEF BeginFenced
  <2>2. stmt.op \in Statements
    BY <2>1 DEF Statements
  <2>3. PInv'
    BY <2>1, <2>2, BeginKeeps
  <2> QED BY <2>1, <2>3, TablesKept DEF Begin
<1>4. ASSUME NEW s \in Sessions, SkipLocked(s) \/ LockNext(s) \/ Abort(s) \/ NextVal(s)
      PROVE  PInv' /\ \A i \in JobIds : Moved(i)
  <2>1. PInv'
    BY <1>4, SkipLockedKeeps, LockNextKeeps, AbortKeeps, NextValKeeps
  <2>2. UNCHANGED <<jobs, claims, settled, born>>
    BY <1>4 DEF SkipLocked, LockNext, Abort, NextVal
  <2> QED BY <2>1, <2>2, TablesKept
<1>5. ASSUME NEW s \in Sessions, Fetch(s) \/ MoveDue(s) \/ RescueStale(s) \/ Clean(s)
      PROVE  PInv' /\ \A i \in JobIds : Moved(i)
  BY <1>1, <1>5, FetchMoves, MoveDueMoves, RescueMoves, CleanMoves
<1>6. ASSUME NEW s \in Sessions, CommitFenced(s)
      PROVE  PInv' /\ \A i \in JobIds : Moved(i)
  <2>1. CommitMoves(s)
    BY <1>6, CompleteMoves, KillMoves, CancelMoves, HeartbeatMoves, RetryMoves, SnoozeMoves
       DEF CommitFenced
  <2> QED BY <1>1, <2>1
<1>7. ASSUME NEW s \in Sessions, NEW now \in Clock,
             NEW reqs \in Memory!BatchesOf(Memory!Requests), Enqueue(s, reqs, now)
      PROVE  PInv' /\ \A i \in JobIds : Moved(i)
  BY <1>1, <1>7, EnqueueMoves
<1>8. CASE UNCHANGED vars
  <2>1. UNCHANGED <<tables, session>> /\ UNCHANGED <<jobs, claims, settled, born>>
    BY <1>8 DEF vars, tables
  <2>2. SessionsOK'
    <3>1. \A y : Reliable(y) <=> Reliable(y)'
      BY <2>1 DEF tables, Reliable, Qualifies, Live, Claimable, Due, Stale, Expired
    <3> QED BY <2>1, <3>1 DEF PInv, SessionsOK, TakenIds
  <2>3. PInv'
    BY <2>1, <2>2 DEF PInv, Rows, ClaimsOK, tables, Memory!Generations
  <2> QED BY <2>1, <2>3, TablesKept
<1> QED BY <1>2, <1>3, <1>4, <1>5, <1>6, <1>7, <1>8 DEF Next

\* The invariant holds.
LEMMA Invariance == Spec => []PInv
<1>1. Init => PInv
  <2> SUFFICES ASSUME Init PROVE PInv
    OBVIOUS
  <2>1. Rows
    BY BoundsAssumption DEF Init, Rows, EmptyStore
  <2>2. ClaimsOK
    BY FS_EmptySet DEF Init, ClaimsOK, EmptyStore
  <2>3. SessionsOK
    <3>1. Reliable(Idle) /\ Idle.locked = {} /\ Idle.stmt.op # "enqueue"
      BY DEF Reliable, Idle, Statements, Sweeps
    <3> QED BY <3>1 DEF Init, SessionsOK
  <2> QED BY <2>1, <2>2, <2>3 DEF PInv
<1>2. PInv /\ [Next]_vars => PInv'
  BY StepMoves
<1> QED BY <1>1, <1>2, PTL DEF Spec

-----------------------------------------------------------------------------
(* The theorems.                                                           *)

\* The rows are well-formed, locks are disjoint, and a statement takes only rows
\* it has locked, or IDs nobody else has, for any number of sessions.
THEOREM RowsAndLocks == Spec => []TypeOK
<1>1. PInv => TypeOK
  <2> SUFFICES ASSUME PInv PROVE TypeOK
    OBVIOUS
  <2>1. Memory!TypeOK
    <3>1. Memory!JobRow = JobRow
      BY DEF Memory!JobRow, JobRow, Memory!States, States, Memory!TerminalStates,
             Memory!Scheduled, Memory!Available, Memory!Running, Memory!Retryable,
             Memory!Completed, Memory!Cancelled, Memory!Dead, Memory!Duration, Duration,
             Memory!Instant, Instant, Memory!NoTime, NoTime
    <3>2. Memory!JobIds = JobIds
      BY DEF Memory!JobIds, JobIds
    <3>3. jobs \in [DOMAIN jobs -> JobRow] /\ DOMAIN jobs \subseteq 1..nextID
      BY RowsThere DEF PInv, Rows
    <3> QED BY <3>1, <3>2, <3>3 DEF PInv, Rows, ClaimsOK, Memory!TypeOK
  <2>2. ASSUME NEW s \in Sessions
        PROVE  /\ session[s].stmt.op \in Statements
               /\ session[s].locked \subseteq DOMAIN jobs
               /\ TakenIds(s) \subseteq IF session[s].stmt.op = "enqueue"
                                        THEN 1..nextID \ born ELSE session[s].locked
    BY DEF PInv, SessionsOK, Reliable, TakenIds
  <2> QED BY <2>1, <2>2 DEF TypeOK, Statements, PInv, Rows, SessionsOK
<1> QED BY <1>1, Invariance, PTL

\* What a statement reports is true when it commits, whatever other sessions
\* committed since its snapshot (backend.go:427, finalize.go:178-189).
THEOREM RepliesHold == Spec => []RepliesAreTrue
<1>1. PInv => RepliesAreTrue
  <2> SUFFICES ASSUME PInv, NEW s \in Sessions
               PROVE  /\ session[s].stmt.op # "enqueue" =>
                            \A r \in session[s].taken : Qualifies(session[s].stmt, r)
                      /\ session[s].stmt.op = "fenced" /\ session[s].todo = << >> =>
                            \A t \in session[s].stmt.tokens \ session[s].taken :
                               ~Live(jobs, t)
    BY DEF RepliesAreTrue
  <2>1. Reliable(session[s])
    BY DEF PInv, SessionsOK
  <2>2. session[s].todo = << >> => ~ \E n \in DOMAIN session[s].todo : TRUE
    OBVIOUS
  <2> QED BY <2>1, <2>2 DEF Reliable
<1> QED BY <1>1, Invariance, PTL

\* A holder that a step leaves running keeps its generation, and one that loses
\* its job was answered or silent.
LEMMA HolderMoves ==
    ASSUME PInv, NEW i \in DOMAIN jobs, jobs[i].state = Running, Moved(i)
    PROVE  \/ /\ i \in DOMAIN jobs' /\ jobs'[i].state = Running
              /\ jobs'[i].generation = jobs[i].generation
           \/ settled'[i] = Append(settled[i], jobs[i].generation)
           \/ \E now \in Clock : i \in Stale(jobs, now, TTL)
<1>1. Phase(jobs[i]) = "held"
  BY Phases
<1>2. CASE Kept(i)
  BY <1>1, <1>2, Phases DEF Kept, Stays
<1>3. CASE Born(i)
  BY <1>3, RowsThere DEF Born
<1>4. CASE Answered(i) \/ Rescued(i)
  BY <1>4 DEF Answered, Rescued
<1>5. CASE Handed(i) \/ Removed(i)
  BY <1>1, <1>5 DEF Handed, Removed
<1> QED BY <1>2, <1>3, <1>4, <1>5 DEF Moved

\* A running attempt is taken from its holder only by an outcome of its own
\* generation, or by a rescuer its last committed heartbeat is too old for
\* (fetch.go:13-28, maintain.go:28-42).
THEOREM HoldersLoseOnlyToSilence == Spec => HolderLosesOnlyToSilence
<1>1. PInv /\ [Next]_vars
        => [\A i \in DOMAIN jobs : jobs[i].state = Running =>
              \/ /\ i \in DOMAIN jobs'
                 /\ jobs'[i].state = Running
                 /\ jobs'[i].generation = jobs[i].generation
              \/ settled'[i] = Append(settled[i], jobs[i].generation)
              \/ \E now \in Clock : i \in Stale(jobs, now, TTL)]_vars
  BY StepMoves, HolderMoves, RowsThere
<1> QED BY <1>1, Invariance, PTL DEF Spec, HolderLosesOnlyToSilence

-----------------------------------------------------------------------------
(* The contract.                                                           *)

\* The greatest member of a set is unique.
LEMMA GreatestIs ==
    ASSUME NEW S \in SUBSET Nat, NEW g \in S, \A h \in S : h <= g
    PROVE  Memory!Greatest(S) = g
<1>1. Memory!Greatest(S) \in S /\ \A h \in S : h <= Memory!Greatest(S)
  BY Zenon DEF Memory!Greatest
<1>2. /\ Memory!Greatest(S) <= g /\ g <= Memory!Greatest(S)
      /\ Memory!Greatest(S) \in Nat /\ g \in Nat
  BY <1>1
<1> QED BY <1>2

\* The youngest claim of a job that is there has its row's generation.
LEMMA YoungestIsRow ==
    PInv => \A i \in DOMAIN jobs : Memory!Youngest(i) = jobs[i].generation
<1> SUFFICES ASSUME PInv, NEW i \in DOMAIN jobs
             PROVE  Memory!Youngest(i) = jobs[i].generation
  OBVIOUS
<1>1. Memory!Generations(i) \in SUBSET Nat /\ jobs[i].generation \in Memory!Generations(i)
  BY DEF PInv, ClaimsOK, Memory!Generations, Memory!Claims
<1>2. \A h \in Memory!Generations(i) : h <= jobs[i].generation
  BY RowsThere DEF PInv, ClaimsOK, Memory!Generations
<1> QED BY <1>1, <1>2, GreatestIs DEF Memory!Youngest

\* And has it after a step that keeps the invariant.
LEMMA YoungestStaysRow ==
    PInv' => \A i \in DOMAIN jobs' : Memory!Youngest(i)' = jobs'[i].generation
<1>1. (PInv => \A i \in DOMAIN jobs : Memory!Youngest(i) = jobs[i].generation)'
  BY YoungestIsRow, PTL
<1> QED BY <1>1

\* Each move of a job is a move of its life, or none.
LEMMA LifeMoves ==
    ASSUME PInv, PInv', NEW i \in JobIds, Moved(i)
    PROVE  LifeOf(i)' \in {LifeOf(i)} \union Contract!Moves(LifeOf(i))
<1> DEFINE l == LifeOf(i)
<1>1. /\ DOMAIN jobs \subseteq born /\ DOMAIN jobs' \subseteq born'
      /\ i \in DOMAIN jobs => Memory!Youngest(i) = jobs[i].generation /\ jobs[i].generation \in Nat
  BY YoungestIsRow, RowsThere DEF PInv, Rows
<1>2. i \in DOMAIN jobs' => Memory!Youngest(i)' = jobs'[i].generation
  BY YoungestStaysRow
<1>3. Generations(i)' = Generations(i) => Memory!Youngest(i)' = Memory!Youngest(i)
  BY DEF Generations, Memory!Youngest
<1>4. /\ i \in DOMAIN jobs =>
            l = [phase |-> Phase(jobs[i]), generation |-> jobs[i].generation,
                 outcomes |-> settled[i]]
      /\ i \in DOMAIN jobs' =>
            LifeOf(i)' = [phase |-> Phase(jobs'[i]), generation |-> jobs'[i].generation,
                          outcomes |-> settled'[i]]
      /\ i \notin DOMAIN jobs =>
            l = [phase |-> IF i \in born THEN "gone" ELSE "unborn",
                 generation |-> Memory!Youngest(i), outcomes |-> settled[i]]
      /\ i \notin DOMAIN jobs' =>
            LifeOf(i)' = [phase |-> IF i \in born' THEN "gone" ELSE "unborn",
                          generation |-> Memory!Youngest(i)', outcomes |-> settled'[i]]
  BY <1>1, <1>2 DEF LifeOf, Phase
<1>5. CASE Kept(i)
  <2>1. LifeOf(i)' = LifeOf(i)
    BY <1>3, <1>4, <1>5 DEF Kept, SameHistory, Stays
  <2> QED BY <2>1
<1>6. CASE Born(i)
  <2>1. /\ l = [phase |-> "unborn", generation |-> Memory!Youngest(i), outcomes |-> settled[i]]
        /\ LifeOf(i)' = [phase |-> "waiting", generation |-> Memory!Youngest(i),
                          outcomes |-> settled[i]]
    BY <1>1, <1>2, <1>3, <1>4, <1>6 DEF Born, SameHistory
  <2>2. l.phase = "unborn" /\ LifeOf(i)' = Contract!Submitted(l)
    BY <2>1 DEF Contract!Submitted
  <2> QED BY <2>2 DEF Contract!Moves
<1>7. CASE Handed(i)
  <2>1. \A p, o : \A g \in Nat :
           Contract!Granted([phase |-> p, generation |-> g, outcomes |-> o])
             = [phase |-> "held", generation |-> g + 1, outcomes |-> o]
    <3> SUFFICES ASSUME NEW p, NEW o, NEW g \in Nat
                 PROVE  Contract!Granted([phase |-> p, generation |-> g, outcomes |-> o])
                          = [phase |-> "held", generation |-> g + 1, outcomes |-> o]
      OBVIOUS
    <3> DEFINE r == [phase |-> p, generation |-> g, outcomes |-> o]
    <3>1. Contract!Granted(r) = [r EXCEPT !.phase = "held", !.generation = g + 1]
      BY DEF Contract!Granted
    <3> QED BY <3>1
  <2>2. l.phase = "waiting" /\ LifeOf(i)' = Contract!Granted(l)
    BY <1>1, <1>4, <1>7, <2>1, Phases DEF Handed, Stays
  <2> QED BY <2>2 DEF Contract!Moves
<1>8. CASE Answered(i)
  <2>1. \A p, q, g, o :
           Contract!Settled([phase |-> p, generation |-> g, outcomes |-> o], q)
             = [phase |-> q, generation |-> g, outcomes |-> Append(o, g)]
    <3> SUFFICES ASSUME NEW p, NEW q, NEW g, NEW o
                 PROVE  Contract!Settled([phase |-> p, generation |-> g, outcomes |-> o], q)
                          = [phase |-> q, generation |-> g, outcomes |-> Append(o, g)]
      OBVIOUS
    <3> DEFINE r == [phase |-> p, generation |-> g, outcomes |-> o]
    <3>1. Contract!Settled(r, q) = [r EXCEPT !.phase = q, !.outcomes = Append(o, g)]
      BY DEF Contract!Settled
    <3> QED BY <3>1
  <2>2. /\ l.phase = "held" /\ Phase(jobs'[i]) \in {"waiting", "finished"}
        /\ LifeOf(i)' = Contract!Settled(l, Phase(jobs'[i]))
    BY <1>4, <1>8, <2>1, Phases DEF Answered, Stays
  <2> QED BY <2>2 DEF Contract!Moves
<1>9. CASE Rescued(i)
  <2>1. l.phase = "held" /\ LifeOf(i)' = Contract!Revoked(l)
    BY <1>4, <1>9, Phases DEF Rescued, SameHistory, Stays, Contract!Revoked
  <2> QED BY <2>1 DEF Contract!Moves
<1>10. CASE Removed(i)
  <2>1. l.phase = "finished" /\ LifeOf(i)' = Contract!Discarded(l)
    BY <1>1, <1>3, <1>4, <1>10 DEF Removed, SameHistory, Contract!Discarded
  <2> QED BY <2>1 DEF Contract!Moves
<1> QED BY <1>5, <1>6, <1>7, <1>8, <1>9, <1>10 DEF Moved

\* Overlapping statements keep the contract of JobLifecycle, for any number of
\* sessions, jobs and claims, whichever of them fail.
THEOREM ContractIsKept == Spec => ImplementsContract
<1>1. Init => Contract!Init
  <2> SUFFICES ASSUME Init, NEW i \in JobIds
               PROVE  LifeOf(i) = Contract!Unborn
    BY Zenon DEF Contract!Init
  <2>1. i \notin DOMAIN jobs /\ i \notin born /\ settled[i] = << >>
    BY DEF Init, EmptyStore
  <2>2. Memory!Generations(i) = {0}
    BY DEF Init, Memory!Generations
  <2>3. Memory!Youngest(i) = 0
    BY <2>2, GreatestIs DEF Memory!Youngest
  <2> QED BY <2>1, <2>3 DEF LifeOf, Contract!Unborn
<1>2. PInv /\ PInv' /\ [Next]_vars => [Contract!Next]_([i \in JobIds |-> LifeOf(i)])
  <2> SUFFICES ASSUME PInv, PInv', [Next]_vars PROVE Contract!Next
    OBVIOUS
  <2>1. \A i \in JobIds : LifeOf(i)' \in {LifeOf(i)} \union Contract!Moves(LifeOf(i))
    BY StepMoves, LifeMoves
  <2>2. Contract!Operate
    BY <2>1 DEF Contract!Operate
  <2> QED BY <2>2 DEF Contract!Next
<1> QED BY <1>1, <1>2, Invariance, PTL DEF Spec, ImplementsContract, Contract!Spec

-----------------------------------------------------------------------------
(* What the contract gives its user.                                       *)

Promise == INSTANCE JobLifecycleProofs WITH Ids  <- JobIds,
                                            life <- [i \in JobIds |-> LifeOf(i)]

\* So whatever the overlap, the sweeps and the rescuer do, each claim ends with one
\* outcome at most, in the order of the claims, and a job finishes with the outcome
\* of its last one (finalize.go:14-25, the generation a finalization quotes).
THEOREM OutcomesOnce == Spec => []Contract!OncePerClaim
<1>1. Contract!Init => Promise!Init
  BY Zenon DEF Contract!Init, Contract!Unborn, Promise!Init, Promise!Unborn
<1>2. Contract!Next => Promise!Next
  BY Zenon DEF Contract!Next, Contract!Operate, Contract!Wipe, Contract!Moves,
       Contract!Submitted, Contract!Granted, Contract!Settled, Contract!Revoked,
       Contract!Discarded, Promise!Next, Promise!Operate, Promise!Wipe, Promise!Moves,
       Promise!Submitted, Promise!Granted, Promise!Settled, Promise!Revoked,
       Promise!Discarded
<1>3. Promise!OncePerClaim => Contract!OncePerClaim
  BY Zenon DEF Contract!OncePerClaim, Promise!OncePerClaim
<1> QED BY <1>1, <1>2, <1>3, Promise!EachClaimOnce, ContractIsKept, PTL
        DEF ImplementsContract, Contract!Spec, Promise!Spec
=============================================================================
