---------------------------- MODULE WorkerProofs ----------------------------
(***************************************************************************)
(* Proofs about WorkerSystem, for any number of clients, jobs, crashes and *)
(* faults.                                                                 *)
(*                                                                         *)
(* The argument.  RowOK says what holds of a row whoever works it, ExecOK  *)
(* and OpOK what the executions and operations know of their rows, Apart   *)
(* that they are distinct claims.  A step changes rows in ways that no     *)
(* stale hand can take for its own (Keeps), and passes a claim on from one *)
(* hand to the next.  The last part adds a history variable, the outcomes  *)
(* recorded, and shows that clients and store together keep the contract   *)
(* of JobLifecycle.                                                        *)
(***************************************************************************)
EXTENDS WorkerSystem, TLAPS

USE DEF Scheduled, Available, Running, Retryable, Completed, Cancelled, Dead,
        TerminalStates

\* The instants a row can hold: none is further in the past than the horizon.
When == Horizon..MaxInstant

WorkRow ==
    [queue : Queues, boost : {0}, state : States, scheduledAt : When, priorityAt : When,
     attempt : Nat, generation : Nat, heartbeatAt : When \union {NoTime},
     finalizedAt : When \union {NoTime}, cancelRequested : BOOLEAN, snoozes : Nat,
     errors : Seq(Int)]

\* A row that waits has attempts left, counting those its rescues gave it.
RowOK(row, rescued) ==
    /\ row \in WorkRow
    /\ row.attempt + row.snoozes = row.generation
    /\ row.state = Running => row.attempt >= 1
    /\ row.attempt <= MaxAttempts + rescued
    /\ row.state \in {Scheduled, Available, Retryable} => row.attempt < MaxAttempts + rescued

StoreOK(S, R) == /\ S = [i \in Jobs |-> S[i]]
                 /\ R \in [Jobs -> Nat]
                 /\ \A i \in Jobs : RowOK(S[i], R[i])

ExecOK(e, S) ==
    /\ e \in Executions
    /\ e.phase = "returned" => e.result # "none"
    /\ e.generation <= S[e.id].generation
    /\ Live(S, e) => e.attempt = S[e.id].attempt /\ e.snoozes = S[e.id].snoozes

OpOK(o, S) ==
    /\ o \in Operations
    /\ o.at = RetryDelay
    /\ o.kind = "retry" => o.attempt < MaxAttempts
    /\ o.generation <= S[o.id].generation
    /\ Live(S, o) =>
          /\ o.attempt = S[o.id].attempt
          /\ o.snoozes = S[o.id].snoozes + (IF o.kind = "snooze" THEN 1 ELSE 0)

Apart(E, O) ==
    /\ \A x, y \in E : Token(x) = Token(y) => x = y
    /\ \A x, y \in O : Token(x) = Token(y) => x = y
    /\ \A x \in E : \A y \in O : Token(x) # Token(y)

Hands(E, O, S) == /\ \A e \in E : ExecOK(e, S)
                  /\ \A o \in O : OpOK(o, S)
                  /\ Apart(E, O)

LoopsOK ==
    /\ active = [c \in Clients |-> active[c]]
    /\ \A c \in Clients : /\ active[c] \in [DOMAIN active[c] -> Nat]
                          /\ DOMAIN active[c] \subseteq Jobs
    /\ failures \in [Clients -> 0..2]
    /\ beat \in [Clients -> BeatPhases]

WorkInv == StoreOK(jobs, rescues) /\ Hands(execs, ops, jobs) /\ LoopsOK

\* A change of a row after which no hand is live that was not, and none that is
\* finds it changed.
Keeps(old, new) ==
    /\ new.generation >= old.generation
    /\ new.state = Running =>
          \/ new.generation > old.generation
          \/ /\ old.state = Running
             /\ new.generation = old.generation
             /\ new.attempt = old.attempt
             /\ new.snoozes = old.snoozes

-----------------------------------------------------------------------------
(* Rows.                                                                   *)

\* The constants, in numbers.
LEMMA Numbers ==
    /\ MaxAttempts \in Nat /\ MaxAttempts >= 1 /\ RetryDelay \in When /\ 0 \in When
    /\ Horizon \in Int /\ MaxInstant \in Nat /\ MinInstant \in Int
    /\ MinInstant <= Horizon /\ Horizon < 0 /\ NoTime < Horizon /\ NoTime \in Int
    /\ When \subseteq Instant
  BY AttemptsAssumption, TTLAssumption, DelayAssumption, RangeAssumption, InstantRange
     DEF When, Horizon, NoTime, Instant

\* Without a boost a job's priority is its start.
LEMMA NoBoost == \A t \in When : SubDurationClamped(t, 0) = t /\ SubDuration(t, 0) = t
  BY Numbers, InstantRange DEF SubDurationClamped, SubDuration, Clamp, Wrap, When

\* A new row.
LEMMA FreshRowOK == RowOK(FreshRow, 0)
<1>1. FreshRow = [queue |-> Queue, boost |-> 0, state |-> Available, scheduledAt |-> 0,
                  priorityAt |-> 0, attempt |-> 0, generation |-> 0, heartbeatAt |-> NoTime,
                  finalizedAt |-> NoTime, cancelRequested |-> FALSE, snoozes |-> 0,
                  errors |-> << >>]
  <2> DEFINE req == [queue |-> Queue, boost |-> 0, at |-> NoTime]
  <2>1. StartAt(req, Now) = 0 /\ req.boost = 0 /\ req.queue = Queue
    BY DEF StartAt, Now
  <2>2. SubDuration(0, 0) = 0
    BY NoBoost, Numbers
  <2>3. FreshRow = NewRow(req, Now)
    BY DEF FreshRow
  <2> HIDE DEF req
  <2>4. ~(StartAt(req, Now) > Now)
    BY <2>1 DEF Now
  <2> QED BY <2>1, <2>2, <2>3, <2>4 DEF NewRow
<1>2. << >> \in Seq(Int)
  OBVIOUS
<1> QED BY <1>1, <1>2, Numbers, QueueAssumption DEF RowOK, WorkRow, States

\* A claim.
LEMMA ClaimRowOK ==
    ASSUME NEW row, NEW n \in Nat, RowOK(row, n), row.state = Available
    PROVE  /\ RowOK(ClaimRow(row, Now), n) /\ Keeps(row, ClaimRow(row, Now))
           /\ ClaimRow(row, Now).generation = row.generation + 1
<1> DEFINE new == ClaimRow(row, Now)
<1>1. row \in WorkRow /\ row.attempt \in Nat /\ row.generation \in Nat /\ row.snoozes \in Nat
  BY DEF RowOK, WorkRow
<1>2. new \in WorkRow
  <2>1. \A a \in Nat, g \in Nat :
           [row EXCEPT !.state = Running, !.attempt = a, !.generation = g,
                       !.heartbeatAt = 0] \in WorkRow
    BY <1>1, Numbers DEF WorkRow, States
  <2>2. row.attempt + 1 \in Nat /\ row.generation + 1 \in Nat
    BY <1>1
  <2> QED BY <2>1, <2>2 DEF ClaimRow, Now
<1>3. /\ new.state = Running /\ new.attempt = row.attempt + 1
      /\ new.generation = row.generation + 1 /\ new.snoozes = row.snoozes
  BY <1>1 DEF WorkRow, ClaimRow
<1> HIDE DEF new
<1> QED BY <1>1, <1>2, <1>3, Numbers DEF RowOK, Keeps, new

\* What rescheduling writes keeps the types.
LEMMA RetryRowTyped ==
    ASSUME NEW row \in WorkRow, NEW at \in When, NEW n \in Nat, NEW errors \in Seq(Int),
           NEW new,
           new = [row EXCEPT !.state = Retryable, !.scheduledAt = at, !.priorityAt = at,
                             !.finalizedAt = NoTime, !.errors = errors, !.snoozes = n]
    PROVE  new \in WorkRow
<1>1. Retryable \in States /\ NoTime \in When \union {NoTime}
  BY DEF States
<1> QED BY <1>1 DEF WorkRow

\* And what a snooze writes.
LEMMA SnoozeRowTyped ==
    ASSUME NEW row \in WorkRow, NEW at \in When, NEW n \in Nat, NEW a \in Nat, NEW new,
           new = [row EXCEPT !.state = Retryable, !.attempt = a, !.scheduledAt = at,
                             !.priorityAt = at, !.finalizedAt = NoTime, !.snoozes = n]
    PROVE  new \in WorkRow
<1>1. Retryable \in States /\ NoTime \in When \union {NoTime}
  BY DEF States
<1> QED BY <1>1 DEF WorkRow

\* The outcome of the attempt in flight, by whoever holds it.
LEMMA ApplyOK ==
    ASSUME NEW S, NEW o, OpOK(o, S), Live(S, o), NEW n \in Nat, RowOK(S[o.id], n)
    PROVE  RowOK(Apply(S[o.id], o), n) /\ Keeps(S[o.id], Apply(S[o.id], o))
<1> DEFINE row == S[o.id]
           new == Apply(row, o)
<1>1. /\ row \in WorkRow /\ row.attempt \in Nat /\ row.generation \in Nat /\ row.snoozes \in Nat
      /\ row.errors \in Seq(Int) /\ row.boost = 0 /\ row.state = Running
  BY DEF RowOK, WorkRow, Live
<1>2. /\ o.kind \in {"complete", "cancel", "kill", "retry", "snooze"}
      /\ o.attempt = row.attempt /\ o.at = RetryDelay /\ o.snoozes \in Nat
      /\ o.kind = "retry" => o.attempt < MaxAttempts
      /\ o.snoozes = row.snoozes + (IF o.kind = "snooze" THEN 1 ELSE 0)
  BY DEF OpOK, Operations
<1>3. /\ row.attempt >= 1 /\ row.attempt + row.snoozes = row.generation
      /\ row.attempt <= MaxAttempts + n
  BY <1>1 DEF RowOK
<1>4. Append(row.errors, row.attempt) \in Seq(Int)
  BY <1>1
<1>5. SubDurationClamped(o.at, row.boost) = RetryDelay /\ RetryDelay \in When
  BY <1>1, <1>2, NoBoost, Numbers
<1> HIDE DEF row
<1>6. /\ new \in WorkRow /\ new.generation = row.generation
      /\ new.state \in {Completed, Cancelled, Dead, Retryable}
      /\ new.state = Retryable => o.kind \in {"retry", "snooze"}
      /\ new.attempt = row.attempt - (IF o.kind = "snooze" THEN 1 ELSE 0)
      /\ new.snoozes = o.snoozes
  <2>1. CASE o.kind = "complete"
    <3>1. new = [row EXCEPT !.state = Completed, !.finalizedAt = 0, !.snoozes = o.snoozes]
      BY <2>1 DEF Apply, CompleteRow, Now
    <3>2. new \in WorkRow
      BY <1>1, <1>2, <3>1, Numbers DEF WorkRow, States
    <3> QED BY <1>1, <2>1, <3>1, <3>2 DEF WorkRow
  <2>2. CASE o.kind = "cancel"
    <3>1. o.message
      BY DEF OpOK, Operations
    <3>2. new = [row EXCEPT !.state = Cancelled, !.finalizedAt = 0,
                            !.errors = Append(row.errors, row.attempt),
                            !.snoozes = o.snoozes]
      BY <1>1, <2>2, <3>1 DEF Apply, CancelRow, Now, WorkRow
    <3>3. new \in WorkRow
      BY <1>1, <1>2, <1>4, <3>2, Numbers DEF WorkRow, States
    <3> QED BY <1>1, <2>2, <3>2, <3>3 DEF WorkRow
  <2>3. CASE o.kind = "kill"
    <3>1. new = [row EXCEPT !.state = Dead, !.finalizedAt = 0,
                            !.errors = Append(row.errors, row.attempt),
                            !.snoozes = o.snoozes]
      BY <1>1, <1>2, <2>3 DEF Apply, KillRow, Now, WorkRow
    <3>2. new \in WorkRow
      BY <1>1, <1>2, <1>4, <3>1, Numbers DEF WorkRow, States
    <3> QED BY <1>1, <2>3, <3>1, <3>2 DEF WorkRow
  <2>4. CASE o.kind = "retry"
    <3>1. new = [row EXCEPT !.state = Retryable, !.scheduledAt = RetryDelay,
                            !.priorityAt = RetryDelay, !.finalizedAt = NoTime,
                            !.errors = Append(row.errors, row.attempt),
                            !.snoozes = o.snoozes]
      BY <1>1, <1>2, <1>5, <2>4 DEF Apply, RetryRow, WorkRow
    <3> HIDE DEF new
    <3>2. new \in WorkRow
      BY <1>1, <1>2, <1>4, <1>5, <3>1, RetryRowTyped
    <3> QED BY <1>1, <2>4, <3>1, <3>2 DEF WorkRow
  <2>5. CASE o.kind = "snooze"
    <3>1. row.attempt - 1 \in Nat
      BY <1>1, <1>3
    <3>2. new = [row EXCEPT !.state = Retryable, !.attempt = row.attempt - 1,
                            !.scheduledAt = RetryDelay, !.priorityAt = RetryDelay,
                            !.finalizedAt = NoTime, !.snoozes = o.snoozes]
      BY <1>1, <1>2, <1>5, <2>5 DEF Apply, SnoozeRow, WorkRow
    <3> HIDE DEF new
    <3>3. new \in WorkRow
      BY <1>1, <1>2, <1>5, <3>1, <3>2, SnoozeRowTyped
    <3> QED BY <1>1, <2>5, <3>2, <3>3 DEF WorkRow
  <2> QED BY <1>2, <2>1, <2>2, <2>3, <2>4, <2>5
<1> HIDE DEF new
<1>7. RowOK(new, n)
  <2>1. CASE o.kind = "snooze"
    BY <1>1, <1>2, <1>3, <1>6, <2>1, Numbers DEF RowOK
  <2>2. CASE o.kind # "snooze"
    <3>1. new.attempt = row.attempt /\ new.snoozes = row.snoozes
      BY <1>1, <1>2, <1>6, <2>2
    <3> QED BY <1>1, <1>2, <1>3, <1>6, <2>2, <3>1, Numbers DEF RowOK
  <2> QED BY <2>1, <2>2
<1>8. Keeps(row, new)
  BY <1>1, <1>6 DEF Keeps
<1> QED BY <1>7, <1>8 DEF row, new

\* The mover.
LEMMA MovedRowOK ==
    ASSUME NEW row, NEW n \in Nat, RowOK(row, n), row.state \in {Scheduled, Retryable}
    PROVE  LET new == [row EXCEPT !.state = Available]
           IN  RowOK(new, n) /\ Keeps(row, new)
<1> DEFINE new == [row EXCEPT !.state = Available]
<1>1. row \in WorkRow
  BY DEF RowOK
<1>2. /\ new \in WorkRow /\ new.state = Available /\ new.attempt = row.attempt
      /\ new.generation = row.generation /\ new.snoozes = row.snoozes
  BY <1>1 DEF WorkRow, States
<1>3. row.generation \in Nat
  BY <1>1 DEF WorkRow
<1> HIDE DEF new
<1> QED BY <1>2, <1>3 DEF RowOK, Keeps, new

\* The rescuer, which grants an attempt.
LEMMA RescuedRowOK ==
    ASSUME NEW row, NEW n \in Nat, RowOK(row, n)
    PROVE  RowOK(RescueRow(row, Now), n + 1) /\ Keeps(row, RescueRow(row, Now))
<1> DEFINE new == RescueRow(row, Now)
<1>1. row \in WorkRow /\ row.boost = 0 /\ row.attempt \in Nat /\ row.generation \in Nat
  BY DEF RowOK, WorkRow
<1>2. SubDurationClamped(Now, row.boost) = 0
  BY <1>1, NoBoost, Numbers DEF Now
<1>3. /\ new \in WorkRow /\ new.state = Retryable /\ new.attempt = row.attempt
      /\ new.generation = row.generation /\ new.snoozes = row.snoozes
  BY <1>1, <1>2, Numbers DEF WorkRow, States, RescueRow, Now
<1> HIDE DEF new
<1> QED BY <1>1, <1>3, Numbers DEF RowOK, Keeps, new

\* A heartbeat.
LEMMA RenewedRowOK ==
    ASSUME NEW row, NEW n \in Nat, RowOK(row, n)
    PROVE  LET new == [row EXCEPT !.heartbeatAt = Now]
           IN  RowOK(new, n) /\ Keeps(row, new)
<1> DEFINE new == [row EXCEPT !.heartbeatAt = Now]
<1>1. row \in WorkRow /\ row.generation \in Nat
  BY DEF RowOK, WorkRow
<1>2. /\ new \in WorkRow /\ new.state = row.state /\ new.attempt = row.attempt
      /\ new.generation = row.generation /\ new.snoozes = row.snoozes
  BY <1>1, Numbers DEF WorkRow, Now
<1> HIDE DEF new
<1> QED BY <1>1, <1>2 DEF RowOK, Keeps, new

\* The passing of time.
LEMMA SlidRowOK ==
    ASSUME NEW row, NEW n \in Nat, RowOK(row, n)
    PROVE  RowOK(SlideRow(row), n) /\ Keeps(row, SlideRow(row))
<1> DEFINE new == SlideRow(row)
<1>1. row \in WorkRow /\ row.generation \in Nat
  BY DEF RowOK, WorkRow
<1>2. /\ \A t \in When : Slide(t) \in When
      /\ Slide(NoTime) = NoTime
  BY Numbers DEF Slide, When
<1>3. /\ Slide(row.scheduledAt) \in When /\ Slide(row.priorityAt) \in When
      /\ Slide(row.heartbeatAt) \in When \union {NoTime}
      /\ Slide(row.finalizedAt) \in When \union {NoTime}
  BY <1>1, <1>2 DEF WorkRow
<1>4. /\ new \in WorkRow /\ new.state = row.state /\ new.attempt = row.attempt
      /\ new.generation = row.generation /\ new.snoozes = row.snoozes
  BY <1>1, <1>3 DEF WorkRow, SlideRow
<1> HIDE DEF new
<1> QED BY <1>1, <1>4 DEF RowOK, Keeps, new

-----------------------------------------------------------------------------
(* Hands.                                                                  *)

\* Hands can let go.
LEMMA FewerHands ==
    ASSUME NEW E, NEW O, NEW S, Hands(E, O, S), NEW F \in SUBSET E, NEW P \in SUBSET O
    PROVE  Hands(F, P, S)
  BY DEF Hands, Apart

\* A hand may change as long as it holds the same claim.
LEMMA SameHand ==
    ASSUME NEW E, NEW O, NEW S, Hands(E, O, S), NEW e \in E, NEW f,
           ExecOK(f, S), Token(f) = Token(e)
    PROVE  Hands((E \ {e}) \union {f}, O, S)
  BY DEF Hands, Apart

\* An execution hands its claim over to an operation.
LEMMA HandedOver ==
    ASSUME NEW E, NEW O, NEW S, Hands(E, O, S), NEW e \in E, NEW o,
           OpOK(o, S), Token(o) = Token(e)
    PROVE  Hands(E \ {e}, O \union {o}, S)
  BY DEF Hands, Apart

\* Any number of executions may be fenced.
LEMMA FencedHands ==
    ASSUME NEW E, NEW O, NEW S, Hands(E, O, S), NEW G, NEW F,
           \A x \in F : \E e \in E : x = IF e \in G THEN [e EXCEPT !.fenced = TRUE] ELSE e
    PROVE  Hands(F, O, S)
<1> DEFINE f(e) == IF e \in G THEN [e EXCEPT !.fenced = TRUE] ELSE e
<1>1. ASSUME NEW e \in E PROVE ExecOK(f(e), S) /\ Token(f(e)) = Token(e)
  <2>1. ExecOK(e, S) /\ e \in Executions
    BY DEF Hands, ExecOK
  <2>2. /\ f(e) \in Executions /\ f(e).id = e.id /\ f(e).generation = e.generation
        /\ f(e).attempt = e.attempt /\ f(e).snoozes = e.snoozes
        /\ f(e).phase = e.phase /\ f(e).result = e.result
    BY <2>1 DEF Executions
  <2> HIDE DEF f
  <2> QED BY <2>1, <2>2 DEF ExecOK, Live, Token
<1>0. \A x \in F : \E e \in E : x = f(e)
  OBVIOUS
<1> HIDE DEF f
<1>2. \A x, y \in F : Token(x) = Token(y) => x = y
  BY <1>0, <1>1 DEF Hands, Apart
<1>3. \A x \in F : \A y \in O : Token(x) # Token(y)
  BY <1>0, <1>1 DEF Hands, Apart
<1> QED BY <1>0, <1>1, <1>2, <1>3 DEF Hands, Apart

\* Hands stay what they are when every row is changed as Keeps allows.
LEMMA KeptHands ==
    ASSUME NEW E, NEW O, NEW S, Hands(E, O, S), NEW T, DOMAIN S = Jobs, DOMAIN T = Jobs,
           \A i \in Jobs : S[i].generation \in Nat /\ T[i].generation \in Nat,
           \A i \in Jobs : Keeps(S[i], T[i])
    PROVE  Hands(E, O, T)
<1>1. ASSUME NEW x, x.id \in Jobs, x.generation \in Nat, x.generation <= S[x.id].generation
      PROVE  /\ x.generation <= T[x.id].generation
             /\ Live(T, x) => /\ Live(S, x)
                              /\ T[x.id].attempt = S[x.id].attempt
                              /\ T[x.id].snoozes = S[x.id].snoozes
  BY <1>1 DEF Keeps, Live
<1>2. ASSUME NEW e \in E PROVE ExecOK(e, T)
  <2>1. ExecOK(e, S) /\ e.id \in Jobs /\ e.generation \in Nat
    BY DEF Hands, ExecOK, Executions
  <2> QED BY <1>1, <2>1 DEF ExecOK
<1>3. ASSUME NEW o \in O PROVE OpOK(o, T)
  <2>1. OpOK(o, S) /\ o.id \in Jobs /\ o.generation \in Nat
    BY DEF Hands, OpOK, Operations
  <2> QED BY <1>1, <2>1 DEF OpOK
<1> QED BY <1>2, <1>3 DEF Hands

\* New claims go to new hands.
LEMMA ClaimedHands ==
    ASSUME NEW E, NEW O, NEW S, NEW R, Hands(E, O, S), StoreOK(S, R), NEW c \in Clients,
           NEW ids \in SUBSET Jobs, \A i \in ids : S[i].state = Available,
           NEW T, T = Claim(S, ids, Now)
    PROVE  /\ StoreOK(T, R) /\ Hands(E, O, T)
           /\ Hands(E \union {Execution(c, ClaimOf(T, i)) : i \in ids}, O, T)
<1> DEFINE new == {Execution(c, ClaimOf(T, i)) : i \in ids}
<1>1. DOMAIN S = Jobs /\ DOMAIN T = Jobs /\ T = [i \in Jobs |-> T[i]]
  BY DEF StoreOK, Claim
<1>2. \A i \in Jobs : /\ RowOK(S[i], R[i]) /\ R[i] \in Nat
                      /\ T[i] = IF i \in ids THEN ClaimRow(S[i], Now) ELSE S[i]
  BY <1>1 DEF StoreOK, Claim
<1>3. ASSUME NEW i \in Jobs
      PROVE  /\ RowOK(T[i], R[i]) /\ Keeps(S[i], T[i])
             /\ S[i].generation \in Nat /\ T[i].generation \in Nat
             /\ i \in ids => T[i].generation = S[i].generation + 1
  <2>1. S[i].generation \in Nat
    BY <1>2 DEF RowOK, WorkRow
  <2>2. CASE i \in ids
    BY <1>2, <2>1, <2>2, ClaimRowOK
  <2>3. CASE i \notin ids
    BY <1>2, <2>1, <2>3 DEF Keeps
  <2> QED BY <2>2, <2>3
<1>4. StoreOK(T, R)
  BY <1>1, <1>3 DEF StoreOK
<1>5. Hands(E, O, T)
  BY <1>1, <1>3, KeptHands
<1>6. ASSUME NEW i \in ids
      PROVE  /\ ExecOK(Execution(c, ClaimOf(T, i)), T)
             /\ Execution(c, ClaimOf(T, i)).id = i
             /\ Execution(c, ClaimOf(T, i)).generation = S[i].generation + 1
  <2> DEFINE e == Execution(c, ClaimOf(T, i))
  <2>1. /\ e = [client |-> c, id |-> i, generation |-> T[i].generation,
                attempt |-> T[i].attempt, snoozes |-> T[i].snoozes, phase |-> "claimed",
                result |-> "none", fenced |-> FALSE]
    BY DEF Execution, ClaimOf
  <2>2. T[i].attempt \in Nat /\ T[i].snoozes \in Nat /\ T[i].generation \in Nat
    BY <1>3 DEF RowOK, WorkRow
  <2>3. e \in Executions
    BY <2>1, <2>2 DEF Executions
  <2>4. T[i].generation <= T[i].generation
    BY <2>2
  <2> QED BY <1>3, <2>1, <2>3, <2>4 DEF ExecOK
<1>7. ASSUME NEW x, x \in E \/ x \in O, NEW i \in ids
      PROVE  Token(x) # Token(Execution(c, ClaimOf(T, i)))
  <2>1. x.generation <= S[x.id].generation /\ x.generation \in Nat /\ x.id \in Jobs
    BY <1>7 DEF Hands, ExecOK, OpOK, Executions, Operations
  <2> QED BY <1>3, <1>6, <2>1 DEF Token
<1>8. \A x, y \in new : Token(x) = Token(y) => x = y
  BY <1>6 DEF Token
<1>9. Hands(E \union new, O, T)
  <2>1. \A e \in E \union new : ExecOK(e, T)
    BY <1>5, <1>6 DEF Hands
  <2>2. Apart(E \union new, O)
    <3>1. \A x \in new : \A y \in E : Token(x) # Token(y) /\ Token(y) # Token(x)
      BY <1>7
    <3>2. \A x \in new : \A y \in O : Token(x) # Token(y)
      BY <1>7
    <3> HIDE DEF new
    <3> QED BY <1>5, <1>8, <3>1, <3>2 DEF Hands, Apart
  <2> QED BY <1>5, <2>1, <2>2 DEF Hands
<1> QED BY <1>4, <1>5, <1>9

\* What a step that only changes rows has to show.
LEMMA RowsStep ==
    ASSUME NEW E, NEW O, NEW S, NEW R, Hands(E, O, S), StoreOK(S, R), NEW T, NEW Q,
           T = [i \in Jobs |-> T[i]], Q \in [Jobs -> Nat],
           \A i \in Jobs : RowOK(T[i], Q[i]) /\ Keeps(S[i], T[i])
    PROVE  StoreOK(T, Q) /\ Hands(E, O, T)
<1>1. StoreOK(T, Q)
  BY DEF StoreOK
<1>2. DOMAIN S = Jobs /\ DOMAIN T = Jobs
  BY DEF StoreOK
<1>3. \A i \in Jobs : S[i].generation \in Nat /\ T[i].generation \in Nat
  BY DEF StoreOK, RowOK, WorkRow
<1> QED BY <1>1, <1>2, <1>3, KeptHands

\* A row left alone.
LEMMA SameRow ==
    ASSUME NEW row, NEW n, RowOK(row, n)
    PROVE  Keeps(row, row)
  BY DEF RowOK, WorkRow, Keeps

-----------------------------------------------------------------------------
(* Steps.                                                                  *)

\* The rows a Fetch returns are jobs that wait for a worker.
LEMMA FetchedWait ==
    ASSUME WorkInv, NEW c \in Clients
    PROVE  Fetched(c) \in SUBSET Jobs /\ \A i \in Fetched(c) : jobs[i].state = Available
<1>1. DOMAIN jobs = Jobs
  BY DEF WorkInv, StoreOK
<1> QED BY <1>1 DEF Fetched, FirstOf, Claimable

\* A Fetch, whether or not the client hears of it.
LEMMA DispatchKeeps ==
    ASSUME WorkInv, NEW c \in Clients, Dispatch(c) \/ DispatchLost(c)
    PROVE  WorkInv'
<1> DEFINE ids == Fetched(c)
<1>1. ids \in SUBSET Jobs /\ \A i \in ids : jobs[i].state = Available
  BY FetchedWait
<1>2. /\ jobs' = Claim(jobs, ids, Now)
      /\ \/ execs' = execs
         \/ execs' = execs \union {Execution(c, ClaimOf(jobs', i)) : i \in ids}
      /\ UNCHANGED <<active, ops, rescues, beats>>
  BY DEF Dispatch, DispatchLost
<1> HIDE DEF ids
<1>3. StoreOK(jobs', rescues) /\ Hands(execs', ops, jobs')
  <2>1. Hands(execs, ops, jobs) /\ StoreOK(jobs, rescues)
    BY DEF WorkInv
  <2>2. /\ StoreOK(jobs', rescues) /\ Hands(execs, ops, jobs')
        /\ Hands(execs \union {Execution(c, ClaimOf(jobs', i)) : i \in ids}, ops, jobs')
    BY <1>1, <1>2, <2>1, ClaimedHands
  <2> QED BY <1>2, <2>2
<1> QED BY <1>2, <1>3 DEF WorkInv, LoopsOK, beats

\* The entry of an execution in active comes and goes with it.
LEMMA ActiveStays ==
    ASSUME LoopsOK, NEW e, e.client \in Clients, e.id \in Jobs, e.generation \in Nat,
           \/ Forget(e)
           \/ active' = [active EXCEPT ![e.client] =
                           [i \in DOMAIN @ \union {e.id} |->
                               IF i = e.id THEN e.generation ELSE @[i]]],
           UNCHANGED beats
    PROVE  LoopsOK'
<1> DEFINE A == active[e.client]
<1>1. A \in [DOMAIN A -> Nat] /\ DOMAIN A \subseteq Jobs
  BY DEF LoopsOK
<1>2. PICK B : /\ active' = [active EXCEPT ![e.client] = B]
               /\ B \in [DOMAIN B -> Nat] /\ DOMAIN B \subseteq Jobs
  <2>1. CASE Forget(e) /\ IsActive(e)
    <3>1. active' = [active EXCEPT ![e.client] = Delete(A, {e.id})]
      BY <2>1 DEF Forget
    <3>2. /\ Delete(A, {e.id}) \in [DOMAIN Delete(A, {e.id}) -> Nat]
          /\ DOMAIN Delete(A, {e.id}) \subseteq Jobs
      BY <1>1 DEF Delete
    <3> QED BY <3>1, <3>2
  <2>2. CASE Forget(e) /\ ~IsActive(e)
    BY <1>1, <2>2 DEF Forget
  <2>3. CASE ~Forget(e)
    <3> DEFINE C == [i \in DOMAIN A \union {e.id} |-> IF i = e.id THEN e.generation ELSE A[i]]
    <3>1. active' = [active EXCEPT ![e.client] = C]
      BY <2>3
    <3>2. C \in [DOMAIN C -> Nat] /\ DOMAIN C \subseteq Jobs
      BY <1>1
    <3> QED BY <3>1, <3>2
  <2> QED BY <2>1, <2>2, <2>3
<1>3. active' = [c \in Clients |-> IF c = e.client THEN B ELSE active[c]]
  BY <1>2 DEF LoopsOK
<1> QED BY <1>2, <1>3 DEF LoopsOK, beats

\* runJob, from the claim to the push.
LEMMA ExecKeeps ==
    ASSUME WorkInv, NEW e \in execs, ExecNext(e)
    PROVE  WorkInv'
<1>1. /\ ExecOK(e, jobs) /\ e \in Executions /\ e.client \in Clients /\ e.id \in Jobs
      /\ e.generation \in Nat /\ e.attempt \in Nat /\ e.snoozes \in Nat
      /\ Hands(execs, ops, jobs) /\ StoreOK(jobs, rescues) /\ LoopsOK
  BY DEF WorkInv, Hands, ExecOK, Executions
<1>2. UNCHANGED store
  BY DEF ExecNext, RunJob, WorkerReturns, FencedWorkerReturns, Push, PushDropped, store
<1>3. CASE RunJob(e)
  <2> DEFINE f == [e EXCEPT !.phase = "working"]
  <2>1. f \in Executions /\ f.id = e.id /\ f.generation = e.generation
        /\ f.attempt = e.attempt /\ f.snoozes = e.snoozes /\ f.phase = "working"
    BY <1>1 DEF Executions
  <2>2. execs' = (execs \ {e}) \union {f} /\ ops' = ops
    BY <1>3 DEF RunJob
  <2> HIDE DEF f
  <2>3. ExecOK(f, jobs) /\ Token(f) = Token(e)
    BY <1>1, <2>1 DEF ExecOK, Live, Token
  <2>4. Hands(execs', ops', jobs)
    BY <1>1, <2>2, <2>3, SameHand
  <2>5. LoopsOK'
    BY <1>1, <1>3, ActiveStays DEF RunJob
  <2> QED BY <1>1, <1>2, <2>4, <2>5 DEF WorkInv, store
<1>4. ASSUME NEW result \in Results, WorkerReturns(e, result) PROVE WorkInv'
  <2> DEFINE f == [e EXCEPT !.phase = "returned", !.result = result]
  <2>1. f \in Executions /\ f.id = e.id /\ f.generation = e.generation
        /\ f.attempt = e.attempt /\ f.snoozes = e.snoozes /\ f.result # "none"
    BY <1>1 DEF Executions, Results
  <2>2. execs' = (execs \ {e}) \union {f} /\ ops' = ops /\ UNCHANGED <<active, beats>>
    BY <1>4 DEF WorkerReturns
  <2> HIDE DEF f
  <2>3. ExecOK(f, jobs) /\ Token(f) = Token(e)
    BY <1>1, <2>1 DEF ExecOK, Live, Token
  <2>4. Hands(execs', ops', jobs)
    BY <1>1, <2>2, <2>3, SameHand
  <2>5. LoopsOK'
    BY <1>1, <2>2 DEF LoopsOK, beats
  <2> QED BY <1>1, <1>2, <2>4, <2>5 DEF WorkInv, store
<1>5. CASE FencedWorkerReturns(e) \/ PushDropped(e)
  <2>1. execs' = execs \ {e} /\ ops' = ops /\ Forget(e) /\ UNCHANGED beats
    BY <1>5 DEF FencedWorkerReturns, PushDropped
  <2>2. Hands(execs', ops', jobs)
    BY <1>1, <2>1, FewerHands
  <2>3. LoopsOK'
    BY <1>1, <2>1, ActiveStays
  <2> QED BY <1>1, <1>2, <2>2, <2>3 DEF WorkInv, store
<1>6. CASE Push(e)
  <2> DEFINE o == Operation(e)
  <2>1. /\ e.phase = "returned" /\ execs' = execs \ {e} /\ ops' = ops \union {o}
        /\ Forget(e) /\ UNCHANGED beats
    BY <1>6 DEF Push
  <2>2. e.result \in Results
    BY <1>1, <2>1 DEF ExecOK, Executions
  <2>3. /\ Kind(e) \in {"complete", "cancel", "kill", "retry", "snooze"}
        /\ Kind(e) = "retry" => e.attempt < MaxAttempts
        /\ Kind(e) = "snooze" <=> e.result = "snooze"
    <3>1. CASE e.result = "ok"
      BY <3>1 DEF Kind
    <3>2. CASE e.result = "cancel"
      BY <3>2 DEF Kind
    <3>3. CASE e.result = "snooze"
      BY <3>3 DEF Kind
    <3>4. CASE e.result = "error"
      <4>1. Kind(e) = IF e.attempt >= MaxAttempts THEN "kill" ELSE "retry"
        BY <3>4 DEF Kind
      <4> QED BY <1>1, <3>4, <4>1, Numbers
    <3> QED BY <2>2, <3>1, <3>2, <3>3, <3>4 DEF Results
  <2>4. o = [client |-> e.client, kind |-> Kind(e), id |-> e.id, generation |-> e.generation,
             attempt |-> e.attempt,
             snoozes |-> IF e.result = "snooze" THEN e.snoozes + 1 ELSE e.snoozes,
             at |-> RetryDelay, message |-> TRUE]
    <3>1. Now + RetryDelay = RetryDelay
      BY DelayAssumption DEF Now
    <3> QED BY <3>1 DEF Operation
  <2> HIDE DEF o
  <2>5. o \in Operations
    BY <1>1, <2>3, <2>4, Numbers DEF Operations
  <2>6. Live(jobs, o) <=> Live(jobs, e)
    BY <2>4 DEF Live
  <2>7. jobs[e.id].snoozes \in Nat
    BY <1>1 DEF StoreOK, RowOK, WorkRow
  <2>8. OpOK(o, jobs)
    BY <1>1, <2>3, <2>4, <2>5, <2>6, <2>7 DEF OpOK, ExecOK
  <2>9. Hands(execs', ops', jobs)
    BY <1>1, <2>1, <2>4, <2>8, HandedOver DEF Token
  <2>10. LoopsOK'
    BY <1>1, <2>1, ActiveStays
  <2> QED BY <1>1, <1>2, <2>9, <2>10 DEF WorkInv, store
<1> QED BY <1>3, <1>4, <1>5, <1>6 DEF ExecNext

\* A finalization reaches the store or does not.
LEMMA OpKeeps ==
    ASSUME WorkInv, NEW o \in ops, OpNext(o)
    PROVE  WorkInv'
<1>1. /\ OpOK(o, jobs) /\ Hands(execs, ops, jobs) /\ StoreOK(jobs, rescues) /\ LoopsOK
      /\ DOMAIN jobs = Jobs
  BY DEF WorkInv, Hands, StoreOK
<1>2. /\ jobs' = jobs \/ jobs' = Finalize(jobs, <<o>>, Apply)
      /\ ops' \in SUBSET ops
      /\ UNCHANGED <<execs, active, rescues, beats>>
  BY DEF OpNext, Deliver, DeliverUnheard, GiveUp, store
<1>3. ASSUME jobs' = Finalize(jobs, <<o>>, Apply)
      PROVE  StoreOK(jobs', rescues) /\ Hands(execs, ops, jobs')
  <2>1. Winners(jobs, <<o>>) = IF Live(jobs, o) THEN {1} ELSE {}
    BY DEF Winners
  <2>2. ASSUME NEW i \in Jobs
        PROVE  jobs'[i] = IF i = o.id /\ Live(jobs, o) THEN Apply(jobs[i], o) ELSE jobs[i]
    <3>1. Won(jobs, <<o>>, i) <=> i = o.id /\ Live(jobs, o)
      BY <2>1 DEF Won
    <3>2. Won(jobs, <<o>>, i) => WinnerOf(jobs, <<o>>, i) = o
      BY <2>1, <3>1 DEF WinnerOf
    <3> QED BY <1>1, <1>3, <3>1, <3>2 DEF Finalize
  <2>3. jobs' = [i \in Jobs |-> jobs'[i]]
    BY <1>1, <1>3 DEF Finalize
  <2>4. ASSUME NEW i \in Jobs PROVE RowOK(jobs'[i], rescues[i]) /\ Keeps(jobs[i], jobs'[i])
    <3>1. RowOK(jobs[i], rescues[i]) /\ rescues[i] \in Nat
      BY <1>1 DEF StoreOK
    <3>2. CASE i = o.id /\ Live(jobs, o)
      BY <1>1, <2>2, <3>1, <3>2, ApplyOK
    <3>3. CASE ~(i = o.id /\ Live(jobs, o))
      BY <2>2, <3>1, <3>3, SameRow
    <3> QED BY <3>2, <3>3
  <2>5. rescues \in [Jobs -> Nat]
    BY <1>1 DEF StoreOK
  <2> QED BY <1>1, <2>3, <2>4, <2>5, RowsStep
<1>4. StoreOK(jobs', rescues) /\ Hands(execs, ops', jobs')
  BY <1>1, <1>2, <1>3, FewerHands
<1> QED BY <1>1, <1>2, <1>4 DEF WorkInv, LoopsOK, beats

\* A heartbeat, whether it arrives, arrives unheard, or does not.
LEMMA BeatKeeps ==
    ASSUME WorkInv, NEW c \in Clients, Heartbeat(c) \/ HeartbeatStalls(c)
    PROVE  WorkInv'
<1>1. /\ Hands(execs, ops, jobs) /\ StoreOK(jobs, rescues) /\ LoopsOK /\ DOMAIN jobs = Jobs
  BY DEF WorkInv, StoreOK
<1>2. /\ jobs' = jobs \/ jobs' = Renew(jobs, ActiveTokens(c), Now)
      /\ UNCHANGED <<execs, active, ops, rescues>>
      /\ failures' \in [Clients -> 0..2] /\ beat' \in [Clients -> BeatPhases]
  BY <1>1 DEF Heartbeat, HeartbeatStalls, LoopsOK, BeatPhases
<1>3. ASSUME jobs' = Renew(jobs, ActiveTokens(c), Now)
      PROVE  StoreOK(jobs', rescues) /\ Hands(execs, ops, jobs')
  <2>1. /\ jobs' = [i \in Jobs |-> jobs'[i]]
        /\ \A i \in Jobs : jobs'[i] = jobs[i] \/ jobs'[i] = [jobs[i] EXCEPT !.heartbeatAt = Now]
    BY <1>1, <1>3 DEF Renew
  <2>2. ASSUME NEW i \in Jobs PROVE RowOK(jobs'[i], rescues[i]) /\ Keeps(jobs[i], jobs'[i])
    <3>1. RowOK(jobs[i], rescues[i]) /\ rescues[i] \in Nat
      BY <1>1 DEF StoreOK
    <3> QED BY <2>1, <3>1, RenewedRowOK, SameRow
  <2>3. rescues \in [Jobs -> Nat]
    BY <1>1 DEF StoreOK
  <2> QED BY <1>1, <2>1, <2>2, <2>3, RowsStep
<1>4. StoreOK(jobs', rescues) /\ Hands(execs, ops, jobs')
  BY <1>1, <1>2, <1>3
<1> QED BY <1>1, <1>2, <1>4 DEF WorkInv, LoopsOK

\* An unanswered heartbeat, which may fence the client, and a crash.
LEMMA ClientKeeps ==
    ASSUME WorkInv, NEW c \in Clients, HeartbeatFails(c) \/ Crash(c)
    PROVE  WorkInv'
<1>1. /\ Hands(execs, ops, jobs) /\ StoreOK(jobs, rescues) /\ LoopsOK
  BY DEF WorkInv
<1>2. CASE HeartbeatFails(c)
  <2>1. /\ UNCHANGED <<store, active, ops>>
        /\ execs' = execs \/ FenceActive(c)
        /\ failures' \in [Clients -> 0..2] /\ beat' \in [Clients -> BeatPhases]
    BY <1>1, <1>2 DEF HeartbeatFails, LoopsOK, BeatPhases
  <2>2. Hands(execs', ops, jobs)
    <3> DEFINE G == {e \in execs : e.client = c /\ IsActive(e)}
    <3>1. FenceActive(c) =>
             \A x \in execs' : \E e \in execs :
                x = IF e \in G THEN [e EXCEPT !.fenced = TRUE] ELSE e
      BY DEF FenceActive
    <3> HIDE DEF G
    <3> QED BY <1>1, <2>1, <3>1, FencedHands
  <2> QED BY <1>1, <2>1, <2>2 DEF WorkInv, LoopsOK, store
<1>3. CASE Crash(c)
  <2>1. /\ UNCHANGED store /\ execs' \in SUBSET execs /\ ops' \in SUBSET ops
        /\ failures' \in [Clients -> 0..2] /\ beat' \in [Clients -> BeatPhases]
    BY <1>1, <1>3 DEF Crash, LoopsOK, BeatPhases
  <2>2. /\ active' = [d \in Clients |-> active'[d]]
        /\ \A d \in Clients : /\ active'[d] \in [DOMAIN active'[d] -> Nat]
                              /\ DOMAIN active'[d] \subseteq Jobs
    BY <1>1, <1>3 DEF Crash, LoopsOK, EmptyStore
  <2>3. Hands(execs', ops', jobs)
    BY <1>1, <2>1, FewerHands
  <2> QED BY <1>1, <2>1, <2>2, <2>3 DEF WorkInv, LoopsOK, store
<1> QED BY <1>2, <1>3

\* The mover, the rescuer and the passing of time.
LEMMA SweepKeeps ==
    ASSUME WorkInv, MoveDue \/ RescueStale \/ Tick
    PROVE  WorkInv'
<1>1. /\ Hands(execs, ops, jobs) /\ StoreOK(jobs, rescues) /\ LoopsOK /\ DOMAIN jobs = Jobs
      /\ rescues \in [Jobs -> Nat]
      /\ \A i \in Jobs : RowOK(jobs[i], rescues[i]) /\ rescues[i] \in Nat
  BY DEF WorkInv, StoreOK
<1>2. UNCHANGED <<execs, ops, active, failures>> /\ beat' \in [Clients -> BeatPhases]
  BY <1>1 DEF MoveDue, RescueStale, Tick, beats, LoopsOK, BeatPhases
<1>3. /\ jobs' = [i \in Jobs |-> jobs'[i]] /\ rescues' \in [Jobs -> Nat]
      /\ \A i \in Jobs : RowOK(jobs'[i], rescues'[i]) /\ Keeps(jobs[i], jobs'[i])
  <2>1. CASE MoveDue
    <3>1. /\ jobs' = [i \in Jobs |-> jobs'[i]] /\ rescues' = rescues
          /\ \A i \in Jobs : \/ jobs'[i] = jobs[i]
                             \/ /\ jobs[i].state \in {Scheduled, Retryable}
                                /\ jobs'[i] = [jobs[i] EXCEPT !.state = Available]
      BY <1>1, <2>1 DEF MoveDue, MakeAvailable, Due
    <3> QED BY <1>1, <3>1, MovedRowOK, SameRow
  <2>2. CASE RescueStale
    <3> DEFINE ids == Stale(jobs, Now, RescueTTL)
    <3>1. /\ jobs' = Rescue(jobs, ids, Now)
          /\ rescues' = [i \in Jobs |-> IF i \in ids THEN rescues[i] + 1 ELSE rescues[i]]
      BY <2>2 DEF RescueStale
    <3> HIDE DEF ids
    <3>2. /\ jobs' = [i \in Jobs |-> jobs'[i]]
          /\ \A i \in Jobs : jobs'[i] = IF i \in ids THEN RescueRow(jobs[i], Now) ELSE jobs[i]
      BY <1>1, <3>1 DEF Rescue
    <3>3. ASSUME NEW i \in Jobs
          PROVE  RowOK(jobs'[i], rescues'[i]) /\ Keeps(jobs[i], jobs'[i])
      <4>1. CASE i \in ids
        BY <1>1, <3>1, <3>2, <4>1, RescuedRowOK
      <4>2. CASE i \notin ids
        BY <1>1, <3>1, <3>2, <4>2, SameRow
      <4> QED BY <4>1, <4>2
    <3>4. rescues' \in [Jobs -> Nat]
      BY <1>1, <3>1
    <3> QED BY <3>2, <3>3, <3>4
  <2>3. CASE Tick
    <3>1. /\ jobs' = [i \in Jobs |-> SlideRow(jobs[i])] /\ rescues' = rescues
      BY <2>3 DEF Tick
    <3>2. jobs' = [i \in Jobs |-> jobs'[i]] /\ \A i \in Jobs : jobs'[i] = SlideRow(jobs[i])
      BY <3>1
    <3> QED BY <1>1, <3>1, <3>2, SlidRowOK
  <2> QED BY <2>1, <2>2, <2>3
<1>4. StoreOK(jobs', rescues') /\ Hands(execs, ops, jobs')
  BY <1>1, <1>3, RowsStep
<1> QED BY <1>1, <1>2, <1>4 DEF WorkInv, LoopsOK

\* Before anybody is at work.
LEMMA InitWorkInv == Init => WorkInv
<1> SUFFICES ASSUME Init PROVE WorkInv
  OBVIOUS
<1>1. StoreOK(jobs, rescues)
  BY FreshRowOK DEF Init, StoreOK
<1>2. Hands(execs, ops, jobs)
  BY DEF Init, Hands, Apart
<1>3. LoopsOK
  BY DEF Init, LoopsOK, BeatPhases, EmptyStore
<1> QED BY <1>1, <1>2, <1>3 DEF WorkInv

\* Every step keeps it so.
LEMMA NextWorkInv == WorkInv /\ [Next]_vars => WorkInv'
<1> SUFFICES ASSUME WorkInv, [Next]_vars PROVE WorkInv'
  OBVIOUS
<1>1. ASSUME NEW e \in execs, ExecNext(e) PROVE WorkInv'
  BY <1>1, ExecKeeps
<1>2. ASSUME NEW o \in ops, OpNext(o) PROVE WorkInv'
  BY <1>2, OpKeeps
<1>3. ASSUME NEW c \in Clients, ClientNext(c) PROVE WorkInv'
  BY <1>3, DispatchKeeps, BeatKeeps, ClientKeeps DEF ClientNext
<1>4. CASE MoveDue \/ RescueStale \/ Tick
  BY <1>4, SweepKeeps
<1>5. CASE UNCHANGED vars
  BY <1>5 DEF vars, WorkInv, LoopsOK
<1> QED BY <1>1, <1>2, <1>3, <1>4, <1>5 DEF Next

\* The invariant of the system.
LEMMA WorkInvariance == Spec => []WorkInv
  BY InitWorkInv, NextWorkInv, PTL DEF Spec

-----------------------------------------------------------------------------
(* Silence: what an execution that still has its job can rely on.  runJob   *)
(* begins within the interval of its claim; from then on the entry in       *)
(* active is its own, and its row is as old as its client has been silent.  *)

ExecSync(e, S, A, q, b) ==
    /\ e.phase = "claimed" => Live(S, e) /\ S[e.id].heartbeatAt = 0
    /\ e.phase # "claimed" /\ Live(S, e) =>
          /\ e.id \in DOMAIN A /\ A[e.id] = e.generation
          /\ -S[e.id].heartbeatAt <= q + (IF b \in {"due", "late"} THEN 1 ELSE 0)

Sync ==
    /\ quiet \in [Clients -> Nat]
    /\ \A e \in execs : ExecSync(e, jobs, active[e.client], quiet[e.client], beat[e.client])

\* What the invariant says of one execution.
LEMMA OfExec ==
    ASSUME WorkInv, NEW e \in execs
    PROVE  /\ e \in Executions /\ e.client \in Clients /\ e.id \in Jobs /\ e.generation \in Nat
           /\ e.generation <= jobs[e.id].generation /\ DOMAIN jobs = Jobs
           /\ RowOK(jobs[e.id], rescues[e.id]) /\ jobs[e.id].generation \in Nat
           /\ jobs[e.id].heartbeatAt \in Int
<1>1. ExecOK(e, jobs) /\ StoreOK(jobs, rescues)
  BY DEF WorkInv, Hands
<1>2. e.id \in Jobs /\ e.client \in Clients /\ e.generation \in Nat
  BY <1>1 DEF ExecOK, Executions
<1>3. RowOK(jobs[e.id], rescues[e.id]) /\ jobs[e.id] \in WorkRow
  BY <1>1, <1>2 DEF StoreOK, RowOK
<1>4. jobs[e.id].heartbeatAt \in Int
  BY <1>3, Numbers DEF WorkRow, When
<1>5. jobs[e.id].generation \in Nat
  BY <1>3 DEF WorkRow
<1> QED BY <1>1, <1>2, <1>3, <1>4, <1>5 DEF ExecOK, StoreOK

\* Two executions that both have the job are one.
LEMMA OneLive ==
    ASSUME WorkInv, NEW x \in execs, NEW y \in execs, x.id = y.id, x.generation = y.generation
    PROVE  x = y
  BY DEF WorkInv, Hands, Apart, Token

\* A claim.
LEMMA DispatchSync ==
    ASSUME WorkInv, Sync, NEW c \in Clients, Dispatch(c) \/ DispatchLost(c)
    PROVE  Sync'
<1> DEFINE ids == Fetched(c)
<1>1. ids \in SUBSET Jobs /\ \A i \in ids : jobs[i].state = Available
  BY FetchedWait
<1>2. /\ jobs' = Claim(jobs, ids, Now)
      /\ execs' \subseteq execs \union {Execution(c, ClaimOf(jobs', i)) : i \in ids}
      /\ UNCHANGED <<active, quiet, beat>>
  BY DEF Dispatch, DispatchLost, beats
<1> HIDE DEF ids
<1>3. DOMAIN jobs = Jobs /\ DOMAIN jobs' = Jobs
      /\ \A i \in Jobs : jobs'[i] = IF i \in ids THEN ClaimRow(jobs[i], Now) ELSE jobs[i]
  BY <1>2 DEF WorkInv, StoreOK, Claim
<1>4. ASSUME NEW e \in execs
      PROVE  ExecSync(e, jobs', active[e.client], quiet[e.client], beat[e.client])
  <2>1. ExecSync(e, jobs, active[e.client], quiet[e.client], beat[e.client])
    BY DEF Sync
  <2>2. CASE e.id \in ids
    <3>1. RowOK(jobs[e.id], rescues[e.id]) /\ jobs[e.id].state = Available
          /\ rescues[e.id] \in Nat
      BY <1>1, <2>2, OfExec DEF WorkInv, StoreOK
    <3>2. jobs'[e.id].generation = jobs[e.id].generation + 1
      BY <1>3, <2>2, <3>1, ClaimRowOK, OfExec
    <3>3. ~Live(jobs, e) /\ ~Live(jobs', e)
      BY <3>1, <3>2, OfExec DEF Live
    <3> QED BY <2>1, <3>3 DEF ExecSync
  <2>3. CASE e.id \notin ids
    <3>1. jobs'[e.id] = jobs[e.id] /\ (Live(jobs', e) <=> Live(jobs, e))
      BY <1>3, <2>3, OfExec DEF Live
    <3> QED BY <2>1, <3>1 DEF ExecSync
  <2> QED BY <2>2, <2>3
<1>5. ASSUME NEW i \in ids
      PROVE  LET e == Execution(c, ClaimOf(jobs', i))
             IN  ExecSync(e, jobs', active[e.client], quiet[e.client], beat[e.client])
  <2> DEFINE e == Execution(c, ClaimOf(jobs', i))
  <2>1. e.phase = "claimed" /\ e.id = i /\ e.generation = jobs'[i].generation
    BY DEF Execution, ClaimOf
  <2>2. jobs[i] \in WorkRow
    BY <1>1 DEF WorkInv, StoreOK, RowOK
  <2>3. jobs'[i].state = Running /\ jobs'[i].heartbeatAt = 0
    BY <1>1, <1>3, <2>2 DEF ClaimRow, WorkRow, Now
  <2> HIDE DEF e
  <2>4. Live(jobs', e)
    BY <1>1, <1>3, <2>1, <2>3 DEF Live
  <2>5. ExecSync(e, jobs', active[e.client], quiet[e.client], beat[e.client])
    BY <2>1, <2>3, <2>4 DEF ExecSync
  <2> QED BY <2>5 DEF e
<1> QED BY <1>2, <1>4, <1>5 DEF Sync

\* runJob.
LEMMA ExecStaysSync ==
    ASSUME WorkInv, Sync, NEW e \in execs, ExecNext(e)
    PROVE  Sync'
<1>1. UNCHANGED <<jobs, quiet, beat>> /\ quiet \in [Clients -> Nat]
  BY DEF ExecNext, RunJob, WorkerReturns, FencedWorkerReturns, Push, PushDropped, store, beats,
         Sync
<1>2. /\ e \in Executions /\ e.client \in Clients /\ e.id \in Jobs /\ DOMAIN jobs = Jobs
      /\ active = [d \in Clients |-> active[d]]
      /\ ExecSync(e, jobs, active[e.client], quiet[e.client], beat[e.client])
      /\ quiet[e.client] \in Nat
  BY OfExec DEF WorkInv, LoopsOK, Sync
<1>3. CASE RunJob(e)
  <2> DEFINE f == [e EXCEPT !.phase = "working"]
             A == active[e.client]
             B == [i \in DOMAIN A \union {e.id} |-> IF i = e.id THEN e.generation ELSE A[i]]
  <2>1. f.phase = "working" /\ f.id = e.id /\ f.generation = e.generation /\ f.client = e.client
    BY <1>2 DEF Executions
  <2>2. /\ execs' = (execs \ {e}) \union {f} /\ active' = [active EXCEPT ![e.client] = B]
        /\ e.phase = "claimed"
    BY <1>3 DEF RunJob
  <2>3. active'[e.client] = B /\ \A d \in Clients : d # e.client => active'[d] = active[d]
    BY <1>2, <2>2
  <2>4. Live(jobs, e) /\ jobs[e.id].heartbeatAt = 0
    BY <1>2, <2>2 DEF ExecSync
  <2>5. e.id \in DOMAIN B /\ B[e.id] = e.generation
        /\ \A i \in DOMAIN A : i # e.id => i \in DOMAIN B /\ B[i] = A[i]
    OBVIOUS
  <2> HIDE DEF f, B
  <2>6. ExecSync(f, jobs, active'[f.client], quiet[f.client], beat[f.client])
    BY <1>2, <2>1, <2>3, <2>4, <2>5 DEF ExecSync
  <2>7. ASSUME NEW x \in execs \ {e}
        PROVE  ExecSync(x, jobs, active'[x.client], quiet[x.client], beat[x.client])
    <3>1. ExecSync(x, jobs, active[x.client], quiet[x.client], beat[x.client])
          /\ x.client \in Clients
      BY OfExec DEF Sync
    <3>2. Live(jobs, x) => x.id # e.id
      BY <2>4, OneLive DEF Live
    <3>3. CASE x.client = e.client
      BY <2>3, <2>5, <3>1, <3>2, <3>3 DEF ExecSync
    <3>4. CASE x.client # e.client
      BY <2>3, <3>1, <3>4
    <3> QED BY <3>3, <3>4
  <2> QED BY <1>1, <2>2, <2>6, <2>7 DEF Sync
<1>4. ASSUME NEW result \in Results, WorkerReturns(e, result) PROVE Sync'
  <2> DEFINE f == [e EXCEPT !.phase = "returned", !.result = result]
  <2>1. f.phase = "returned" /\ f.id = e.id /\ f.generation = e.generation /\ f.client = e.client
    BY <1>2 DEF Executions
  <2>2. execs' = (execs \ {e}) \union {f} /\ active' = active /\ e.phase = "working"
    BY <1>4 DEF WorkerReturns
  <2> HIDE DEF f
  <2>3. ExecSync(f, jobs, active[f.client], quiet[f.client], beat[f.client])
    BY <1>2, <2>1, <2>2 DEF ExecSync, Live
  <2> QED BY <1>1, <2>2, <2>3 DEF Sync
<1>5. CASE FencedWorkerReturns(e) \/ Push(e) \/ PushDropped(e)
  <2>1. execs' = execs \ {e} /\ Forget(e)
    BY <1>5 DEF FencedWorkerReturns, Push, PushDropped
  <2>2. ASSUME NEW x \in execs \ {e}
        PROVE  ExecSync(x, jobs, active'[x.client], quiet[x.client], beat[x.client])
    <3>1. ExecSync(x, jobs, active[x.client], quiet[x.client], beat[x.client])
          /\ x.client \in Clients
      BY OfExec DEF Sync
    <3>2. x.id = e.id => x.generation # e.generation
      BY OneLive
    <3>3. CASE x.client = e.client /\ IsActive(e)
      <4>1. active'[x.client] = Delete(active[x.client], {e.id})
        BY <1>2, <2>1, <3>3 DEF Forget
      <4> QED BY <3>1, <3>2, <3>3, <4>1 DEF ExecSync, IsActive, Delete
    <3>4. CASE ~(x.client = e.client /\ IsActive(e))
      BY <1>2, <2>1, <3>1, <3>4 DEF Forget
    <3> QED BY <3>3, <3>4
  <2> QED BY <1>1, <2>1, <2>2 DEF Sync
<1> QED BY <1>3, <1>4, <1>5 DEF ExecNext

\* A finalization touches only the row whose token it carries, which no
\* execution carries too.
LEMMA OpStaysSync ==
    ASSUME WorkInv, Sync, NEW o \in ops, OpNext(o)
    PROVE  Sync'
<1>1. /\ jobs' = jobs \/ jobs' = Finalize(jobs, <<o>>, Apply)
      /\ UNCHANGED <<execs, active, quiet, beat>>
  BY DEF OpNext, Deliver, DeliverUnheard, GiveUp, store, beats
<1>2. ASSUME NEW e \in execs
      PROVE  ExecSync(e, jobs', active[e.client], quiet[e.client], beat[e.client])
  <2>1. ExecSync(e, jobs, active[e.client], quiet[e.client], beat[e.client])
    BY DEF Sync
  <2>2. e.id = o.id => e.generation # o.generation
    BY DEF WorkInv, Hands, Apart, Token
  <2>3. CASE jobs' = Finalize(jobs, <<o>>, Apply)
    <3>1. DOMAIN jobs' = DOMAIN jobs /\ e.id \in DOMAIN jobs
      BY <2>3, OfExec DEF Finalize
    <3>2. CASE Live(jobs, o) /\ o.id = e.id
      <4>1. ~Live(jobs, e)
        BY <2>2, <3>2 DEF Live
      <4>2. Winners(jobs, <<o>>) = {1}
        BY <3>2 DEF Winners
      <4>3. Won(jobs, <<o>>, e.id) /\ WinnerOf(jobs, <<o>>, e.id) = o
        BY <3>2, <4>2 DEF Won, WinnerOf
      <4>4. jobs'[e.id] = Apply(jobs[e.id], o)
        BY <2>3, <3>1, <4>3 DEF Finalize
      <4>5. OpOK(o, jobs) /\ RowOK(jobs[e.id], rescues[e.id]) /\ rescues[e.id] \in Nat
        BY OfExec DEF WorkInv, Hands, StoreOK
      <4>6. Keeps(jobs[e.id], jobs'[e.id]) /\ RowOK(jobs'[e.id], rescues[e.id])
        BY <3>2, <4>4, <4>5, ApplyOK
      <4>7. jobs'[e.id].generation \in Nat
        BY <4>6 DEF RowOK, WorkRow
      <4>8. ~Live(jobs', e)
        BY <4>1, <4>6, <4>7, <3>1, OfExec DEF Live, Keeps
      <4> QED BY <2>1, <4>1, <4>8 DEF ExecSync
    <3>3. CASE ~(Live(jobs, o) /\ o.id = e.id)
      <4>1. ~Won(jobs, <<o>>, e.id)
        BY <3>3 DEF Won, Winners
      <4>2. jobs'[e.id] = jobs[e.id]
        BY <2>3, <3>1, <4>1 DEF Finalize
      <4> QED BY <2>1, <3>1, <4>2 DEF ExecSync, Live
    <3> QED BY <3>2, <3>3
  <2> QED BY <1>1, <2>1, <2>3
<1> QED BY <1>1, <1>2 DEF Sync

\* A heartbeat that reaches the store renews what its client has in active.
LEMMA BeatStaysSync ==
    ASSUME WorkInv, Sync, NEW c \in Clients, Heartbeat(c) \/ HeartbeatStalls(c)
    PROVE  Sync'
<1>1. /\ UNCHANGED <<execs, active>> /\ beat[c] = "due"
      /\ beat' = [beat EXCEPT ![c] = beat'[c]] /\ beat'[c] \in {"called", "done"}
      /\ \/ jobs' = jobs /\ quiet' = [quiet EXCEPT ![c] = @ + 1]
         \/ jobs' = Renew(jobs, ActiveTokens(c), Now) /\ quiet' = [quiet EXCEPT ![c] = 0]
      /\ quiet \in [Clients -> Nat] /\ DOMAIN beat = Clients
  BY DEF Heartbeat, HeartbeatStalls, Sync, WorkInv, LoopsOK
<1>2. quiet' \in [Clients -> Nat] /\ beat'[c] # "due" /\ beat'[c] # "late"
      /\ \A d \in Clients : d # c => quiet'[d] = quiet[d] /\ beat'[d] = beat[d]
  BY <1>1
<1>3. ASSUME NEW e \in execs
      PROVE  ExecSync(e, jobs', active[e.client], quiet'[e.client], beat'[e.client])
  <2>1. ExecSync(e, jobs, active[e.client], quiet[e.client], beat[e.client])
        /\ quiet[e.client] \in Nat /\ jobs[e.id].heartbeatAt \in Int
    BY <1>1, OfExec DEF Sync
  <2>2. CASE jobs' = jobs /\ quiet' = [quiet EXCEPT ![c] = @ + 1]
    <3>1. CASE e.client = c
      <4>1. quiet'[c] = quiet[c] + 1
        BY <1>1, <2>2
      <4> QED BY <1>1, <1>2, <2>1, <2>2, <3>1, <4>1 DEF ExecSync
    <3>2. CASE e.client # c
      BY <1>2, <2>1, <2>2, <3>2, OfExec DEF ExecSync
    <3> QED BY <3>1, <3>2
  <2>3. CASE jobs' = Renew(jobs, ActiveTokens(c), Now) /\ quiet' = [quiet EXCEPT ![c] = 0]
    <3>1. DOMAIN jobs' = DOMAIN jobs /\ e.id \in DOMAIN jobs
      BY <2>3, OfExec DEF Renew
    <3>2. jobs[e.id] \in WorkRow
      BY OfExec DEF RowOK
    <3>3. /\ jobs'[e.id].state = jobs[e.id].state
          /\ jobs'[e.id].generation = jobs[e.id].generation
          /\ jobs'[e.id].heartbeatAt \in {jobs[e.id].heartbeatAt, 0}
          /\ (\E t \in ActiveTokens(c) : t.id = e.id /\ Live(jobs, t)) =>
                jobs'[e.id].heartbeatAt = 0
      BY <2>3, <3>1, <3>2 DEF Renew, WorkRow, Now
    <3>4. Live(jobs', e) <=> Live(jobs, e)
      BY <3>1, <3>3 DEF Live
    <3>5. CASE e.client = c
      <4>1. ASSUME Live(jobs, e), e.phase # "claimed" PROVE jobs'[e.id].heartbeatAt = 0
        <5>1. e.id \in DOMAIN active[c] /\ active[c][e.id] = e.generation
          BY <2>1, <3>5, <4>1 DEF ExecSync
        <5>2. [id |-> e.id, generation |-> e.generation] \in ActiveTokens(c)
          BY <5>1 DEF ActiveTokens
        <5>3. Live(jobs, [id |-> e.id, generation |-> e.generation])
          BY <4>1 DEF Live
        <5> QED BY <3>3, <5>2, <5>3
      <4>2. quiet'[c] = 0
        BY <1>1, <2>3
      <4> QED BY <2>1, <3>3, <3>4, <3>5, <4>1, <4>2 DEF ExecSync
    <3>6. CASE e.client # c
      BY <1>2, <2>1, <3>3, <3>4, <3>6, OfExec DEF ExecSync
    <3> QED BY <3>5, <3>6
  <2> QED BY <1>1, <2>2, <2>3
<1> QED BY <1>1, <1>2, <1>3 DEF Sync

\* A fenced execution is no less in step; a crashed client has none.
LEMMA ClientStaysSync ==
    ASSUME WorkInv, Sync, NEW c \in Clients, HeartbeatFails(c) \/ Crash(c)
    PROVE  Sync'
<1>1. /\ jobs' = jobs /\ quiet \in [Clients -> Nat] /\ DOMAIN beat = Clients
      /\ active = [d \in Clients |-> active[d]]
  BY DEF HeartbeatFails, Crash, store, Sync, WorkInv, LoopsOK
<1>2. CASE HeartbeatFails(c)
  <2>1. /\ UNCHANGED <<active, quiet>>
        /\ execs' = execs \/ FenceActive(c)
        /\ beat[c] \in {"called", "late"}
        /\ beat' = [beat EXCEPT ![c] = IF @ = "late" THEN "due" ELSE "done"]
    BY <1>2 DEF HeartbeatFails
  <2>2. ASSUME NEW e \in execs
        PROVE  ExecSync(e, jobs, active[e.client], quiet[e.client], beat'[e.client])
    <3>1. ExecSync(e, jobs, active[e.client], quiet[e.client], beat[e.client])
      BY DEF Sync
    <3>2. beat'[e.client] \in {"due", "late"} <=> beat[e.client] \in {"due", "late"}
      BY <1>1, <2>1, OfExec
    <3> QED BY <3>1, <3>2 DEF ExecSync
  <2>3. ASSUME NEW x \in execs'
        PROVE  \E e \in execs : /\ x.id = e.id /\ x.generation = e.generation
                                /\ x.client = e.client /\ x.phase = e.phase
    <3>1. \A e \in execs : LET f == [e EXCEPT !.fenced = TRUE]
                           IN  /\ f.id = e.id /\ f.generation = e.generation
                               /\ f.client = e.client /\ f.phase = e.phase
      BY OfExec DEF Executions
    <3>2. x \in execs \/ \E e \in execs : x = e \/ x = [e EXCEPT !.fenced = TRUE]
      BY <2>1 DEF FenceActive
    <3> QED BY <3>1, <3>2
  <2>4. ASSUME NEW x \in execs'
        PROVE  ExecSync(x, jobs, active[x.client], quiet[x.client], beat'[x.client])
    BY <2>2, <2>3 DEF ExecSync, Live
  <2>5. jobs' = jobs /\ active' = active /\ quiet' = quiet /\ quiet \in [Clients -> Nat]
    BY <1>1, <2>1
  <2> QED BY <2>4, <2>5 DEF Sync
<1>3. CASE Crash(c)
  <2>1. /\ execs' = execs \ RunningOn(c) /\ quiet' = [quiet EXCEPT ![c] = 0]
        /\ active' = [active EXCEPT ![c] = EmptyStore] /\ beat' = [beat EXCEPT ![c] = "done"]
    BY <1>3 DEF Crash
  <2>2. ASSUME NEW e \in execs'
        PROVE  ExecSync(e, jobs, active'[e.client], quiet'[e.client], beat'[e.client])
    <3>1. e \in execs /\ e.client \in Clients /\ e.client # c
      BY <2>1, OfExec DEF RunningOn
    <3>2. active'[e.client] = active[e.client] /\ quiet'[e.client] = quiet[e.client]
          /\ beat'[e.client] = beat[e.client]
      BY <1>1, <2>1, <3>1
    <3> QED BY <3>1, <3>2 DEF Sync
  <2> QED BY <1>1, <2>1, <2>2 DEF Sync
<1> QED BY <1>2, <1>3

\* A rescue takes no row that has just been claimed, and a Tick waits for it.
LEMMA SweepStaysSync ==
    ASSUME WorkInv, Sync, MoveDue \/ RescueStale \/ Tick
    PROVE  Sync'
<1>1. /\ UNCHANGED <<execs, active, quiet>> /\ quiet \in [Clients -> Nat]
      /\ DOMAIN jobs = Jobs
  BY DEF MoveDue, RescueStale, Tick, beats, Sync, WorkInv, StoreOK
<1>2. ASSUME NEW e \in execs
      PROVE  ExecSync(e, jobs', active[e.client], quiet[e.client], beat'[e.client])
  <2>1. /\ ExecSync(e, jobs, active[e.client], quiet[e.client], beat[e.client])
        /\ quiet[e.client] \in Nat /\ jobs[e.id] \in WorkRow
        /\ jobs[e.id].heartbeatAt \in Int /\ e.id \in Jobs /\ e.client \in Clients
    BY <1>1, OfExec DEF Sync, RowOK
  <2>2. CASE MoveDue
    <3>1. /\ jobs' = MakeAvailable(jobs, Due(jobs, Now)) /\ beat' = beat
      BY <2>2 DEF MoveDue, beats
    <3>2. CASE e.id \in Due(jobs, Now)
      <4>1. jobs[e.id].state # Running /\ jobs'[e.id].state = Available
        BY <1>1, <2>1, <3>1, <3>2 DEF Due, MakeAvailable, WorkRow
      <4> QED BY <2>1, <4>1 DEF ExecSync, Live
    <3>3. CASE e.id \notin Due(jobs, Now)
      <4>1. jobs'[e.id] = jobs[e.id] /\ DOMAIN jobs' = DOMAIN jobs
        BY <1>1, <2>1, <3>1, <3>3 DEF MakeAvailable
      <4> QED BY <2>1, <3>1, <4>1 DEF ExecSync, Live
    <3> QED BY <3>2, <3>3
  <2>3. CASE RescueStale
    <3> DEFINE ids == Stale(jobs, Now, RescueTTL)
    <3>1. /\ jobs' = Rescue(jobs, ids, Now) /\ beat' = beat
      BY <2>3 DEF RescueStale, beats
    <3>2. CASE e.id \in ids
      <4>1. jobs[e.id].heartbeatAt < 0
        BY <2>1, <3>2, TTLAssumption DEF Stale, Now
      <4>2. jobs'[e.id].state = Retryable
        BY <1>1, <2>1, <3>1, <3>2 DEF Rescue, RescueRow, WorkRow
      <4> QED BY <2>1, <4>1, <4>2 DEF ExecSync, Live
    <3>3. CASE e.id \notin ids
      <4>1. jobs'[e.id] = jobs[e.id] /\ DOMAIN jobs' = DOMAIN jobs
        BY <1>1, <2>1, <3>1, <3>3 DEF Rescue
      <4> QED BY <2>1, <3>1, <4>1 DEF ExecSync, Live
    <3> QED BY <3>2, <3>3
  <2>4. CASE Tick
    <3>1. /\ jobs' = [i \in Jobs |-> SlideRow(jobs[i])] /\ e.phase # "claimed"
          /\ beat[e.client] \in {"called", "done"}
          /\ beat'[e.client] = IF beat[e.client] = "called" THEN "late" ELSE "due"
      BY <2>1, <2>4 DEF Tick
    <3>2. jobs'[e.id] = SlideRow(jobs[e.id]) /\ DOMAIN jobs' = DOMAIN jobs
      BY <1>1, <2>1, <3>1
    <3>3. /\ jobs'[e.id].state = jobs[e.id].state
          /\ jobs'[e.id].generation = jobs[e.id].generation
          /\ jobs'[e.id].heartbeatAt = Slide(jobs[e.id].heartbeatAt)
      BY <2>1, <3>2 DEF SlideRow, WorkRow
    <3>4. -jobs'[e.id].heartbeatAt <= 1 - jobs[e.id].heartbeatAt
      BY <2>1, <3>3 DEF Slide
    <3>5. jobs'[e.id].heartbeatAt \in Int
      BY <2>1, <3>3 DEF Slide
    <3>6. Live(jobs', e) <=> Live(jobs, e)
      BY <3>2, <3>3 DEF Live
    <3>7. beat'[e.client] \in {"due", "late"} /\ beat[e.client] \notin {"due", "late"}
      BY <3>1
    <3> QED BY <2>1, <3>1, <3>4, <3>5, <3>6, <3>7 DEF ExecSync
  <2> QED BY <2>2, <2>3, <2>4
<1> QED BY <1>1, <1>2 DEF Sync

\* All clients keep in step with their jobs.
LEMMA SyncInvariance == Spec => [](WorkInv /\ Sync)
<1>1. Init => Sync
  BY DEF Init, Sync
<1>2. ASSUME WorkInv, Sync, [Next]_vars PROVE Sync'
  <2>1. ASSUME NEW e \in execs, ExecNext(e) PROVE Sync'
    BY <1>2, <2>1, ExecStaysSync
  <2>2. ASSUME NEW o \in ops, OpNext(o) PROVE Sync'
    BY <1>2, <2>2, OpStaysSync
  <2>3. ASSUME NEW c \in Clients, ClientNext(c) PROVE Sync'
    BY <1>2, <2>3, DispatchSync, BeatStaysSync, ClientStaysSync DEF ClientNext
  <2>4. CASE MoveDue \/ RescueStale \/ Tick
    BY <1>2, <2>4, SweepStaysSync
  <2>5. CASE UNCHANGED vars
    BY <1>2, <2>5 DEF vars, Sync
  <2> QED BY <1>2, <2>1, <2>2, <2>3, <2>4, <2>5 DEF Next
<1> QED BY <1>1, <1>2, WorkInvariance, PTL DEF Spec

-----------------------------------------------------------------------------
(* The theorems.                                                           *)

\* The rows, executions, operations and the loops of the clients keep their types.
THEOREM SystemTypeCorrect == Spec => []TypeOK
<1>1. WorkRow \subseteq JobRow
  <2>1. 0 \in Duration /\ When \subseteq Instant
    BY Numbers, InstantRange DEF Duration
  <2> QED BY <2>1 DEF WorkRow, JobRow
<1>2. WorkInv => TypeOK
  <2> SUFFICES ASSUME WorkInv PROVE TypeOK
    OBVIOUS
  <2>1. jobs \in [Jobs -> JobRow]
    BY <1>1 DEF WorkInv, StoreOK, RowOK
  <2>2. execs \subseteq Executions /\ ops \subseteq Operations
    BY DEF WorkInv, Hands, ExecOK, OpOK
  <2> QED BY <2>1, <2>2 DEF WorkInv, LoopsOK, TypeOK
<1> QED BY <1>2, WorkInvariance, PTL

\* A claim is in one pair of hands, which know the attempt if the job is theirs,
\* whatever crashes, fails or is lost (guarantees.mdx:69).
THEOREM ClaimsInOneHand == Spec => []ExclusiveTokens
<1>1. WorkInv => ExclusiveTokens
  BY DEF WorkInv, Hands, Apart, ExecOK, OpOK, Executions, Operations, ExclusiveTokens
<1> QED BY <1>1, WorkInvariance, PTL

\* An attempt beyond MaxAttempts is paid for by a rescue.
THEOREM BudgetKept == Spec => []AttemptsBoundedByRescues
<1>1. WorkInv => AttemptsBoundedByRescues
  BY DEF WorkInv, StoreOK, RowOK, AttemptsBoundedByRescues
<1> QED BY <1>1, WorkInvariance, PTL

\* No snooze is lost to a stale writer of the metadata.
THEOREM SnoozesKept == Spec => []SnoozesNeverLost
<1>1. WorkInv => SnoozesNeverLost
  BY DEF WorkInv, StoreOK, RowOK, SnoozesNeverLost
<1> QED BY <1>1, WorkInvariance, PTL

\* A job is rescued from an execution that still has it only when as many
\* heartbeats in a row of its client came to nothing as fit into RescueTTL
\* (client.mdx:171, guarantees.mdx:105).
THEOREM RescuesNeedSilence == Spec => RescuedOnlyWhenSilent
<1>1. ASSUME WorkInv, Sync, [Next]_vars, NEW e \in execs, Live(jobs, e),
             rescues'[e.id] # rescues[e.id]
      PROVE  quiet[e.client] >= RescueTTL
  <2>1. RescueStale
    BY <1>1 DEF Next, ExecNext, OpNext, ClientNext, RunJob, WorkerReturns, FencedWorkerReturns,
                Push, PushDropped, Deliver, DeliverUnheard, GiveUp, Dispatch, DispatchLost,
                Heartbeat, HeartbeatStalls, HeartbeatFails, Crash, MoveDue, Tick, vars, store
  <2>2. e.id \in Stale(jobs, Now, RescueTTL)
    BY <1>1, <2>1, OfExec DEF RescueStale
  <2>3. jobs[e.id].heartbeatAt < -RescueTTL /\ jobs[e.id].heartbeatAt \in Int
    BY <1>1, <2>2, OfExec, TTLAssumption DEF Stale, Now
  <2>4. ExecSync(e, jobs, active[e.client], quiet[e.client], beat[e.client])
        /\ quiet[e.client] \in Nat
    BY <1>1, OfExec DEF Sync
  <2> QED BY <1>1, <2>3, <2>4, TTLAssumption DEF ExecSync
<1>2. ASSUME WorkInv, Sync, [Next]_vars
      PROVE  [\A e \in execs : (Live(jobs, e) /\ rescues'[e.id] # rescues[e.id])
                => quiet[e.client] >= RescueTTL]_vars
  BY <1>1, <1>2
<1> QED BY <1>2, SyncInvariance, PTL DEF Spec, RescuedOnlyWhenSilent

-----------------------------------------------------------------------------
(* The contract.  What the store and its clients do to a job, whatever is  *)
(* lost, repeated or late, is what JobLifecycle allows.                    *)

VARIABLE settled    \* history: per job, the generations whose finalization took
                    \* effect, in order

\* A call that reaches the store records an outcome if the fence lets it through.
Record(op) ==
    settled' = [i \in Jobs |-> IF i = op.id /\ Live(jobs, op)
                              THEN Append(settled[i], op.generation)
                              ELSE settled[i]]

Reaches(op) == Deliver(op) \/ DeliverUnheard(op)

Others == \/ \E e \in execs : ExecNext(e)
          \/ \E op \in ops : GiveUp(op)
          \/ \E c \in Clients : ClientNext(c)
          \/ MoveDue
          \/ RescueStale
          \/ Tick

RecordedNext == \/ \E op \in ops : Reaches(op) /\ Record(op)
                \/ Others /\ UNCHANGED settled

RecordedInit == Init /\ settled = [i \in Jobs |-> << >>]

\* The system with its history, which watches the steps and hinders none.
RecordedSpec == RecordedInit /\ [][RecordedNext]_<<vars, settled>>

LEMMA HistoryOnlyWatches == Next <=> (\E op \in ops : Reaches(op)) \/ Others
  BY DEF Next, Reaches, Others, OpNext

LEMMA RecordedIsSpec == RecordedSpec => Spec
<1>1. RecordedInit => Init
  BY DEF RecordedInit
<1>2. [RecordedNext]_<<vars, settled>> => [Next]_vars
  BY HistoryOnlyWatches DEF RecordedNext
<1> QED BY <1>1, <1>2, PTL DEF RecordedSpec, Spec

PhaseOf(state) == IF state = Running THEN "held"
                  ELSE IF state \in TerminalStates THEN "finished"
                  ELSE "waiting"

LifeOf(i) == [phase      |-> PhaseOf(jobs[i].state),
              generation |-> jobs[i].generation,
              outcomes   |-> settled[i]]

Contract == INSTANCE JobLifecycleProofs WITH Ids <- Jobs,
                                             life <- [i \in Jobs |-> LifeOf(i)]

\* The jobs are enqueued when the system begins.
Enqueued == \A i \in Jobs : LifeOf(i) = Contract!Submitted(Contract!Unborn)

KeepsContract == Enqueued /\ [][Contract!Next]_([i \in Jobs |-> LifeOf(i)])

\* What a step may do to one job.
Left(i)     == /\ jobs'[i].generation = jobs[i].generation
               /\ PhaseOf(jobs'[i].state) = PhaseOf(jobs[i].state)
               /\ settled'[i] = settled[i]
Handed(i)   == /\ PhaseOf(jobs[i].state) = "waiting" /\ PhaseOf(jobs'[i].state) = "held"
               /\ jobs'[i].generation = jobs[i].generation + 1
               /\ settled'[i] = settled[i]
Answered(i) == /\ PhaseOf(jobs[i].state) = "held"
               /\ PhaseOf(jobs'[i].state) \in {"waiting", "finished"}
               /\ jobs'[i].generation = jobs[i].generation
               /\ settled'[i] = Append(settled[i], jobs[i].generation)
Rescued(i)  == /\ PhaseOf(jobs[i].state) = "held" /\ PhaseOf(jobs'[i].state) = "waiting"
               /\ jobs'[i].generation = jobs[i].generation
               /\ settled'[i] = settled[i]

Moved(i) == Left(i) \/ Handed(i) \/ Answered(i) \/ Rescued(i)

\* Which is what the contract allows.
LEMMA LifeMoves ==
    ASSUME NEW i \in Jobs, Moved(i)
    PROVE  LifeOf(i)' \in {LifeOf(i)} \union Contract!Moves(LifeOf(i))
<1> DEFINE l == LifeOf(i)
           g == jobs[i].generation
           o == settled[i]
<1>1. /\ l = [phase |-> PhaseOf(jobs[i].state), generation |-> g, outcomes |-> o]
      /\ l.phase = PhaseOf(jobs[i].state) /\ l.generation = g /\ l.outcomes = o
      /\ LifeOf(i)' = [phase      |-> PhaseOf(jobs'[i].state),
                       generation |-> jobs'[i].generation,
                       outcomes   |-> settled'[i]]
  BY DEF LifeOf
<1> HIDE DEF l, g, o
<1>2. CASE Left(i)
  BY <1>1, <1>2 DEF Left, l, g, o
<1>3. CASE Handed(i)
  <2>1. Contract!Granted(l) = [phase |-> "held", generation |-> g + 1, outcomes |-> o]
    <3> DEFINE next == l.generation + 1
    <3>1. Contract!Granted(l) = [l EXCEPT !.phase = "held", !.generation = next]
      BY DEF Contract!Granted
    <3> HIDE DEF next
    <3>2. Contract!Granted(l) = [phase |-> "held", generation |-> next, outcomes |-> o]
      BY <1>1, <3>1
    <3> QED BY <1>1, <3>2 DEF next
  <2>2. l.phase = "waiting" /\ LifeOf(i)' = Contract!Granted(l)
    BY <1>1, <1>3, <2>1 DEF Handed, g, o
  <2> QED BY <2>2 DEF Contract!Moves, l
<1>4. CASE Answered(i)
  <2> DEFINE q == PhaseOf(jobs'[i].state)
             all == Append(o, g)
  <2>1. Contract!Settled(l, q) = [l EXCEPT !.phase = q, !.outcomes = all]
    BY <1>1 DEF Contract!Settled
  <2>2. settled'[i] = all /\ jobs'[i].generation = g /\ q \in {"waiting", "finished"}
        /\ l.phase = "held"
    BY <1>1, <1>4 DEF Answered, g, o
  <2> HIDE DEF q, all
  <2>3. Contract!Settled(l, q) = [phase |-> q, generation |-> g, outcomes |-> all]
    BY <1>1, <2>1
  <2>4. LifeOf(i)' = Contract!Settled(l, q)
    BY <1>1, <2>2, <2>3 DEF q
  <2> QED BY <2>2, <2>4 DEF Contract!Moves, l
<1>5. CASE Rescued(i)
  <2>1. Contract!Revoked(l) = [phase |-> "waiting", generation |-> g, outcomes |-> o]
    BY <1>1 DEF Contract!Revoked
  <2>2. l.phase = "held" /\ LifeOf(i)' = Contract!Revoked(l)
    BY <1>1, <1>5, <2>1 DEF Rescued, g, o
  <2> QED BY <2>2 DEF Contract!Moves, l
<1> QED BY <1>2, <1>3, <1>4, <1>5 DEF Moved

\* A finalization that arrives answers the claim it quotes, or nothing.
LEMMA ReachesMoves ==
    ASSUME WorkInv, NEW o \in ops, Reaches(o), Record(o), NEW i \in Jobs
    PROVE  Moved(i)
<1>1. /\ OpOK(o, jobs) /\ DOMAIN jobs = Jobs /\ RowOK(jobs[i], rescues[i])
      /\ jobs' = Finalize(jobs, <<o>>, Apply)
  BY DEF WorkInv, Hands, StoreOK, Reaches, Deliver, DeliverUnheard
<1>2. Winners(jobs, <<o>>) = IF Live(jobs, o) THEN {1} ELSE {}
  BY DEF Winners
<1>3. jobs'[i] = IF i = o.id /\ Live(jobs, o) THEN Apply(jobs[i], o) ELSE jobs[i]
  <2>1. Won(jobs, <<o>>, i) <=> i = o.id /\ Live(jobs, o)
    BY <1>2 DEF Won
  <2>2. Won(jobs, <<o>>, i) => WinnerOf(jobs, <<o>>, i) = o
    BY <1>2, <2>1 DEF WinnerOf
  <2> QED BY <1>1, <2>1, <2>2 DEF Finalize
<1>4. CASE i = o.id /\ Live(jobs, o)
  <2>1. /\ jobs[i].state = Running /\ o.generation = jobs[i].generation
        /\ jobs'[i] = Apply(jobs[i], o) /\ settled'[i] = Append(settled[i], o.generation)
    BY <1>3, <1>4 DEF Live, Record
  <2>2. o.kind \in {"complete", "cancel", "kill", "retry", "snooze"} /\ jobs[i] \in WorkRow
    BY <1>1 DEF OpOK, Operations, RowOK
  <2>3. /\ Apply(jobs[i], o).generation = jobs[i].generation
        /\ Apply(jobs[i], o).state \in TerminalStates \union {Retryable}
    <3>1. CASE o.kind = "complete"
      BY <2>2, <3>1 DEF Apply, CompleteRow, WorkRow
    <3>2. CASE o.kind = "cancel"
      BY <2>2, <3>2 DEF Apply, CancelRow, WorkRow
    <3>3. CASE o.kind = "kill"
      BY <2>2, <3>3 DEF Apply, KillRow, WorkRow
    <3>4. CASE o.kind = "retry"
      BY <2>2, <3>4 DEF Apply, RetryRow, WorkRow
    <3>5. CASE o.kind = "snooze"
      BY <2>2, <3>5 DEF Apply, SnoozeRow, WorkRow
    <3> QED BY <2>2, <3>1, <3>2, <3>3, <3>4, <3>5
  <2> QED BY <2>1, <2>3 DEF Moved, Answered, PhaseOf
<1>5. CASE ~(i = o.id /\ Live(jobs, o))
  BY <1>3, <1>5 DEF Moved, Left, Record
<1> QED BY <1>4, <1>5

\* Nothing else does, except for claims and rescues.
LEMMA OthersMove ==
    ASSUME WorkInv, Others, UNCHANGED settled, NEW i \in Jobs
    PROVE  Moved(i)
<1>1. DOMAIN jobs = Jobs /\ jobs[i] \in WorkRow
  BY DEF WorkInv, StoreOK, RowOK
<1>2. CASE jobs' = jobs
  BY <1>2 DEF Moved, Left
<1>3. ASSUME NEW c \in Clients, Dispatch(c) \/ DispatchLost(c) PROVE Moved(i)
  <2>1. jobs' = Claim(jobs, Fetched(c), Now)
    BY <1>3 DEF Dispatch, DispatchLost
  <2>2. CASE i \in Fetched(c)
    <3>1. jobs[i].state = Available /\ jobs'[i] = ClaimRow(jobs[i], Now)
      BY <1>1, <2>1, <2>2, FetchedWait DEF Claim
    <3>2. jobs'[i].state = Running /\ jobs'[i].generation = jobs[i].generation + 1
      BY <1>1, <3>1 DEF ClaimRow, WorkRow
    <3> QED BY <3>1, <3>2 DEF Moved, Handed, PhaseOf
  <2>3. CASE i \notin Fetched(c)
    BY <1>1, <2>1, <2>3 DEF Claim, Moved, Left
  <2> QED BY <2>2, <2>3
<1>4. ASSUME NEW c \in Clients, jobs' = Renew(jobs, ActiveTokens(c), Now) PROVE Moved(i)
  <2>1. jobs'[i] = jobs[i] \/ jobs'[i] = [jobs[i] EXCEPT !.heartbeatAt = Now]
    BY <1>1, <1>4 DEF Renew
  <2>2. jobs'[i].state = jobs[i].state /\ jobs'[i].generation = jobs[i].generation
    BY <1>1, <2>1 DEF WorkRow
  <2> QED BY <2>2 DEF Moved, Left
<1>5. CASE MoveDue
  <2>1. \/ jobs'[i] = jobs[i]
        \/ /\ jobs[i].state \in {Scheduled, Retryable}
           /\ jobs'[i] = [jobs[i] EXCEPT !.state = Available]
    BY <1>1, <1>5 DEF MoveDue, MakeAvailable, Due
  <2>2. CASE jobs'[i] = jobs[i]
    BY <2>2 DEF Moved, Left
  <2>3. CASE jobs'[i] # jobs[i]
    <3>1. /\ jobs[i].state \in {Scheduled, Retryable} /\ jobs'[i].state = Available
          /\ jobs'[i].generation = jobs[i].generation
      BY <1>1, <2>1, <2>3 DEF WorkRow
    <3> QED BY <3>1 DEF Moved, Left, PhaseOf
  <2> QED BY <2>2, <2>3
<1>6. CASE RescueStale
  <2>1. \/ jobs'[i] = jobs[i]
        \/ jobs[i].state = Running /\ jobs'[i] = RescueRow(jobs[i], Now)
    BY <1>1, <1>6 DEF RescueStale, Rescue, Stale
  <2>2. CASE jobs'[i] = jobs[i]
    BY <2>2 DEF Moved, Left
  <2>3. CASE jobs'[i] # jobs[i]
    <3>1. /\ jobs[i].state = Running /\ jobs'[i].state = Retryable
          /\ jobs'[i].generation = jobs[i].generation
      BY <1>1, <2>1, <2>3 DEF RescueRow, WorkRow
    <3> QED BY <3>1 DEF Moved, Rescued, PhaseOf
  <2> QED BY <2>2, <2>3
<1>7. CASE Tick
  <2>1. jobs'[i] = SlideRow(jobs[i])
    BY <1>7 DEF Tick
  <2>2. jobs'[i].state = jobs[i].state /\ jobs'[i].generation = jobs[i].generation
    BY <1>1, <2>1 DEF SlideRow, WorkRow
  <2> QED BY <2>2 DEF Moved, Left
<1>8. \/ jobs' = jobs
      \/ \E c \in Clients : \/ Dispatch(c) \/ DispatchLost(c)
                             \/ jobs' = Renew(jobs, ActiveTokens(c), Now)
      \/ MoveDue \/ RescueStale \/ Tick
  BY DEF Others, ExecNext, RunJob, WorkerReturns, FencedWorkerReturns, Push, PushDropped, GiveUp,
         ClientNext, Heartbeat, HeartbeatStalls, HeartbeatFails, Crash, store
<1> QED BY <1>2, <1>3, <1>4, <1>5, <1>6, <1>7, <1>8

\* Clients that crash, fence themselves, lose replies, repeat calls and drop
\* outcomes, and a rescuer that measures their silence, together keep the contract
\* of a backend: no claim has two outcomes, none has one after the job was rescued
\* from it, and a finished job is never claimed again (memory.go:106-136,
\* completer.go:222, executor.go:21).
THEOREM SystemKeepsContract == RecordedSpec => KeepsContract
<1>1. RecordedInit => Enqueued
  BY DEF RecordedInit, Init, Enqueued, LifeOf, FreshRow, NewRow, PhaseOf, StartAt,
         Contract!Submitted, Contract!Unborn
<1>2. WorkInv /\ [RecordedNext]_<<vars, settled>>
         => [Contract!Next]_([i \in Jobs |-> LifeOf(i)])
  <2> SUFFICES ASSUME WorkInv, [RecordedNext]_<<vars, settled>>
               PROVE  Contract!Next
    OBVIOUS
  <2>1. \A i \in Jobs : Moved(i)
    <3>1. CASE UNCHANGED <<vars, settled>>
      BY <3>1 DEF vars, Moved, Left
    <3> QED BY <3>1, ReachesMoves, OthersMove DEF RecordedNext
  <2>2. \A i \in Jobs : LifeOf(i)' \in {LifeOf(i)} \union Contract!Moves(LifeOf(i))
    BY <2>1, LifeMoves
  <2>3. Contract!Operate
    BY <2>2 DEF Contract!Operate
  <2> QED BY <2>3 DEF Contract!Next
<1> QED BY <1>1, <1>2, RecordedIsSpec, WorkInvariance, PTL DEF RecordedSpec, KeepsContract

\* So each claim of any client has its outcome recorded at most once, in the order of
\* the claims, never while a later claim holds the job, and a job that ends does so
\* with the outcome of its last claim.
THEOREM SystemRecordsOnce == RecordedSpec => []Contract!OncePerClaim
<1>1. Enqueued => Contract!LivesOK
  <2>1. Contract!LifeOK(Contract!Submitted(Contract!Unborn))
    <3>1. Contract!Submitted(Contract!Unborn) \in Contract!Moves(Contract!Unborn)
      BY DEF Contract!Moves, Contract!Unborn
    <3> QED BY <3>1, Contract!UnbornOK, Contract!MovesOK
  <2> QED BY <2>1 DEF Enqueued, Contract!LivesOK
<1> QED BY <1>1, SystemKeepsContract, Contract!StepOK, Contract!LivesOKImplies, PTL
        DEF KeepsContract
=============================================================================
