------------------------ MODULE MemoryBackendProofs ------------------------
(***************************************************************************)
(* Proofs about MemoryBackend, for all values of its constants.            *)
(*                                                                         *)
(* The argument.  What the invariants say of one row is a predicate RowOK, *)
(* and the lemmas of the first part show that each of the rewritings of a  *)
(* row in JobStore keeps it.  The second part shows that the fence lets    *)
(* through only entries that quote the claim holding the row.  The third   *)
(* puts them together, action by action, into the inductive invariant.     *)
(*                                                                         *)
(* That the contract of JobLifecycle is kept, and that holders lose their  *)
(* jobs only to silence, follow from what a step may do to one job, which  *)
(* is one of six moves.  The last part is about the batches: what a whole  *)
(* one does is what its entries do one by one.                             *)
(***************************************************************************)
EXTENDS BatchLoop, WellFoundedInduction, TLAPS

-----------------------------------------------------------------------------
(* Instants.                                                               *)

\* The overflow test of time.go is exact: SubDuration fails when, and only
\* when, the difference does not fit the word.
LEMMA SubDurationExact ==
    ASSUME NEW t \in Instant, NEW d \in Duration
    PROVE  /\ SubWraps(t, d) <=> t - d \notin Instant
           /\ ~SubWraps(t, d) => SubDuration(t, d) = t - d
  BY InstantRange DEF Instant, Duration, SubWraps, SubDuration, Wrap, Span

\* SubDurationClamped is the difference pinned to the range.
LEMMA SubDurationClampedIsClamp ==
    ASSUME NEW t \in Instant, NEW d \in Duration
    PROVE  /\ SubDurationClamped(t, d) = Clamp(t - d)
           /\ SubDurationClamped(t, d) \in Instant
  BY InstantRange DEF Instant, Duration, SubDurationClamped, Clamp, Wrap, Span

-----------------------------------------------------------------------------
(* Rows.                                                                   *)

RowOK(row) == /\ row \in JobRow
              /\ RowAccounted(row)
              /\ RowErrorsOldestFirst(row)
              /\ RowFinalized(row)
              /\ RowPriority(row)

\* Appending something larger keeps a sequence increasing.
LEMMA IncreasingAppend ==
    ASSUME NEW s \in Seq(Int), Increasing(s), NEW x \in Int,
           \A k \in DOMAIN s : s[k] < x
    PROVE  /\ Append(s, x) \in Seq(Int)
           /\ Increasing(Append(s, x))
           /\ \A k \in DOMAIN Append(s, x) :
                 IF k \in DOMAIN s THEN Append(s, x)[k] = s[k] ELSE Append(s, x)[k] = x
  BY DEF Increasing

\* The row Enqueue stores for a request it accepts.
LEMMA NewRowOK ==
    ASSUME NEW now \in Instant, NEW req \in Request,
           SubStorable(StartAt(req, now), req.boost)
    PROVE  RowOK(NewRow(req, now))
<1> DEFINE at == StartAt(req, now)
           row == NewRow(req, now)
<1>1. at \in Instant /\ req.boost \in Duration /\ req.queue \in Queues
  BY DEF SubStorable, ValidateInstant, Request
<1>2. SubDuration(at, req.boost) = at - req.boost /\ at - req.boost \in Instant
  BY <1>1, SubDurationExact DEF SubStorable
<1>3. SubDuration(at, req.boost) = Clamp(at - req.boost)
  BY <1>2, InstantRange DEF Clamp, Instant
<1>4. row \in JobRow
  BY <1>1, <1>2, InstantRange
     DEF NewRow, JobRow, States, Scheduled, Available, NoTime, Instant
<1>5. RowAccounted(row)
  BY DEF NewRow, RowAccounted, Running, Scheduled, Available
<1>6. RowErrorsOldestFirst(row)
  BY DEF NewRow, RowErrorsOldestFirst, Increasing
<1>7. RowFinalized(row)
  BY DEF NewRow, RowFinalized, TerminalStates, Scheduled, Available, Completed,
         Cancelled, Dead
<1>8. RowPriority(row)
  BY <1>3 DEF NewRow, RowPriority
<1> QED
  BY <1>4, <1>5, <1>6, <1>7, <1>8 DEF RowOK

\* A row's claim sends entries that quote the row's attempt and, but for a
\* snooze, its snoozes.
Quotes(e, row) == /\ e.attempt = row.attempt
                  /\ e.snoozes = row.snoozes

\* The zero time is no instant.
LEMMA NoTimeIsNoInstant == \A t \in Instant : t # NoTime
  BY InstantRange DEF Instant, NoTime

USE DEF Scheduled, Available, Running, Retryable, Completed, Cancelled, Dead,
        TerminalStates

\* A claim: the attempt in flight is new, so no error is of it yet.
LEMMA ClaimRowOK ==
    ASSUME NEW row \in JobRow, RowOK(row), row.state = Available,
           NEW now \in Instant
    PROVE  RowOK(ClaimRow(row, now))
<1> DEFINE new == ClaimRow(row, now)
<1>1. /\ row.attempt \in Int /\ row.generation \in Nat /\ row.snoozes \in Nat
      /\ row.errors \in Seq(Int)
  BY DEF JobRow
<1>2. new \in JobRow
  <2>1. \A a \in Int, g \in Nat :
          [row EXCEPT !.state = Running, !.attempt = a, !.generation = g,
                      !.heartbeatAt = now] \in JobRow
    BY DEF JobRow, States
  <2>2. row.attempt + 1 \in Int /\ row.generation + 1 \in Nat
    BY <1>1
  <2> QED
    BY <2>1, <2>2 DEF ClaimRow
<1>3. /\ new.state = Running /\ new.attempt = row.attempt + 1
      /\ new.generation = row.generation + 1 /\ new.snoozes = row.snoozes
      /\ new.errors = row.errors /\ new.finalizedAt = row.finalizedAt
      /\ new.scheduledAt = row.scheduledAt /\ new.priorityAt = row.priorityAt
      /\ new.boost = row.boost
  BY DEF JobRow, ClaimRow
<1> HIDE DEF new
<1>4. RowAccounted(new)
  BY <1>1, <1>3 DEF RowOK, RowAccounted
<1>5. RowErrorsOldestFirst(new)
  BY <1>1, <1>3
     DEF RowOK, RowErrorsOldestFirst, RowAccounted
<1>6. RowFinalized(new)
  BY <1>3 DEF RowOK, RowFinalized
<1>7. RowPriority(new)
  BY <1>3 DEF RowOK, RowPriority
<1> QED
  BY <1>2, <1>4, <1>5, <1>6, <1>7 DEF RowOK, new

\* A completion leaves a row in order.
LEMMA CompleteRowOK ==
    ASSUME NEW row \in JobRow, RowOK(row), row.state = Running,
           NEW now \in Instant, NEW e, Quotes(e, row)
    PROVE  RowOK(CompleteRow(row, e, now))
<1> DEFINE new == CompleteRow(row, e, now)
<1>1. /\ row.attempt \in Int /\ row.generation \in Nat /\ row.snoozes \in Nat
      /\ row.errors \in Seq(Int)
  BY DEF JobRow
<1>2. new \in JobRow
  BY <1>1
     DEF JobRow, States, CompleteRow, Quotes
<1>3. /\ new.state = Completed /\ new.attempt = row.attempt
      /\ new.generation = row.generation /\ new.snoozes = row.snoozes
      /\ new.errors = row.errors /\ new.finalizedAt = now
      /\ new.scheduledAt = row.scheduledAt /\ new.priorityAt = row.priorityAt
      /\ new.boost = row.boost
  BY DEF JobRow, CompleteRow, Quotes
<1> HIDE DEF new
<1>4. RowAccounted(new)
  BY <1>1, <1>3 DEF RowOK, RowAccounted
<1>5. RowErrorsOldestFirst(new)
  BY <1>1, <1>3
     DEF RowOK, RowErrorsOldestFirst, RowAccounted
<1>6. RowFinalized(new)
  BY <1>3, NoTimeIsNoInstant DEF RowOK, RowFinalized
<1>7. RowPriority(new)
  BY <1>3 DEF RowOK, RowPriority
<1> QED
  BY <1>2, <1>4, <1>5, <1>6, <1>7 DEF RowOK, new

\* The errors after an attempt in flight failed.
LEMMA ErrorsAppend ==
    ASSUME NEW row \in JobRow, RowOK(row), row.state = Running
    PROVE  LET s == Append(row.errors, row.attempt)
           IN  /\ s \in Seq(Int)
               /\ Increasing(s)
               /\ \A k \in DOMAIN s : s[k] >= 1 /\ s[k] <= row.attempt
<1>1. /\ row.errors \in Seq(Int) /\ row.attempt \in Int /\ row.attempt >= 1
      /\ Increasing(row.errors)
      /\ \A k \in DOMAIN row.errors : row.errors[k] >= 1 /\ row.errors[k] < row.attempt
  BY DEF RowOK, RowAccounted, RowErrorsOldestFirst, JobRow
<1>2. \A k \in DOMAIN row.errors : row.errors[k] \in Int
  BY <1>1
<1> QED
  BY <1>1, <1>2, IncreasingAppend

\* A kill, whose error is of the attempt in flight.
LEMMA KillRowOK ==
    ASSUME NEW row \in JobRow, RowOK(row), row.state = Running,
           NEW now \in Instant, NEW e, Quotes(e, row)
    PROVE  RowOK(KillRow(row, e, now))
<1> DEFINE new == KillRow(row, e, now)
<1>1. LET s == Append(row.errors, row.attempt)
      IN  /\ s \in Seq(Int)
          /\ Increasing(s)
          /\ \A k \in DOMAIN s : s[k] >= 1 /\ s[k] <= row.attempt
  BY ErrorsAppend
<1>2. /\ row.attempt \in Int /\ row.generation \in Nat /\ row.snoozes \in Nat
      /\ row.errors \in Seq(Int)
  BY DEF JobRow
<1>3. new \in JobRow
  BY <1>1, <1>2
     DEF JobRow, States, KillRow, Quotes
<1>4. /\ new.state = Dead /\ new.attempt = row.attempt
      /\ new.generation = row.generation /\ new.snoozes = row.snoozes
      /\ new.errors = Append(row.errors, row.attempt) /\ new.finalizedAt = now
      /\ new.scheduledAt = row.scheduledAt /\ new.priorityAt = row.priorityAt
      /\ new.boost = row.boost
  BY <1>1 DEF JobRow, KillRow, Quotes
<1> HIDE DEF new
<1>5. RowAccounted(new)
  BY <1>2, <1>4 DEF RowOK, RowAccounted
<1>6. RowErrorsOldestFirst(new)
  BY <1>2, <1>4, <1>1
     DEF RowOK, RowErrorsOldestFirst, RowAccounted
<1>7. RowFinalized(new)
  BY <1>4, NoTimeIsNoInstant DEF RowOK, RowFinalized
<1>8. RowPriority(new)
  BY <1>4 DEF RowOK, RowPriority
<1> QED
  BY <1>3, <1>5, <1>6, <1>7, <1>8 DEF RowOK, new

\* A cancellation, with a message or without, leaves a row in order.
LEMMA CancelRowOK ==
    ASSUME NEW row \in JobRow, RowOK(row), row.state = Running,
           NEW now \in Instant, NEW e, Quotes(e, row)
    PROVE  RowOK(CancelRow(row, e, now))
<1> DEFINE new == CancelRow(row, e, now)
<1>1. LET s == Append(row.errors, row.attempt)
      IN  /\ s \in Seq(Int)
          /\ Increasing(s)
          /\ \A k \in DOMAIN s : s[k] >= 1 /\ s[k] <= row.attempt
  BY ErrorsAppend
<1>2. /\ row.attempt \in Int /\ row.generation \in Nat /\ row.snoozes \in Nat
      /\ row.errors \in Seq(Int)
  BY DEF JobRow
<1>3. new \in JobRow
  BY <1>1, <1>2
     DEF JobRow, States, CancelRow, Quotes
<1>4. /\ new.state = Cancelled /\ new.attempt = row.attempt
      /\ new.generation = row.generation /\ new.snoozes = row.snoozes
      /\ new.finalizedAt = now /\ new.scheduledAt = row.scheduledAt
      /\ new.priorityAt = row.priorityAt /\ new.boost = row.boost
      /\ (new.errors = row.errors \/ new.errors = Append(row.errors, row.attempt))
  BY <1>1 DEF JobRow, CancelRow, Quotes
<1> HIDE DEF new
<1>5. RowAccounted(new)
  BY <1>2, <1>4 DEF RowOK, RowAccounted
<1>6. RowErrorsOldestFirst(new)
  <2>1. CASE new.errors = row.errors
    BY <2>1, <1>2, <1>4 DEF RowOK, RowErrorsOldestFirst, RowAccounted
  <2>2. CASE new.errors = Append(row.errors, row.attempt)
    BY <2>2, <1>4, <1>1 DEF RowErrorsOldestFirst
  <2> QED
    BY <2>1, <2>2, <1>4
<1>7. RowFinalized(new)
  BY <1>4, NoTimeIsNoInstant DEF RowOK, RowFinalized
<1>8. RowPriority(new)
  BY <1>4 DEF RowOK, RowPriority
<1> QED
  BY <1>3, <1>5, <1>6, <1>7, <1>8 DEF RowOK, new

\* A retry leaves a row in order, its PriorityAt recomputed.
LEMMA RetryRowOK ==
    ASSUME NEW row \in JobRow, RowOK(row), row.state = Running,
           NEW e, Quotes(e, row), e.at \in Instant
    PROVE  RowOK(RetryRow(row, e))
<1> DEFINE new == RetryRow(row, e)
<1>1. /\ SubDurationClamped(e.at, row.boost) = Clamp(e.at - row.boost)
      /\ SubDurationClamped(e.at, row.boost) \in Instant
  BY SubDurationClampedIsClamp DEF JobRow
<1>2. LET s == Append(row.errors, row.attempt)
      IN  /\ s \in Seq(Int)
          /\ Increasing(s)
          /\ \A k \in DOMAIN s : s[k] >= 1 /\ s[k] <= row.attempt
  BY ErrorsAppend
<1>3. /\ row.attempt \in Int /\ row.generation \in Nat /\ row.snoozes \in Nat
      /\ row.errors \in Seq(Int)
  BY DEF JobRow
<1>4. new \in JobRow
  BY <1>1, <1>2, <1>3
     DEF JobRow, States, RetryRow, Quotes
<1>5. /\ new.state = Retryable /\ new.attempt = row.attempt
      /\ new.generation = row.generation /\ new.snoozes = row.snoozes
      /\ new.errors = Append(row.errors, row.attempt) /\ new.finalizedAt = NoTime
      /\ new.scheduledAt = e.at /\ new.priorityAt = Clamp(e.at - row.boost)
      /\ new.boost = row.boost
  BY <1>1, <1>2 DEF JobRow, RetryRow, Quotes
<1> HIDE DEF new
<1>6. RowAccounted(new)
  BY <1>3, <1>5 DEF RowOK, RowAccounted
<1>7. RowErrorsOldestFirst(new)
  BY <1>3, <1>5, <1>2
     DEF RowOK, RowErrorsOldestFirst, RowAccounted
<1>8. RowFinalized(new)
  BY <1>5 DEF RowOK, RowFinalized
<1>9. RowPriority(new)
  BY <1>5 DEF RowOK, RowPriority
<1> QED
  BY <1>4, <1>6, <1>7, <1>8, <1>9 DEF RowOK, new

\* A snooze, which takes the attempt back.
LEMMA SnoozeRowOK ==
    ASSUME NEW row \in JobRow, RowOK(row), row.state = Running,
           NEW e, e.snoozes = row.snoozes + 1, e.at \in Instant
    PROVE  RowOK(SnoozeRow(row, e))
<1> DEFINE new == SnoozeRow(row, e)
<1>1. /\ SubDurationClamped(e.at, row.boost) = Clamp(e.at - row.boost)
      /\ SubDurationClamped(e.at, row.boost) \in Instant
  BY SubDurationClampedIsClamp DEF JobRow
<1>2. /\ row.attempt \in Int /\ row.generation \in Nat /\ row.snoozes \in Nat
      /\ row.errors \in Seq(Int)
  BY DEF JobRow
<1>3. new \in JobRow
  <2>1. \A a \in Int, z \in Nat, p \in Instant :
          [row EXCEPT !.state = Retryable, !.attempt = a, !.scheduledAt = e.at,
                      !.priorityAt = p, !.finalizedAt = NoTime, !.snoozes = z] \in JobRow
    BY DEF JobRow, States
  <2>2. row.attempt - 1 \in Int /\ e.snoozes \in Nat
    BY <1>2
  <2> QED
    BY <2>1, <2>2, <1>1 DEF SnoozeRow
<1>4. /\ new.state = Retryable /\ new.attempt = row.attempt - 1
      /\ new.generation = row.generation /\ new.snoozes = row.snoozes + 1
      /\ new.errors = row.errors /\ new.finalizedAt = NoTime
      /\ new.scheduledAt = e.at /\ new.priorityAt = Clamp(e.at - row.boost)
      /\ new.boost = row.boost
  BY <1>1 DEF JobRow, SnoozeRow
<1> HIDE DEF new
<1>5. RowAccounted(new)
  BY <1>2, <1>4 DEF RowOK, RowAccounted
<1>6. RowErrorsOldestFirst(new)
  BY <1>2, <1>4
     DEF RowOK, RowErrorsOldestFirst, RowAccounted
<1>7. RowFinalized(new)
  BY <1>4 DEF RowOK, RowFinalized
<1>8. RowPriority(new)
  BY <1>4 DEF RowOK, RowPriority
<1> QED
  BY <1>3, <1>5, <1>6, <1>7, <1>8 DEF RowOK, new

\* A rescue, which keeps the attempt.
LEMMA RescueRowOK ==
    ASSUME NEW row \in JobRow, RowOK(row), row.state = Running, NEW now \in Instant
    PROVE  RowOK(RescueRow(row, now))
<1> DEFINE new == RescueRow(row, now)
<1>1. /\ SubDurationClamped(now, row.boost) = Clamp(now - row.boost)
      /\ SubDurationClamped(now, row.boost) \in Instant
  BY SubDurationClampedIsClamp DEF JobRow
<1>2. /\ row.attempt \in Int /\ row.generation \in Nat /\ row.snoozes \in Nat
      /\ row.errors \in Seq(Int)
  BY DEF JobRow
<1>3. new \in JobRow
  BY <1>1, <1>2
     DEF JobRow, States, RescueRow
<1>4. /\ new.state = Retryable /\ new.attempt = row.attempt
      /\ new.generation = row.generation /\ new.snoozes = row.snoozes
      /\ new.errors = row.errors /\ new.finalizedAt = row.finalizedAt
      /\ new.scheduledAt = now /\ new.priorityAt = Clamp(now - row.boost)
      /\ new.boost = row.boost
  BY <1>1 DEF JobRow, RescueRow
<1> HIDE DEF new
<1>5. RowAccounted(new)
  BY <1>2, <1>4 DEF RowOK, RowAccounted
<1>6. RowErrorsOldestFirst(new)
  BY <1>2, <1>4
     DEF RowOK, RowErrorsOldestFirst, RowAccounted
<1>7. RowFinalized(new)
  BY <1>4 DEF RowOK, RowFinalized
<1>8. RowPriority(new)
  BY <1>4 DEF RowOK, RowPriority
<1> QED
  BY <1>3, <1>5, <1>6, <1>7, <1>8 DEF RowOK, new

\* A due row becoming available.
LEMMA AvailableRowOK ==
    ASSUME NEW row \in JobRow, RowOK(row), row.state \in {Scheduled, Retryable}
    PROVE  RowOK([row EXCEPT !.state = Available])
<1> DEFINE new == [row EXCEPT !.state = Available]
<1>1. /\ row.attempt \in Int /\ row.generation \in Nat /\ row.snoozes \in Nat
      /\ row.errors \in Seq(Int)
  BY DEF JobRow
<1>2. new \in JobRow
  BY <1>1
     DEF JobRow, States
<1>3. /\ new.state = Available /\ new.attempt = row.attempt
      /\ new.generation = row.generation /\ new.snoozes = row.snoozes
      /\ new.errors = row.errors /\ new.finalizedAt = row.finalizedAt
      /\ new.scheduledAt = row.scheduledAt /\ new.priorityAt = row.priorityAt
      /\ new.boost = row.boost
  BY DEF JobRow
<1> HIDE DEF new
<1>4. RowAccounted(new)
  BY <1>1, <1>3 DEF RowOK, RowAccounted
<1>5. RowErrorsOldestFirst(new)
  BY <1>1, <1>3
     DEF RowOK, RowErrorsOldestFirst, RowAccounted
<1>6. RowFinalized(new)
  BY <1>3 DEF RowOK, RowFinalized
<1>7. RowPriority(new)
  BY <1>3 DEF RowOK, RowPriority
<1> QED
  BY <1>2, <1>4, <1>5, <1>6, <1>7 DEF RowOK, new

\* A renewed heartbeat leaves a row in order.
LEMMA RenewedRowOK ==
    ASSUME NEW row \in JobRow, RowOK(row), NEW now \in Instant
    PROVE  RowOK([row EXCEPT !.heartbeatAt = now])
<1> DEFINE new == [row EXCEPT !.heartbeatAt = now]
<1>1. /\ row.attempt \in Int /\ row.generation \in Nat /\ row.snoozes \in Nat
      /\ row.errors \in Seq(Int)
  BY DEF JobRow
<1>2. new \in JobRow
  BY <1>1
     DEF JobRow, States
<1>3. /\ new.state = row.state /\ new.attempt = row.attempt
      /\ new.generation = row.generation /\ new.snoozes = row.snoozes
      /\ new.errors = row.errors /\ new.finalizedAt = row.finalizedAt
      /\ new.scheduledAt = row.scheduledAt /\ new.priorityAt = row.priorityAt
      /\ new.boost = row.boost
  BY DEF JobRow
<1> HIDE DEF new
<1>4. RowAccounted(new)
  BY <1>1, <1>3 DEF RowOK, RowAccounted
<1>5. RowErrorsOldestFirst(new)
  BY <1>1, <1>3
     DEF RowOK, RowErrorsOldestFirst, RowAccounted
<1>6. RowFinalized(new)
  BY <1>3 DEF RowOK, RowFinalized
<1>7. RowPriority(new)
  BY <1>3 DEF RowOK, RowPriority
<1> QED
  BY <1>2, <1>4, <1>5, <1>6, <1>7 DEF RowOK, new

\* A request to stop.
LEMMA CancelRequestedRowOK ==
    ASSUME NEW row \in JobRow, RowOK(row)
    PROVE  RowOK([row EXCEPT !.cancelRequested = TRUE])
<1> DEFINE new == [row EXCEPT !.cancelRequested = TRUE]
<1>1. /\ row.attempt \in Int /\ row.generation \in Nat /\ row.snoozes \in Nat
      /\ row.errors \in Seq(Int)
  BY DEF JobRow
<1>2. new \in JobRow
  BY <1>1
     DEF JobRow, States
<1>3. /\ new.state = row.state /\ new.attempt = row.attempt
      /\ new.generation = row.generation /\ new.snoozes = row.snoozes
      /\ new.errors = row.errors /\ new.finalizedAt = row.finalizedAt
      /\ new.scheduledAt = row.scheduledAt /\ new.priorityAt = row.priorityAt
      /\ new.boost = row.boost
  BY DEF JobRow
<1> HIDE DEF new
<1>4. RowAccounted(new)
  BY <1>1, <1>3 DEF RowOK, RowAccounted
<1>5. RowErrorsOldestFirst(new)
  BY <1>1, <1>3
     DEF RowOK, RowErrorsOldestFirst, RowAccounted
<1>6. RowFinalized(new)
  BY <1>3 DEF RowOK, RowFinalized
<1>7. RowPriority(new)
  BY <1>3 DEF RowOK, RowPriority
<1> QED
  BY <1>2, <1>4, <1>5, <1>6, <1>7 DEF RowOK, new

-----------------------------------------------------------------------------
(* The inductive invariant, and the fence.                                 *)

RowsOK == \A i \in DOMAIN jobs : RowOK(jobs[i])

IInv == TypeOK /\ OneHolder /\ RowsOK /\ OneOutcomePerClaim

\* The inductive invariant implies each of the invariants the runs check.
LEMMA IInvImplies ==
    IInv => TypeOK /\ OneHolder /\ OneOutcomePerClaim /\ RowsSound
  BY DEF IInv, RowsOK, RowOK, RowsSound

\* The entry that wins a job is an entry of the batch that passes the fence.
LEMMA WinnerIsLive ==
    ASSUME NEW batch, NEW i, Won(jobs, batch, i)
    PROVE  \E k \in DOMAIN batch : /\ WinnerOf(jobs, batch, i) = batch[k]
                                   /\ batch[k].id = i
                                   /\ Live(jobs, batch[k])
<1> DEFINE P(k) == k \in Winners(jobs, batch) /\ batch[k].id = i
           k0 == CHOOSE k \in Winners(jobs, batch) : batch[k].id = i
<1>1. P(k0)
  BY DEF Won
<1>2. WinnerOf(jobs, batch, i) = batch[k0]
  BY DEF WinnerOf
<1> HIDE DEF k0
<1> QED
  BY <1>1, <1>2 DEF Winners

\* A claim that passes the fence is the one the running row was handed out as.
LEMMA LiveClaim ==
    ASSUME IInv, NEW c \in claims, Live(jobs, c)
    PROVE  /\ c.id \in DOMAIN jobs
           /\ jobs[c.id].state = Running
           /\ c.generation = jobs[c.id].generation
           /\ c.attempt = jobs[c.id].attempt
           /\ c.snoozes = jobs[c.id].snoozes
<1>1. /\ c.id \in DOMAIN jobs /\ jobs[c.id].state = Running
      /\ c.generation = jobs[c.id].generation
  BY DEF Live
<1>2. ClaimOf(jobs, c.id) \in claims
  BY <1>1 DEF IInv, OneHolder
<1>3. Token(ClaimOf(jobs, c.id)) = Token(c)
  BY <1>1 DEF ClaimOf, Token
<1>4. c = ClaimOf(jobs, c.id)
  BY <1>2, <1>3 DEF IInv, OneHolder
<1> QED
  BY <1>1, <1>4 DEF ClaimOf

\* So an entry that passes it quotes the row it finalizes.
LEMMA LiveEntry ==
    ASSUME IInv, NEW c \in claims, NEW at, NEW m,
           NEW e, e = Entry(c, at, m), Live(jobs, e)
    PROVE  /\ e.id \in DOMAIN jobs
           /\ jobs[e.id].state = Running
           /\ e.generation = jobs[e.id].generation
           /\ Quotes(e, jobs[e.id])
<1>1. /\ e.id = c.id /\ e.generation = c.generation /\ e.attempt = c.attempt
      /\ e.snoozes = c.snoozes
  BY DEF Entry
<1>2. Live(jobs, c)
  BY <1>1 DEF Live
<1> QED
  BY <1>1, <1>2, LiveClaim DEF Quotes

-----------------------------------------------------------------------------
(* The steps that hand out no claim.                                       *)

\* What such a step may do to the rows and to the record of outcomes.
KeepsHolders ==
    /\ nextID' = nextID /\ claims' = claims
    /\ DOMAIN jobs' \subseteq DOMAIN jobs
    /\ jobs' = [i \in DOMAIN jobs' |-> jobs'[i]]
    /\ \A i \in DOMAIN jobs' :
          /\ RowOK(jobs'[i])
          /\ jobs'[i].generation = jobs[i].generation
          /\ jobs'[i].state = Running => /\ jobs[i].state = Running
                                         /\ jobs'[i].attempt = jobs[i].attempt
                                         /\ jobs'[i].snoozes = jobs[i].snoozes
    /\ DOMAIN settled' = JobIds /\ settled' = [i \in JobIds |-> settled'[i]]
    /\ \A i \in JobIds :
          \/ settled'[i] = settled[i]
          \/ /\ i \in DOMAIN jobs /\ jobs[i].state = Running
             /\ settled'[i] = Append(settled[i], jobs[i].generation)
             /\ i \in DOMAIN jobs' => jobs'[i].state # Running

\* A step that adds no row and no claim keeps the invariant if it keeps the rows
\* in order and settles or releases a job only together with its holder.
LEMMA KeepsHoldersKeepsIInv == IInv /\ KeepsHolders => IInv'
<1> SUFFICES ASSUME IInv, KeepsHolders PROVE IInv'
  OBVIOUS
<1>1. \A i \in DOMAIN jobs : jobs[i] \in JobRow /\ jobs[i].generation \in Nat
  BY DEF IInv, RowsOK, RowOK, JobRow
<1>2. RowsOK'
  BY DEF KeepsHolders, RowsOK
<1>3. TypeOK'
  <2>1. jobs' \in [DOMAIN jobs' -> JobRow]
    BY DEF KeepsHolders, RowOK
  <2>2. settled' \in [JobIds -> Seq(Nat)]
    <3>1. ASSUME NEW i \in JobIds PROVE settled'[i] \in Seq(Nat)
      <4>1. settled[i] \in Seq(Nat)
        BY DEF IInv, TypeOK
      <4>2. CASE settled'[i] = settled[i]
        BY <4>1, <4>2
      <4>3. CASE settled'[i] # settled[i]
        <5>1. /\ settled'[i] = Append(settled[i], jobs[i].generation)
              /\ i \in DOMAIN jobs
          BY <4>3 DEF KeepsHolders
        <5> QED
          BY <4>1, <5>1, <1>1
      <4> QED
        BY <4>2, <4>3
    <3> QED
      BY <3>1 DEF KeepsHolders
  <2> QED
    BY <2>1, <2>2 DEF KeepsHolders, IInv, TypeOK
<1>4. OneHolder'
  <2>1. \A i \in DOMAIN jobs' : jobs'[i].state = Running
            => ClaimOf(jobs', i) = ClaimOf(jobs, i) /\ ClaimOf(jobs, i) \in claims
    BY DEF KeepsHolders, IInv, OneHolder, ClaimOf
  <2> QED
    BY <2>1 DEF KeepsHolders, IInv, OneHolder
<1>5. OneOutcomePerClaim'
  <2> SUFFICES ASSUME NEW i \in JobIds
               PROVE  /\ Increasing(settled'[i])
                      /\ \A k \in DOMAIN settled'[i] :
                            /\ \E c \in claims : c.id = i /\ c.generation = settled'[i][k]
                            /\ i \in DOMAIN jobs' /\ jobs'[i].state = Running
                                  => settled'[i][k] < jobs'[i].generation
    BY DEF OneOutcomePerClaim, KeepsHolders
  <2>1. CASE settled'[i] = settled[i]
    BY <2>1 DEF KeepsHolders, IInv, OneOutcomePerClaim
  <2>2. CASE settled'[i] # settled[i]
    <3> DEFINE g == jobs[i].generation
    <3>1. /\ i \in DOMAIN jobs /\ jobs[i].state = Running
          /\ settled'[i] = Append(settled[i], g)
          /\ i \in DOMAIN jobs' => jobs'[i].state # Running
      BY <2>2 DEF KeepsHolders
    <3>2. settled[i] \in Seq(Nat) /\ g \in Nat
      BY <3>1, <1>1 DEF IInv, TypeOK
    <3>3. settled[i] \in Seq(Int) /\ g \in Int
      BY <3>2
    <3>4. \A k \in DOMAIN settled[i] : settled[i][k] < g
      BY <3>1 DEF IInv, OneOutcomePerClaim
    <3>5. /\ Increasing(settled'[i])
          /\ \A k \in DOMAIN settled'[i] :
                IF k \in DOMAIN settled[i] THEN settled'[i][k] = settled[i][k]
                                          ELSE settled'[i][k] = g
      <4>1. /\ Increasing(Append(settled[i], g))
            /\ \A k \in DOMAIN Append(settled[i], g) :
                  IF k \in DOMAIN settled[i]
                  THEN Append(settled[i], g)[k] = settled[i][k]
                  ELSE Append(settled[i], g)[k] = g
        BY <3>3, <3>4, IncreasingAppend DEF IInv, OneOutcomePerClaim
      <4> QED
        BY <3>1, <4>1
    <3>6. ClaimOf(jobs, i) \in claims /\ ClaimOf(jobs, i).id = i
          /\ ClaimOf(jobs, i).generation = g
      BY <3>1 DEF IInv, OneHolder, ClaimOf
    <3>7. \A k \in DOMAIN settled[i] :
             \E c \in claims : c.id = i /\ c.generation = settled[i][k]
      BY DEF IInv, OneOutcomePerClaim
    <3> QED
      BY <3>1, <3>5, <3>6, <3>7
  <2> QED
    BY <2>1, <2>2
<1> QED
  BY <1>2, <1>3, <1>4, <1>5 DEF IInv

\* The entries callers make, up to the fields that only some of them have.
EntriesOfClaims(batch) ==
    \A k \in DOMAIN batch : \E c \in claims : \E at, m : batch[k] = Entry(c, at, m)

\* The entry that wins a job quotes the row it wins.
LEMMA WinnerQuotes ==
    ASSUME IInv, NEW batch, EntriesOfClaims(batch), NEW i, Won(jobs, batch, i)
    PROVE  /\ i \in DOMAIN jobs
           /\ jobs[i].state = Running
           /\ WinnerOf(jobs, batch, i).generation = jobs[i].generation
           /\ Quotes(WinnerOf(jobs, batch, i), jobs[i])
<1>1. PICK k \in DOMAIN batch : /\ WinnerOf(jobs, batch, i) = batch[k]
                                /\ batch[k].id = i
                                /\ Live(jobs, batch[k])
  BY WinnerIsLive
<1>2. PICK c \in claims : \E at, m : batch[k] = Entry(c, at, m)
  BY DEF EntriesOfClaims
<1>3. PICK at, m : batch[k] = Entry(c, at, m)
  BY <1>2
<1> QED
  BY <1>1, <1>3, LiveEntry

\* A finalization that leaves rows in order keeps the invariant.
LEMMA SettleStep ==
    ASSUME IInv, NEW batch, Settle(batch),
           jobs' = [i \in DOMAIN jobs |-> jobs'[i]],
           \A i : Won(jobs, batch, i) =>
                  /\ i \in DOMAIN jobs /\ jobs[i].state = Running
                  /\ WinnerOf(jobs, batch, i).generation = jobs[i].generation
                  /\ RowOK(jobs'[i])
                  /\ jobs'[i].generation = jobs[i].generation
                  /\ jobs'[i].state # Running,
           \A i \in DOMAIN jobs : ~Won(jobs, batch, i) => jobs'[i] = jobs[i]
    PROVE  IInv'
<1>1. DOMAIN jobs' = DOMAIN jobs
  OBVIOUS
<1>2. \A i \in JobIds :
          \/ settled'[i] = settled[i]
          \/ /\ i \in DOMAIN jobs /\ jobs[i].state = Running
             /\ settled'[i] = Append(settled[i], jobs[i].generation)
             /\ i \in DOMAIN jobs' => jobs'[i].state # Running
  BY DEF Settle
<1>3. DOMAIN settled' = JobIds /\ settled' = [i \in JobIds |-> settled'[i]]
  BY DEF Settle
<1>4. ASSUME NEW i \in DOMAIN jobs'
      PROVE  /\ RowOK(jobs'[i])
             /\ jobs'[i].generation = jobs[i].generation
             /\ jobs'[i].state = Running => /\ jobs[i].state = Running
                                            /\ jobs'[i].attempt = jobs[i].attempt
                                            /\ jobs'[i].snoozes = jobs[i].snoozes
  <2>1. CASE Won(jobs, batch, i)
    BY <2>1
  <2>2. CASE ~Won(jobs, batch, i)
    BY <2>2, <1>1 DEF IInv, RowsOK
  <2> QED
    BY <2>1, <2>2
<1>5. nextID' = nextID /\ claims' = claims
  BY DEF Settle
<1>6. KeepsHolders
  BY <1>1, <1>2, <1>3, <1>4, <1>5 DEF KeepsHolders
<1> QED
  BY <1>6, KeepsHoldersKeepsIInv

\* The entries of a batch of S are members of S.
LEMMA BatchEntries ==
    ASSUME NEW S, NEW batch \in BatchesOf(S)
    PROVE  \A k \in DOMAIN batch : batch[k] \in S
  BY DEF BatchesOf

\* Every batch a caller can send quotes claims it was handed.
LEMMA MadeOfClaims ==
    ASSUME NEW batch,
           \/ batch \in BatchesOf(PlainEntries)
           \/ batch \in BatchesOf(CancelEntries)
           \/ batch \in BatchesOf(RetryEntries)
    PROVE  EntriesOfClaims(batch)
<1> SUFFICES ASSUME NEW k \in DOMAIN batch
             PROVE  \E c \in claims : \E at, m : batch[k] = Entry(c, at, m)
  BY DEF EntriesOfClaims
<1>1. \/ batch[k] \in PlainEntries
      \/ batch[k] \in CancelEntries
      \/ batch[k] \in RetryEntries
  BY BatchEntries
<1>2. CASE batch[k] \in PlainEntries
  BY <1>2, Zenon DEF PlainEntries
<1>3. CASE batch[k] \in CancelEntries
  BY <1>3, Zenon DEF CancelEntries
<1>4. CASE batch[k] \in RetryEntries
  BY <1>4, Zenon DEF RetryEntries
<1> QED
  BY <1>1, <1>2, <1>3, <1>4

\* Complete keeps the invariant.
LEMMA CompleteStep ==
    ASSUME IInv, NEW now \in Clock, NEW batch \in BatchesOf(PlainEntries),
           Complete(batch, now)
    PROVE  IInv'
<1>1. EntriesOfClaims(batch)
  BY MadeOfClaims
<1>2. jobs' = [i \in DOMAIN jobs |-> IF Won(jobs, batch, i)
                                     THEN CompleteRow(jobs[i], WinnerOf(jobs, batch, i), now)
                                     ELSE jobs[i]]
  BY DEF Complete, Finalize
<1>3. ASSUME NEW i, Won(jobs, batch, i)
      PROVE  /\ i \in DOMAIN jobs /\ jobs[i].state = Running
             /\ WinnerOf(jobs, batch, i).generation = jobs[i].generation
             /\ RowOK(jobs'[i])
             /\ jobs'[i].generation = jobs[i].generation
             /\ jobs'[i].state # Running
  <2> DEFINE row == jobs[i]
             e == WinnerOf(jobs, batch, i)
  <2>1. /\ i \in DOMAIN jobs /\ row.state = Running
        /\ e.generation = row.generation /\ Quotes(e, row)
    BY <1>1, <1>3, WinnerQuotes
  <2>2. row \in JobRow /\ RowOK(row) /\ now \in Instant
    BY <2>1, ClockAssumption DEF IInv, RowsOK, RowOK
  <2>3. jobs'[i] = CompleteRow(row, e, now)
    BY <1>2, <1>3, <2>1
  <2>4. RowOK(CompleteRow(row, e, now))
    BY <2>1, <2>2, CompleteRowOK
  <2>5. /\ CompleteRow(row, e, now).generation = row.generation
        /\ CompleteRow(row, e, now).state # Running
    BY <2>2 DEF CompleteRow, JobRow
  <2> QED
    BY <2>1, <2>3, <2>4, <2>5
<1> QED
  BY <1>2, <1>3, SettleStep DEF Complete

\* Kill keeps the invariant.
LEMMA KillStep ==
    ASSUME IInv, NEW now \in Clock, NEW batch \in BatchesOf(PlainEntries),
           Kill(batch, now)
    PROVE  IInv'
<1>1. EntriesOfClaims(batch)
  BY MadeOfClaims
<1>2. jobs' = [i \in DOMAIN jobs |-> IF Won(jobs, batch, i)
                                     THEN KillRow(jobs[i], WinnerOf(jobs, batch, i), now)
                                     ELSE jobs[i]]
  BY DEF Kill, Finalize
<1>3. ASSUME NEW i, Won(jobs, batch, i)
      PROVE  /\ i \in DOMAIN jobs /\ jobs[i].state = Running
             /\ WinnerOf(jobs, batch, i).generation = jobs[i].generation
             /\ RowOK(jobs'[i])
             /\ jobs'[i].generation = jobs[i].generation
             /\ jobs'[i].state # Running
  <2> DEFINE row == jobs[i]
             e == WinnerOf(jobs, batch, i)
  <2>1. /\ i \in DOMAIN jobs /\ row.state = Running
        /\ e.generation = row.generation /\ Quotes(e, row)
    BY <1>1, <1>3, WinnerQuotes
  <2>2. row \in JobRow /\ RowOK(row) /\ now \in Instant
    BY <2>1, ClockAssumption DEF IInv, RowsOK, RowOK
  <2>3. jobs'[i] = KillRow(row, e, now)
    BY <1>2, <1>3, <2>1
  <2>4. RowOK(KillRow(row, e, now))
    BY <2>1, <2>2, KillRowOK
  <2>5. /\ KillRow(row, e, now).generation = row.generation
        /\ KillRow(row, e, now).state # Running
    BY <2>2 DEF KillRow, JobRow
  <2> QED
    BY <2>1, <2>3, <2>4, <2>5
<1> QED
  BY <1>2, <1>3, SettleStep DEF Kill

\* Cancel keeps the invariant.
LEMMA CancelStep ==
    ASSUME IInv, NEW now \in Clock, NEW batch \in BatchesOf(CancelEntries),
           Cancel(batch, now)
    PROVE  IInv'
<1>1. EntriesOfClaims(batch)
  BY MadeOfClaims
<1>2. jobs' = [i \in DOMAIN jobs |-> IF Won(jobs, batch, i)
                                     THEN CancelRow(jobs[i], WinnerOf(jobs, batch, i), now)
                                     ELSE jobs[i]]
  BY DEF Cancel, Finalize
<1>3. ASSUME NEW i, Won(jobs, batch, i)
      PROVE  /\ i \in DOMAIN jobs /\ jobs[i].state = Running
             /\ WinnerOf(jobs, batch, i).generation = jobs[i].generation
             /\ RowOK(jobs'[i])
             /\ jobs'[i].generation = jobs[i].generation
             /\ jobs'[i].state # Running
  <2> DEFINE row == jobs[i]
             e == WinnerOf(jobs, batch, i)
  <2>1. /\ i \in DOMAIN jobs /\ row.state = Running
        /\ e.generation = row.generation /\ Quotes(e, row)
    BY <1>1, <1>3, WinnerQuotes
  <2>2. row \in JobRow /\ RowOK(row) /\ now \in Instant
    BY <2>1, ClockAssumption DEF IInv, RowsOK, RowOK
  <2>3. jobs'[i] = CancelRow(row, e, now)
    BY <1>2, <1>3, <2>1
  <2>4. RowOK(CancelRow(row, e, now))
    BY <2>1, <2>2, CancelRowOK
  <2>5. /\ CancelRow(row, e, now).generation = row.generation
        /\ CancelRow(row, e, now).state # Running
    BY <2>2 DEF CancelRow, JobRow
  <2> QED
    BY <2>1, <2>3, <2>4, <2>5
<1> QED
  BY <1>2, <1>3, SettleStep DEF Cancel

\* Retry keeps the invariant, whether it refuses the batch or not.
LEMMA RetryStep ==
    ASSUME IInv, NEW batch \in BatchesOf(RetryEntries), Retry(batch)
    PROVE  IInv'
<1>1. CASE ~AllStorable(batch)
  BY <1>1 DEF Retry, vars, IInv, TypeOK, OneHolder, RowsOK, OneOutcomePerClaim
<1>2. CASE AllStorable(batch)
  <2>1. jobs' = [i \in DOMAIN jobs |-> IF Won(jobs, batch, i)
                                       THEN RetryRow(jobs[i], WinnerOf(jobs, batch, i))
                                       ELSE jobs[i]]
        /\ Settle(batch)
    BY <1>2 DEF Retry, Finalize
  <2>2. ASSUME NEW i, Won(jobs, batch, i)
        PROVE  /\ i \in DOMAIN jobs /\ jobs[i].state = Running
               /\ WinnerOf(jobs, batch, i).generation = jobs[i].generation
               /\ RowOK(jobs'[i])
               /\ jobs'[i].generation = jobs[i].generation
               /\ jobs'[i].state # Running
    <3> DEFINE row == jobs[i]
               e == WinnerOf(jobs, batch, i)
    <3>1. /\ i \in DOMAIN jobs /\ row.state = Running
          /\ e.generation = row.generation /\ Quotes(e, row)
      BY <2>2, MadeOfClaims, WinnerQuotes
    <3>2. row \in JobRow /\ RowOK(row)
      BY <3>1 DEF IInv, RowsOK, RowOK
    <3>3. e.at \in Instant
      BY <1>2, <2>2, WinnerIsLive DEF AllStorable, ValidateInstant
    <3>4. jobs'[i] = RetryRow(row, e)
      BY <2>1, <2>2, <3>1
    <3>5. RowOK(RetryRow(row, e))
      BY <3>1, <3>2, <3>3, RetryRowOK
    <3>6. /\ RetryRow(row, e).generation = row.generation
          /\ RetryRow(row, e).state # Running
      BY <3>2 DEF RetryRow, JobRow
    <3> QED
      BY <3>1, <3>4, <3>5, <3>6
  <2> QED
    BY <2>1, <2>2, SettleStep
<1> QED
  BY <1>1, <1>2

\* A snooze quotes one snooze more than the row it wins.
LEMMA SnoozeWinner ==
    ASSUME IInv, NEW batch \in BatchesOf(SnoozeEntries), NEW i, Won(jobs, batch, i)
    PROVE  /\ i \in DOMAIN jobs
           /\ jobs[i].state = Running
           /\ WinnerOf(jobs, batch, i).generation = jobs[i].generation
           /\ WinnerOf(jobs, batch, i).snoozes = jobs[i].snoozes + 1
<1>1. PICK k \in DOMAIN batch : /\ WinnerOf(jobs, batch, i) = batch[k]
                                /\ batch[k].id = i
                                /\ Live(jobs, batch[k])
  BY WinnerIsLive
<1>2. PICK e : e \in RetryEntries /\ batch[k] = [e EXCEPT !.snoozes = @ + 1]
  BY BatchEntries DEF SnoozeEntries
<1>3. PICK c \in claims : \E at, m : e = Entry(c, at, m)
  <2>1. e \in RetryEntries
    BY <1>2
  <2> QED
    BY <2>1, Zenon DEF RetryEntries
<1>4. /\ batch[k].id = c.id /\ batch[k].generation = c.generation
      /\ batch[k].snoozes = c.snoozes + 1
  BY <1>2, <1>3 DEF Entry
<1>5. Live(jobs, c)
  BY <1>1, <1>4 DEF Live
<1> QED
  BY <1>1, <1>4, <1>5, LiveClaim

\* Snooze keeps the invariant, whether it refuses the batch or not.
LEMMA SnoozeStep ==
    ASSUME IInv, NEW batch \in BatchesOf(SnoozeEntries), Snooze(batch)
    PROVE  IInv'
<1>1. CASE ~AllStorable(batch)
  BY <1>1 DEF Snooze, vars, IInv, TypeOK, OneHolder, RowsOK, OneOutcomePerClaim
<1>2. CASE AllStorable(batch)
  <2>1. jobs' = [i \in DOMAIN jobs |-> IF Won(jobs, batch, i)
                                       THEN SnoozeRow(jobs[i], WinnerOf(jobs, batch, i))
                                       ELSE jobs[i]]
        /\ Settle(batch)
    BY <1>2 DEF Snooze, Finalize
  <2>2. ASSUME NEW i, Won(jobs, batch, i)
        PROVE  /\ i \in DOMAIN jobs /\ jobs[i].state = Running
               /\ WinnerOf(jobs, batch, i).generation = jobs[i].generation
               /\ RowOK(jobs'[i])
               /\ jobs'[i].generation = jobs[i].generation
               /\ jobs'[i].state # Running
    <3> DEFINE row == jobs[i]
               e == WinnerOf(jobs, batch, i)
    <3>1. /\ i \in DOMAIN jobs /\ row.state = Running
          /\ e.generation = row.generation /\ e.snoozes = row.snoozes + 1
      BY <2>2, SnoozeWinner
    <3>2. row \in JobRow /\ RowOK(row)
      BY <3>1 DEF IInv, RowsOK, RowOK
    <3>3. e.at \in Instant
      BY <1>2, <2>2, WinnerIsLive DEF AllStorable, ValidateInstant
    <3>4. jobs'[i] = SnoozeRow(row, e)
      BY <2>1, <2>2, <3>1
    <3>5. RowOK(SnoozeRow(row, e))
      BY <3>1, <3>2, <3>3, SnoozeRowOK
    <3>6. /\ SnoozeRow(row, e).generation = row.generation
          /\ SnoozeRow(row, e).state # Running
      BY <3>2 DEF SnoozeRow, JobRow
    <3> QED
      BY <3>1, <3>4, <3>5, <3>6
  <2> QED
    BY <2>1, <2>2, SettleStep
<1> QED
  BY <1>1, <1>2

\* Heartbeat keeps the invariant.
LEMMA HeartbeatStep ==
    ASSUME IInv, NEW now \in Clock, NEW tokens \in SUBSET claims, Heartbeat(tokens, now)
    PROVE  IInv'
<1>1. jobs' = [i \in DOMAIN jobs |-> IF \E t \in tokens : t.id = i /\ Live(jobs, t)
                                     THEN [jobs[i] EXCEPT !.heartbeatAt = now]
                                     ELSE jobs[i]]
      /\ UNCHANGED <<nextID, claims, settled>>
  BY DEF Heartbeat, Renew
<1>2. ASSUME NEW i \in DOMAIN jobs
      PROVE  /\ RowOK(jobs'[i]) /\ jobs'[i].generation = jobs[i].generation
             /\ jobs'[i].state = jobs[i].state /\ jobs'[i].attempt = jobs[i].attempt
             /\ jobs'[i].snoozes = jobs[i].snoozes
  <2>1. jobs[i] \in JobRow /\ RowOK(jobs[i]) /\ now \in Instant
    BY ClockAssumption DEF IInv, RowsOK, RowOK
  <2>2. jobs'[i] = jobs[i] \/ jobs'[i] = [jobs[i] EXCEPT !.heartbeatAt = now]
    BY <1>1
  <2>3. CASE jobs'[i] = jobs[i]
    BY <2>1, <2>3
  <2>4. CASE jobs'[i] = [jobs[i] EXCEPT !.heartbeatAt = now]
    BY <2>1, <2>4, RenewedRowOK DEF JobRow
  <2> QED
    BY <2>2, <2>3, <2>4
<1>3. KeepsHolders
  BY <1>1, <1>2 DEF KeepsHolders, IInv, TypeOK
<1> QED
  BY <1>3, KeepsHoldersKeepsIInv

\* MoveDue keeps the invariant.
LEMMA MoveDueStep ==
    ASSUME IInv, NEW now \in Clock, NEW limit, MoveDue(limit, now)
    PROVE  IInv'
<1>1. PICK ids \in SUBSET Due(jobs, now) :
         jobs' = [i \in DOMAIN jobs |-> IF i \in ids THEN [jobs[i] EXCEPT !.state = Available]
                                        ELSE jobs[i]]
  BY DEF MoveDue, UpTo, MakeAvailable
<1>2. UNCHANGED <<nextID, claims, settled>>
  BY DEF MoveDue
<1>3. ASSUME NEW i \in DOMAIN jobs
      PROVE  /\ RowOK(jobs'[i]) /\ jobs'[i].generation = jobs[i].generation
             /\ jobs'[i].state = Running => jobs'[i] = jobs[i]
  <2>1. jobs[i] \in JobRow /\ RowOK(jobs[i])
    BY DEF IInv, RowsOK, RowOK
  <2>2. CASE i \in ids
    <3>1. jobs[i].state \in {Scheduled, Retryable}
      BY <2>2 DEF Due
    <3>2. jobs'[i] = [jobs[i] EXCEPT !.state = Available]
      BY <1>1, <2>2
    <3> QED
      BY <2>1, <3>1, <3>2, AvailableRowOK DEF JobRow
  <2>3. CASE i \notin ids
    BY <1>1, <2>1, <2>3
  <2> QED
    BY <2>2, <2>3
<1>4. KeepsHolders
  BY <1>1, <1>2, <1>3 DEF KeepsHolders, IInv, TypeOK
<1> QED
  BY <1>4, KeepsHoldersKeepsIInv

\* RescueStale keeps the invariant.
LEMMA RescueStep ==
    ASSUME IInv, NEW now \in Clock, NEW limit, RescueStale(limit, now)
    PROVE  IInv'
<1>1. PICK ids \in SUBSET Stale(jobs, now, TTL) :
         jobs' = [i \in DOMAIN jobs |-> IF i \in ids THEN RescueRow(jobs[i], now)
                                        ELSE jobs[i]]
  BY DEF RescueStale, UpTo, Rescue
<1>2. UNCHANGED <<nextID, claims, settled>>
  BY DEF RescueStale
<1>3. ASSUME NEW i \in DOMAIN jobs
      PROVE  /\ RowOK(jobs'[i]) /\ jobs'[i].generation = jobs[i].generation
             /\ jobs'[i].state = Running => jobs'[i] = jobs[i]
  <2>1. jobs[i] \in JobRow /\ RowOK(jobs[i]) /\ now \in Instant
    BY ClockAssumption DEF IInv, RowsOK, RowOK
  <2>2. CASE i \in ids
    <3>1. jobs[i].state = Running
      BY <2>2 DEF Stale
    <3>2. jobs'[i] = RescueRow(jobs[i], now)
      BY <1>1, <2>2
    <3>3. /\ RescueRow(jobs[i], now).generation = jobs[i].generation
          /\ RescueRow(jobs[i], now).state # Running
      BY <2>1 DEF RescueRow, JobRow
    <3> QED
      BY <2>1, <3>1, <3>2, <3>3, RescueRowOK
  <2>3. CASE i \notin ids
    BY <1>1, <2>1, <2>3
  <2> QED
    BY <2>2, <2>3
<1>4. KeepsHolders
  BY <1>1, <1>2, <1>3 DEF KeepsHolders, IInv, TypeOK
<1> QED
  BY <1>4, KeepsHoldersKeepsIInv

\* Clean and Reset.
LEMMA DeleteStep ==
    ASSUME IInv, NEW ids, jobs' = Delete(jobs, ids), UNCHANGED <<nextID, claims, settled>>
    PROVE  IInv'
<1>1. /\ DOMAIN jobs' \subseteq DOMAIN jobs
      /\ \A i \in DOMAIN jobs' : jobs'[i] = jobs[i]
      /\ jobs' = [i \in DOMAIN jobs' |-> jobs'[i]]
  BY DEF Delete
<1>2. KeepsHolders
  BY <1>1 DEF KeepsHolders, IInv, TypeOK, RowsOK
<1> QED
  BY <1>2, KeepsHoldersKeepsIInv

\* SetCancelRequested keeps the invariant.
LEMMA SetCancelRequestedStep ==
    ASSUME IInv, NEW i \in DOMAIN jobs, SetCancelRequested(i)
    PROVE  IInv'
<1>1. /\ DOMAIN jobs' = DOMAIN jobs
      /\ jobs' = [j \in DOMAIN jobs' |-> jobs'[j]]
      /\ \A j \in DOMAIN jobs : j # i => jobs'[j] = jobs[j]
      /\ jobs'[i] = [jobs[i] EXCEPT !.cancelRequested = TRUE]
  BY DEF SetCancelRequested, IInv, TypeOK
<1>2. jobs[i] \in JobRow /\ RowOK(jobs[i])
  BY DEF IInv, RowsOK, RowOK
<1>3. /\ RowOK(jobs'[i]) /\ jobs'[i].generation = jobs[i].generation
      /\ jobs'[i].state = jobs[i].state /\ jobs'[i].attempt = jobs[i].attempt
      /\ jobs'[i].snoozes = jobs[i].snoozes
  BY <1>1, <1>2, CancelRequestedRowOK DEF JobRow
<1>4. KeepsHolders
  BY <1>1, <1>3 DEF KeepsHolders, SetCancelRequested, IInv, TypeOK, RowsOK
<1> QED
  BY <1>4, KeepsHoldersKeepsIInv

-----------------------------------------------------------------------------
(* The steps that add rows or claims.                                      *)

\* A batch is a sequence of its members, no longer than MaxBatch.
LEMMA BatchLen ==
    ASSUME NEW S, NEW batch \in BatchesOf(S)
    PROVE  Len(batch) \in Nat /\ DOMAIN batch = 1..Len(batch)
<1>1. PICK n \in 1..MaxBatch : batch \in [1..n -> S]
  BY DEF BatchesOf
<1>2. n \in Nat
  BY <1>1, BoundsAssumption
<1>3. batch \in Seq(S)
  BY <1>1, <1>2
<1> QED
  BY <1>3

\* Enqueue keeps the invariant: the IDs it assigns were never in use.
LEMMA EnqueueStep ==
    ASSUME IInv, NEW now \in Clock, NEW reqs \in BatchesOf(Requests), Enqueue(reqs, now)
    PROVE  IInv'
<1>1. CASE ~Accepted(reqs, now)
  BY <1>1 DEF Enqueue, IInv, TypeOK, OneHolder, RowsOK, OneOutcomePerClaim
<1>2. CASE Accepted(reqs, now)
  <2> DEFINE new == (nextID + 1)..(nextID + Len(reqs))
  <2>1. /\ nextID \in Nat /\ MaxID \in Nat /\ DOMAIN jobs \subseteq 1..nextID
        /\ Len(reqs) \in Nat /\ DOMAIN reqs = 1..Len(reqs)
    BY BoundsAssumption, BatchLen DEF IInv, TypeOK
  <2>2. /\ jobs' = [i \in DOMAIN jobs \union new |->
                       IF i \in DOMAIN jobs THEN jobs[i] ELSE NewRow(reqs[i - nextID], now)]
        /\ nextID' = nextID + Len(reqs) /\ nextID' <= MaxID
        /\ claims' = claims /\ settled' = settled
    BY <1>2 DEF Enqueue, Insert
  <2>3. ASSUME NEW i \in new
        PROVE  /\ i \notin DOMAIN jobs
               /\ RowOK(jobs'[i]) /\ jobs'[i] \in JobRow
               /\ jobs'[i].state # Running
    <3> DEFINE req == reqs[i - nextID]
    <3>1. i \notin DOMAIN jobs /\ i - nextID \in DOMAIN reqs
      BY <2>1
    <3>2. req \in Request
      <4>1. req \in Requests
        BY <3>1, BatchEntries
      <4> QED
        BY <4>1, BoostsAssumption, StartTimesAssumption DEF Requests, Request
    <3>3. SubStorable(StartAt(req, now), req.boost)
      BY <1>2, <3>1 DEF Accepted
    <3>4. now \in Instant
      BY ClockAssumption
    <3>5. RowOK(NewRow(req, now))
      BY <3>2, <3>3, <3>4, NewRowOK
    <3>6. jobs'[i] = NewRow(req, now)
      BY <2>2, <3>1
    <3>7. NewRow(req, now).state # Running
      BY DEF NewRow
    <3> QED
      BY <3>1, <3>5, <3>6, <3>7 DEF RowOK
  <2>4. \A i \in DOMAIN jobs : jobs'[i] = jobs[i] /\ i <= nextID
    BY <2>1, <2>2
  <2>5. RowsOK'
    BY <2>2, <2>3, <2>4 DEF IInv, RowsOK
  <2>6. TypeOK'
    <3>1. DOMAIN jobs' \subseteq 1..nextID' /\ nextID' \in 0..MaxID
      BY <2>1, <2>2
    <3>2. jobs' \in [DOMAIN jobs' -> JobRow]
      <4>1. \A i \in DOMAIN jobs' : jobs'[i] \in JobRow
        BY <2>5 DEF RowsOK, RowOK
      <4>2. jobs' = [i \in DOMAIN jobs' |-> jobs'[i]]
        BY <2>2
      <4> QED
        BY <4>1, <4>2
    <3> QED
      BY <2>2, <3>1, <3>2 DEF IInv, TypeOK
  <2>7. OneHolder'
    <3>1. \A c \in claims' : c \in claims /\ c.id <= nextID' /\ c.id \notin new
      <4>1. \A c \in claims : c.id \in Nat /\ c.id <= nextID
        BY BoundsAssumption DEF IInv, TypeOK, OneHolder, Claims, JobIds
      <4> QED
        BY <2>1, <2>2, <4>1
    <3>2. \A i \in DOMAIN jobs : ClaimOf(jobs', i) = ClaimOf(jobs, i)
      BY <2>4 DEF ClaimOf
    <3> QED
      BY <2>2, <2>3, <2>4, <3>1, <3>2 DEF IInv, OneHolder
  <2>8. OneOutcomePerClaim'
    BY <2>2, <2>3, <2>4 DEF IInv, OneOutcomePerClaim
  <2> QED
    BY <2>5, <2>6, <2>7, <2>8 DEF IInv
<1> QED
  BY <1>1, <1>2

\* Fetch keeps the invariant: every claim it hands out is of a generation of its own.
LEMMA FetchStep ==
    ASSUME IInv, NEW now \in Clock, NEW queue, NEW limit, Fetch(queue, limit, now)
    PROVE  IInv'
<1> DEFINE ids == FirstOf(jobs, Claimable(jobs, queue, now), limit)
<1>1. /\ jobs' = [i \in DOMAIN jobs |-> IF i \in ids THEN ClaimRow(jobs[i], now) ELSE jobs[i]]
      /\ claims' = claims \union {ClaimOf(jobs', i) : i \in ids}
      /\ nextID' = nextID /\ settled' = settled
  BY DEF Fetch, Claim
<1>2. ids \subseteq DOMAIN jobs /\ \A i \in ids : jobs[i].state = Available
  BY DEF FirstOf, Claimable
<1> HIDE DEF ids
<1>3. \A i \in DOMAIN jobs : jobs[i] \in JobRow /\ RowOK(jobs[i])
  BY DEF IInv, RowsOK, RowOK
<1>4. ASSUME NEW i \in ids
      PROVE  /\ RowOK(jobs'[i]) /\ jobs'[i] \in JobRow
             /\ jobs'[i].generation = jobs[i].generation + 1
             /\ jobs'[i].attempt \in Nat \ {0} /\ jobs'[i].snoozes \in Nat
             /\ jobs'[i].state = Running
             /\ jobs[i].generation \in Nat
  <2>1. /\ jobs'[i] = ClaimRow(jobs[i], now) /\ jobs[i].state = Available
        /\ jobs[i] \in JobRow /\ RowOK(jobs[i]) /\ now \in Instant
    BY <1>1, <1>2, <1>3, ClockAssumption
  <2>2. RowOK(jobs'[i])
    BY <2>1, ClaimRowOK
  <2>3. jobs'[i].generation = jobs[i].generation + 1 /\ jobs'[i].state = Running
    BY <2>1 DEF ClaimRow, JobRow
  <2>4. jobs'[i].attempt \in Int /\ jobs'[i].attempt >= 1 /\ jobs'[i].snoozes \in Nat
    BY <2>2, <2>3 DEF RowOK, RowAccounted, JobRow
  <2>5. jobs[i].generation \in Nat
    BY <2>1 DEF JobRow
  <2> QED
    BY <2>2, <2>3, <2>4, <2>5 DEF RowOK
<1>5. \A i \in DOMAIN jobs \ ids : jobs'[i] = jobs[i]
  BY <1>1
<1>6. DOMAIN jobs' = DOMAIN jobs /\ jobs' = [i \in DOMAIN jobs |-> jobs'[i]]
  BY <1>1
<1>7. RowsOK'
  BY <1>3, <1>4, <1>5, <1>6 DEF RowsOK
<1>8. \A i \in ids : /\ ClaimOf(jobs', i).id = i
                     /\ ClaimOf(jobs', i).generation = jobs[i].generation + 1
                     /\ ClaimOf(jobs', i) \in Claims
  <2> SUFFICES ASSUME NEW i \in ids
               PROVE  /\ ClaimOf(jobs', i).id = i
                      /\ ClaimOf(jobs', i).generation = jobs[i].generation + 1
                      /\ ClaimOf(jobs', i) \in Claims
    OBVIOUS
  <2>1. i \in JobIds
    BY <1>2, BoundsAssumption DEF IInv, TypeOK, JobIds
  <2> QED
    BY <1>4, <2>1 DEF ClaimOf, Claims
<1>9. TypeOK'
  <2>1. jobs' \in [DOMAIN jobs' -> JobRow]
    BY <1>3, <1>4, <1>5, <1>6
  <2>2. claims' \subseteq Claims
    BY <1>1, <1>8 DEF IInv, TypeOK
  <2> QED
    BY <1>1, <1>6, <2>1, <2>2 DEF IInv, TypeOK
\* What distinguishes a claim handed out now: its generation is above all others.
<1>10. \A c \in claims : \A i \in ids : c.id = i => c.generation <= jobs[i].generation
                                                 /\ c.generation \in Nat
  BY <1>2 DEF IInv, OneHolder, TypeOK, Claims
<1>11. OneHolder'
  <2>1. \A c \in claims' : c.id <= nextID'
    <3>1. \A i \in ids : i <= nextID
      BY <1>2 DEF IInv, TypeOK
    <3> QED
      BY <1>1, <1>8, <3>1 DEF IInv, OneHolder
  <2>2. ASSUME NEW c \in claims', NEW d \in claims', Token(c) = Token(d)
        PROVE  c = d
    <3>1. c.id = d.id /\ c.generation = d.generation
      BY <2>2 DEF Token
    <3>2. CASE c \in claims /\ d \in claims
      BY <2>2, <3>2 DEF IInv, OneHolder
    <3>3. CASE c \in claims /\ d \notin claims
      <4>1. PICK i \in ids : d = ClaimOf(jobs', i)
        BY <1>1, <3>3
      <4>2. d.id = i /\ d.generation = jobs[i].generation + 1
        BY <1>8, <4>1
      <4>3. c.generation <= jobs[i].generation /\ c.generation \in Nat
        BY <1>10, <3>1, <3>3, <4>2
      <4> QED
        BY <1>4, <3>1, <4>2, <4>3
    <3>4. CASE c \notin claims /\ d \in claims
      <4>1. PICK i \in ids : c = ClaimOf(jobs', i)
        BY <1>1, <3>4
      <4>2. c.id = i /\ c.generation = jobs[i].generation + 1
        BY <1>8, <4>1
      <4>3. d.generation <= jobs[i].generation /\ d.generation \in Nat
        BY <1>10, <3>1, <3>4, <4>2
      <4> QED
        BY <1>4, <3>1, <4>2, <4>3
    <3>5. CASE c \notin claims /\ d \notin claims
      <4>1. PICK i \in ids, j \in ids : c = ClaimOf(jobs', i) /\ d = ClaimOf(jobs', j)
        BY <1>1, <3>5
      <4> QED
        BY <1>8, <3>1, <4>1
    <3> QED
      BY <3>2, <3>3, <3>4, <3>5
  <2>3. ASSUME NEW i \in DOMAIN jobs', NEW c \in claims', c.id = i
        PROVE  c.generation <= jobs'[i].generation
    <3>1. CASE c \in claims
      <4>1. c.generation <= jobs[i].generation /\ c.generation \in Nat
        BY <1>6, <2>3, <3>1 DEF IInv, OneHolder, TypeOK, Claims
      <4> QED
        BY <1>4, <1>5, <1>6, <4>1
    <3>2. CASE c \notin claims
      <4>1. PICK j \in ids : c = ClaimOf(jobs', j)
        BY <1>1, <3>2
      <4>2. j = i /\ c.generation = jobs[i].generation + 1
        BY <1>8, <2>3, <4>1
      <4> QED
        BY <1>4, <4>2
    <3> QED
      BY <3>1, <3>2
  <2>4. ASSUME NEW i \in DOMAIN jobs', jobs'[i].state = Running
        PROVE  ClaimOf(jobs', i) \in claims'
    <3>1. CASE i \in ids
      BY <1>1, <3>1
    <3>2. CASE i \notin ids
      <4>1. ClaimOf(jobs', i) = ClaimOf(jobs, i)
        BY <1>5, <1>6, <3>2 DEF ClaimOf
      <4> QED
        BY <1>1, <1>5, <1>6, <2>4, <3>2, <4>1 DEF IInv, OneHolder
    <3> QED
      BY <3>1, <3>2
  <2> QED
    BY <2>1, <2>2, <2>3, <2>4 DEF OneHolder
<1>12. OneOutcomePerClaim'
  <2> SUFFICES ASSUME NEW i \in JobIds, NEW k \in DOMAIN settled[i],
                      i \in DOMAIN jobs', jobs'[i].state = Running
               PROVE  settled[i][k] < jobs'[i].generation
    BY <1>1 DEF IInv, OneOutcomePerClaim
  <2>1. CASE i \in ids
    <3>1. PICK c \in claims : c.id = i /\ c.generation = settled[i][k]
      BY DEF IInv, OneOutcomePerClaim
    <3>2. c.generation <= jobs[i].generation /\ c.generation \in Nat
      BY <1>10, <2>1, <3>1
    <3> QED
      BY <1>4, <2>1, <3>1, <3>2
  <2>2. CASE i \notin ids
    BY <1>5, <1>6, <2>2 DEF IInv, OneOutcomePerClaim
  <2> QED
    BY <2>1, <2>2
<1> QED
  BY <1>7, <1>9, <1>11, <1>12 DEF IInv

-----------------------------------------------------------------------------
(* The invariant holds of every behaviour.                                 *)

\* The empty store satisfies the invariant.
LEMMA InitIInv == Init => IInv
<1> SUFFICES ASSUME Init PROVE IInv
  OBVIOUS
<1>1. DOMAIN jobs = {} /\ jobs = [i \in {} |-> NoTime]
  BY DEF Init, EmptyStore
<1>2. jobs \in [DOMAIN jobs -> JobRow]
  BY <1>1
<1>3. TypeOK
  BY <1>1, <1>2, BoundsAssumption DEF Init, TypeOK
<1>4. OneHolder /\ RowsOK
  BY <1>1 DEF Init, OneHolder, RowsOK
<1>5. OneOutcomePerClaim
  BY DEF Init, OneOutcomePerClaim, Increasing
<1> QED
  BY <1>3, <1>4, <1>5 DEF IInv

\* Every step keeps the invariant.
LEMMA NextIInv == IInv /\ [Next]_vars => IInv'
<1> SUFFICES ASSUME IInv, [Next]_vars PROVE IInv'
  OBVIOUS
<1>1. CASE \E now \in Clock : \E reqs \in BatchesOf(Requests) : Enqueue(reqs, now)
  BY <1>1, EnqueueStep
<1>2. CASE \E now \in Clock : \E queue \in Queues, limit \in Limits : Fetch(queue, limit, now)
  BY <1>2, FetchStep
<1>3. CASE \E now \in Clock : \E batch \in BatchesOf(PlainEntries) :
              Complete(batch, now) \/ Kill(batch, now)
  BY <1>3, CompleteStep, KillStep
<1>4. CASE \E now \in Clock : \E batch \in BatchesOf(CancelEntries) : Cancel(batch, now)
  BY <1>4, CancelStep
<1>5. CASE \E now \in Clock : \E tokens \in SUBSET claims : Heartbeat(tokens, now)
  BY <1>5, HeartbeatStep
<1>6. CASE \E now \in Clock : \E limit \in Limits : MoveDue(limit, now)
  BY <1>6, MoveDueStep
<1>7. CASE \E now \in Clock : \E limit \in Limits : RescueStale(limit, now)
  BY <1>7, RescueStep
<1>8. CASE \E now \in Clock : \E limit \in Limits : Clean(limit, now)
  BY <1>8, DeleteStep DEF Clean
<1>9. CASE \E batch \in BatchesOf(RetryEntries) : Retry(batch)
  BY <1>9, RetryStep
<1>10. CASE \E batch \in BatchesOf(SnoozeEntries) : Snooze(batch)
  BY <1>10, SnoozeStep
<1>11. CASE \E i \in DOMAIN jobs \intersect Cancellable : SetCancelRequested(i)
  BY <1>11, SetCancelRequestedStep
<1>12. CASE Reset
  BY <1>12, DeleteStep DEF Reset
<1>13. CASE UNCHANGED vars
  BY <1>13 DEF vars, IInv, TypeOK, OneHolder, RowsOK, OneOutcomePerClaim
<1> QED
  BY <1>1, <1>2, <1>3, <1>4, <1>5, <1>6, <1>7, <1>8, <1>9, <1>10, <1>11, <1>12, <1>13
     DEF Next

\* The inductive invariant holds of every behaviour.
LEMMA Invariant == Spec => []IInv
  BY InitIInv, NextIInv, PTL DEF Spec

\* The rows, the IDs and the histories always have their types.
THEOREM TypeCorrect == Spec => []TypeOK
  BY Invariant, IInvImplies, PTL

\* A running row is held by exactly the claim handed out for its generation,
\* and no claim is of a generation its job has not reached: what the fence of
\* memory.go:125 rests on, for any number of jobs, claims and callers.
THEOREM HolderIsUnique == Spec => []OneHolder
  BY Invariant, IInvImplies, PTL

\* However late, repeated or mixed the finalizations, each claim's outcome is
\* recorded at most once and outcomes are recorded in the order of the claims.
THEOREM OutcomesAreFenced == Spec => []OneOutcomePerClaim
  BY Invariant, IInvImplies, PTL

\* Whatever the calls and their order, the rows stay coherent: the attempts are
\* the claims less the snoozes, the errors are in order, FinalizedAt agrees with
\* the state, and PriorityAt never wraps, at any width of the instants.
THEOREM RowsAreSound == Spec => []RowsSound
  BY Invariant, IInvImplies, PTL

-----------------------------------------------------------------------------
USE DEF Scheduled, Available, Running, Retryable, Completed, Cancelled, Dead,
        TerminalStates

(* The moves.                                                              *)

Phase(row) == PhaseOf(row.state)

\* Neither the outcomes nor the claims of job i change.
SameHistory(i) == settled'[i] = settled[i] /\ Generations(i)' = Generations(i)

\* Job i keeps its row, changed or not, or its want of one.
Kept(i) ==
    /\ SameHistory(i)
    /\ IF i \in DOMAIN jobs
       THEN /\ i \in DOMAIN jobs'
            /\ jobs'[i].generation = jobs[i].generation
            /\ Phase(jobs'[i]) = Phase(jobs[i])
       ELSE i \notin DOMAIN jobs' /\ (i <= nextID' <=> i <= nextID)

Born(i) ==
    /\ SameHistory(i)
    /\ i > nextID
    /\ i \in DOMAIN jobs'
    /\ jobs'[i].generation = 0
    /\ Phase(jobs'[i]) = "waiting"

\* The moves of a job that has a row and keeps it.
Stays(i) == i \in DOMAIN jobs /\ i \in DOMAIN jobs'

Handed(i) ==
    /\ Stays(i)
    /\ Phase(jobs[i]) = "waiting" /\ jobs'[i].state = Running
    /\ jobs'[i].generation = jobs[i].generation + 1
    /\ settled'[i] = settled[i]
    /\ Generations(i)' = Generations(i) \union {jobs'[i].generation}

Answered(i) ==
    /\ Stays(i)
    /\ jobs[i].state = Running /\ jobs'[i].state # Running
    /\ jobs'[i].generation = jobs[i].generation
    /\ settled'[i] = Append(settled[i], jobs[i].generation)
    /\ Generations(i)' = Generations(i)

Rescued(i) ==
    /\ Stays(i)
    /\ jobs[i].state = Running /\ Phase(jobs'[i]) = "waiting"
    /\ jobs'[i].generation = jobs[i].generation
    /\ SameHistory(i)
    /\ \E now \in Clock : i \in Stale(jobs, now, TTL)

Removed(i) ==
    /\ SameHistory(i)
    /\ i \in DOMAIN jobs /\ i \notin DOMAIN jobs'
    /\ Phase(jobs[i]) = "finished"
    /\ nextID' = nextID

Moved(i) == Kept(i) \/ Born(i) \/ Handed(i) \/ Answered(i) \/ Rescued(i) \/ Removed(i)

\* A claim that was not handed out now changes no job's generations.
LEMMA SameClaims == claims' = claims => \A i : Generations(i)' = Generations(i)
  BY DEF Generations

\* The rows that there are belong to IDs that were assigned.
LEMMA Assigned ==
    ASSUME IInv, NEW i \in DOMAIN jobs
    PROVE  /\ i \in JobIds /\ i \in Nat /\ nextID \in Nat /\ i <= nextID
           /\ jobs[i] \in JobRow /\ jobs[i].generation \in Nat
  BY BoundsAssumption DEF IInv, TypeOK, JobIds, JobRow

-----------------------------------------------------------------------------
(* Each action moves each job.                                             *)

\* An action that leaves IDs and histories alone, adds and removes no row, and
\* leaves the phases and generations of the rows alone keeps every job.
LEMMA AllKept ==
    ASSUME IInv, UNCHANGED <<nextID, claims, settled>>,
           DOMAIN jobs' = DOMAIN jobs,
           \A i \in DOMAIN jobs : /\ jobs'[i].generation = jobs[i].generation
                                  /\ Phase(jobs'[i]) = Phase(jobs[i])
    PROVE  \A i \in JobIds : Kept(i)
  BY SameClaims DEF Kept, SameHistory

\* A finalization answers the holders whose entries win, and keeps the others.
LEMMA AllAnswered ==
    ASSUME IInv, NEW batch, Settle(batch), DOMAIN jobs' = DOMAIN jobs,
           \A i : Won(jobs, batch, i) =>
                  /\ i \in DOMAIN jobs /\ jobs[i].state = Running
                  /\ WinnerOf(jobs, batch, i).generation = jobs[i].generation
                  /\ jobs'[i].generation = jobs[i].generation
                  /\ jobs'[i].state # Running,
           \A i \in DOMAIN jobs : ~Won(jobs, batch, i) => jobs'[i] = jobs[i]
    PROVE  \A i \in JobIds : Moved(i)
<1> SUFFICES ASSUME NEW i \in JobIds PROVE Moved(i)
  OBVIOUS
<1>1. Generations(i)' = Generations(i)
  BY SameClaims DEF Settle
<1>2. CASE Won(jobs, batch, i)
  <2>1. settled'[i] = Append(settled[i], jobs[i].generation)
    BY <1>2 DEF Settle
  <2> QED
    BY <1>1, <1>2, <2>1 DEF Moved, Answered, Stays
<1>3. CASE ~Won(jobs, batch, i)
  <2>1. settled'[i] = settled[i] /\ nextID' = nextID
    BY <1>3 DEF Settle
  <2>2. Kept(i)
    BY <1>1, <1>3, <2>1 DEF Kept, SameHistory
  <2> QED
    BY <2>2 DEF Moved
<1> QED
  BY <1>2, <1>3

\* Complete answers or keeps.
LEMMA CompleteMoves ==
    ASSUME IInv, NEW now \in Clock, NEW batch \in BatchesOf(PlainEntries),
           Complete(batch, now)
    PROVE  \A i \in JobIds : Moved(i)
<1>1. jobs' = [i \in DOMAIN jobs |-> IF Won(jobs, batch, i)
                                     THEN CompleteRow(jobs[i], WinnerOf(jobs, batch, i), now)
                                     ELSE jobs[i]]
  BY DEF Complete, Finalize
<1>2. \A row \in JobRow : \A e : /\ CompleteRow(row, e, now).generation = row.generation
                                 /\ CompleteRow(row, e, now).state # Running
  BY DEF CompleteRow, JobRow
<1>3. ASSUME NEW i, Won(jobs, batch, i)
      PROVE  /\ i \in DOMAIN jobs /\ jobs[i].state = Running
             /\ WinnerOf(jobs, batch, i).generation = jobs[i].generation
             /\ jobs'[i].generation = jobs[i].generation
             /\ jobs'[i].state # Running
  <2>1. /\ i \in DOMAIN jobs /\ jobs[i].state = Running
        /\ WinnerOf(jobs, batch, i).generation = jobs[i].generation
    BY <1>3, MadeOfClaims, WinnerQuotes
  <2>2. jobs'[i] = CompleteRow(jobs[i], WinnerOf(jobs, batch, i), now)
    BY <1>1, <1>3, <2>1
  <2> QED
    BY <1>2, <2>1, <2>2, Assigned
<1> QED
  BY <1>1, <1>3, AllAnswered DEF Complete

\* Kill answers or keeps.
LEMMA KillMoves ==
    ASSUME IInv, NEW now \in Clock, NEW batch \in BatchesOf(PlainEntries),
           Kill(batch, now)
    PROVE  \A i \in JobIds : Moved(i)
<1>1. jobs' = [i \in DOMAIN jobs |-> IF Won(jobs, batch, i)
                                     THEN KillRow(jobs[i], WinnerOf(jobs, batch, i), now)
                                     ELSE jobs[i]]
  BY DEF Kill, Finalize
<1>2. \A row \in JobRow : \A e : /\ KillRow(row, e, now).generation = row.generation
                                 /\ KillRow(row, e, now).state # Running
  BY DEF KillRow, JobRow
<1>3. ASSUME NEW i, Won(jobs, batch, i)
      PROVE  /\ i \in DOMAIN jobs /\ jobs[i].state = Running
             /\ WinnerOf(jobs, batch, i).generation = jobs[i].generation
             /\ jobs'[i].generation = jobs[i].generation
             /\ jobs'[i].state # Running
  <2>1. /\ i \in DOMAIN jobs /\ jobs[i].state = Running
        /\ WinnerOf(jobs, batch, i).generation = jobs[i].generation
    BY <1>3, MadeOfClaims, WinnerQuotes
  <2>2. jobs'[i] = KillRow(jobs[i], WinnerOf(jobs, batch, i), now)
    BY <1>1, <1>3, <2>1
  <2> QED
    BY <1>2, <2>1, <2>2, Assigned
<1> QED
  BY <1>1, <1>3, AllAnswered DEF Kill

\* Cancel answers or keeps.
LEMMA CancelMoves ==
    ASSUME IInv, NEW now \in Clock, NEW batch \in BatchesOf(CancelEntries),
           Cancel(batch, now)
    PROVE  \A i \in JobIds : Moved(i)
<1>1. jobs' = [i \in DOMAIN jobs |-> IF Won(jobs, batch, i)
                                     THEN CancelRow(jobs[i], WinnerOf(jobs, batch, i), now)
                                     ELSE jobs[i]]
  BY DEF Cancel, Finalize
<1>2. \A row \in JobRow : \A e : /\ CancelRow(row, e, now).generation = row.generation
                                 /\ CancelRow(row, e, now).state # Running
  BY DEF CancelRow, JobRow
<1>3. ASSUME NEW i, Won(jobs, batch, i)
      PROVE  /\ i \in DOMAIN jobs /\ jobs[i].state = Running
             /\ WinnerOf(jobs, batch, i).generation = jobs[i].generation
             /\ jobs'[i].generation = jobs[i].generation
             /\ jobs'[i].state # Running
  <2>1. /\ i \in DOMAIN jobs /\ jobs[i].state = Running
        /\ WinnerOf(jobs, batch, i).generation = jobs[i].generation
    BY <1>3, MadeOfClaims, WinnerQuotes
  <2>2. jobs'[i] = CancelRow(jobs[i], WinnerOf(jobs, batch, i), now)
    BY <1>1, <1>3, <2>1
  <2> QED
    BY <1>2, <2>1, <2>2, Assigned
<1> QED
  BY <1>1, <1>3, AllAnswered DEF Cancel

\* Retry answers or keeps, or refuses the batch.
LEMMA RetryMoves ==
    ASSUME IInv, NEW batch \in BatchesOf(RetryEntries),
           Retry(batch)
    PROVE  \A i \in JobIds : Moved(i)
<1>1. CASE ~AllStorable(batch)
  <2>1. UNCHANGED vars
    BY <1>1 DEF Retry
  <2> QED
    BY <2>1, AllKept DEF vars, Moved
<1>2. CASE AllStorable(batch)
  <2>1. jobs' = [i \in DOMAIN jobs |-> IF Won(jobs, batch, i)
                                       THEN RetryRow(jobs[i], WinnerOf(jobs, batch, i))
                                       ELSE jobs[i]]
    BY <1>2 DEF Retry, Finalize
  <2>2. \A row \in JobRow : \A e : /\ RetryRow(row, e).generation = row.generation
                                   /\ RetryRow(row, e).state # Running
    BY DEF RetryRow, JobRow
  <2>3. ASSUME NEW i, Won(jobs, batch, i)
        PROVE  /\ i \in DOMAIN jobs /\ jobs[i].state = Running
               /\ WinnerOf(jobs, batch, i).generation = jobs[i].generation
               /\ jobs'[i].generation = jobs[i].generation
               /\ jobs'[i].state # Running
    <3>1. /\ i \in DOMAIN jobs /\ jobs[i].state = Running
          /\ WinnerOf(jobs, batch, i).generation = jobs[i].generation
      BY <2>3, MadeOfClaims, WinnerQuotes
    <3>2. jobs'[i] = RetryRow(jobs[i], WinnerOf(jobs, batch, i))
      BY <2>1, <2>3, <3>1
    <3> QED
      BY <2>2, <3>1, <3>2, Assigned
  <2> QED
    BY <2>1, <2>3, <1>2, AllAnswered DEF Retry
<1> QED
  BY <1>1, <1>2

\* Snooze answers or keeps, or refuses the batch.
LEMMA SnoozeMoves ==
    ASSUME IInv, NEW batch \in BatchesOf(SnoozeEntries),
           Snooze(batch)
    PROVE  \A i \in JobIds : Moved(i)
<1>1. CASE ~AllStorable(batch)
  <2>1. UNCHANGED vars
    BY <1>1 DEF Snooze
  <2> QED
    BY <2>1, AllKept DEF vars, Moved
<1>2. CASE AllStorable(batch)
  <2>1. jobs' = [i \in DOMAIN jobs |-> IF Won(jobs, batch, i)
                                       THEN SnoozeRow(jobs[i], WinnerOf(jobs, batch, i))
                                       ELSE jobs[i]]
    BY <1>2 DEF Snooze, Finalize
  <2>2. \A row \in JobRow : \A e : /\ SnoozeRow(row, e).generation = row.generation
                                   /\ SnoozeRow(row, e).state # Running
    BY DEF SnoozeRow, JobRow
  <2>3. ASSUME NEW i, Won(jobs, batch, i)
        PROVE  /\ i \in DOMAIN jobs /\ jobs[i].state = Running
               /\ WinnerOf(jobs, batch, i).generation = jobs[i].generation
               /\ jobs'[i].generation = jobs[i].generation
               /\ jobs'[i].state # Running
    <3>1. /\ i \in DOMAIN jobs /\ jobs[i].state = Running
          /\ WinnerOf(jobs, batch, i).generation = jobs[i].generation
      BY <2>3, SnoozeWinner
    <3>2. jobs'[i] = SnoozeRow(jobs[i], WinnerOf(jobs, batch, i))
      BY <2>1, <2>3, <3>1
    <3> QED
      BY <2>2, <3>1, <3>2, Assigned
  <2> QED
    BY <2>1, <2>3, <1>2, AllAnswered DEF Snooze
<1> QED
  BY <1>1, <1>2

\* Heartbeat keeps every job.
LEMMA HeartbeatMoves ==
    ASSUME IInv, NEW now \in Clock, NEW tokens \in SUBSET claims, Heartbeat(tokens, now)
    PROVE  \A i \in JobIds : Moved(i)
<1>1. /\ DOMAIN jobs' = DOMAIN jobs
      /\ \A i \in DOMAIN jobs : \/ jobs'[i] = jobs[i]
                               \/ jobs'[i] = [jobs[i] EXCEPT !.heartbeatAt = now]
  BY DEF Heartbeat, Renew
<1>2. \A row \in JobRow : /\ [row EXCEPT !.heartbeatAt = now].generation = row.generation
                          /\ [row EXCEPT !.heartbeatAt = now].state = row.state
  BY DEF JobRow
<1>3. \A i \in DOMAIN jobs : /\ jobs'[i].generation = jobs[i].generation
                             /\ Phase(jobs'[i]) = Phase(jobs[i])
  BY <1>1, <1>2, Assigned DEF Phase
<1> QED
  BY <1>1, <1>3, AllKept DEF Heartbeat, Moved

\* A job that becomes available was waiting already.
LEMMA MoveDueMoves ==
    ASSUME IInv, NEW now \in Clock, NEW limit, MoveDue(limit, now)
    PROVE  \A i \in JobIds : Moved(i)
<1>1. PICK ids \in SUBSET Due(jobs, now) :
         jobs' = [i \in DOMAIN jobs |-> IF i \in ids THEN [jobs[i] EXCEPT !.state = Available]
                                        ELSE jobs[i]]
  BY DEF MoveDue, UpTo, MakeAvailable
<1>2. DOMAIN jobs' = DOMAIN jobs
  BY <1>1
<1>3. \A row \in JobRow : /\ [row EXCEPT !.state = Available].generation = row.generation
                          /\ [row EXCEPT !.state = Available].state = Available
  BY DEF JobRow
<1>4. ASSUME NEW i \in DOMAIN jobs
      PROVE  jobs'[i].generation = jobs[i].generation /\ Phase(jobs'[i]) = Phase(jobs[i])
  <2>1. CASE i \in ids
    <3>1. jobs[i].state \in {Scheduled, Retryable}
      BY <2>1 DEF Due
    <3>2. jobs'[i] = [jobs[i] EXCEPT !.state = Available]
      BY <1>1, <2>1
    <3> QED
      BY <1>3, <3>1, <3>2, Assigned DEF Phase, PhaseOf
  <2>2. CASE i \notin ids
    BY <1>1, <2>2
  <2> QED
    BY <2>1, <2>2
<1> QED
  BY <1>2, <1>4, AllKept DEF MoveDue, Moved

\* RescueStale takes jobs only from holders that were silent.
LEMMA RescueMoves ==
    ASSUME IInv, NEW now \in Clock, NEW limit, RescueStale(limit, now)
    PROVE  \A i \in JobIds : Moved(i)
<1>1. PICK ids \in SUBSET Stale(jobs, now, TTL) :
         jobs' = [i \in DOMAIN jobs |-> IF i \in ids THEN RescueRow(jobs[i], now) ELSE jobs[i]]
  BY DEF RescueStale, UpTo, Rescue
<1>2. DOMAIN jobs' = DOMAIN jobs /\ nextID' = nextID
      /\ \A i : SameHistory(i)
  BY <1>1, SameClaims DEF RescueStale, SameHistory
<1>3. \A row \in JobRow : /\ RescueRow(row, now).generation = row.generation
                          /\ RescueRow(row, now).state = Retryable
  BY DEF RescueRow, JobRow
<1>4. ASSUME NEW i \in JobIds
      PROVE  Moved(i)
  <2>1. CASE i \in ids
    <3>1. i \in DOMAIN jobs /\ jobs[i].state = Running
      BY <2>1 DEF Stale
    <3>2. jobs'[i] = RescueRow(jobs[i], now)
      BY <1>1, <2>1, <3>1
    <3>3. jobs'[i].generation = jobs[i].generation /\ Phase(jobs'[i]) = "waiting"
      BY <1>3, <3>1, <3>2, Assigned DEF Phase, PhaseOf
    <3> QED
      BY <1>2, <2>1, <3>1, <3>3 DEF Moved, Rescued, Stays
  <2>2. CASE i \notin ids
    <3>1. Kept(i)
      BY <1>1, <1>2, <2>2 DEF Kept
    <3> QED
      BY <3>1 DEF Moved
  <2> QED
    BY <2>1, <2>2
<1> QED
  BY <1>4

\* Clean removes jobs that are finished.
LEMMA CleanMoves ==
    ASSUME IInv, NEW now \in Clock, NEW limit, Clean(limit, now)
    PROVE  \A i \in JobIds : Moved(i)
<1>1. PICK ids \in SUBSET Expired(jobs, now, Retention) : jobs' = Delete(jobs, ids)
  BY DEF Clean, UpTo
<1>2. /\ DOMAIN jobs' = DOMAIN jobs \ ids
      /\ \A i \in DOMAIN jobs' : jobs'[i] = jobs[i]
  BY <1>1 DEF Delete
<1>3. nextID' = nextID /\ \A i : SameHistory(i)
  BY SameClaims DEF Clean, SameHistory
<1>4. \A i \in ids : i \in DOMAIN jobs /\ Phase(jobs[i]) = "finished"
  BY DEF Expired, Phase, PhaseOf
<1> QED
  BY <1>2, <1>3, <1>4 DEF Moved, Removed, Kept

\* A request to cancel keeps every job.
LEMMA SetCancelRequestedMoves ==
    ASSUME IInv, NEW i \in DOMAIN jobs, SetCancelRequested(i)
    PROVE  \A j \in JobIds : Moved(j)
<1>1. /\ DOMAIN jobs' = DOMAIN jobs
      /\ \A j \in DOMAIN jobs : \/ jobs'[j] = jobs[j]
                               \/ jobs'[j] = [jobs[j] EXCEPT !.cancelRequested = TRUE]
  BY DEF SetCancelRequested
<1>2. \A row \in JobRow : /\ [row EXCEPT !.cancelRequested = TRUE].generation = row.generation
                          /\ [row EXCEPT !.cancelRequested = TRUE].state = row.state
  BY DEF JobRow
<1>3. \A j \in DOMAIN jobs : /\ jobs'[j].generation = jobs[j].generation
                             /\ Phase(jobs'[j]) = Phase(jobs[j])
  BY <1>1, <1>2, Assigned DEF Phase
<1> QED
  BY <1>1, <1>3, AllKept DEF SetCancelRequested, Moved

\* Enqueue keeps the jobs there are and gives birth to others.
LEMMA EnqueueMoves ==
    ASSUME IInv, NEW now \in Clock, NEW reqs \in BatchesOf(Requests), Enqueue(reqs, now)
    PROVE  \A i \in JobIds : Moved(i)
<1>1. CASE ~Accepted(reqs, now)
  BY <1>1, AllKept DEF Enqueue, Moved
<1>2. CASE Accepted(reqs, now)
  <2> DEFINE new == (nextID + 1)..(nextID + Len(reqs))
  <2>1. /\ nextID \in Nat /\ DOMAIN jobs \subseteq 1..nextID /\ Len(reqs) \in Nat
    BY BoundsAssumption, BatchLen DEF IInv, TypeOK
  <2>2. /\ jobs' = [i \in DOMAIN jobs \union new |->
                       IF i \in DOMAIN jobs THEN jobs[i] ELSE NewRow(reqs[i - nextID], now)]
        /\ nextID' = nextID + Len(reqs)
        /\ \A i : SameHistory(i)
    BY <1>2, SameClaims DEF Enqueue, Insert, SameHistory
  <2>3. \A req : NewRow(req, now).generation = 0 /\ Phase(NewRow(req, now)) = "waiting"
    BY DEF NewRow, Phase, PhaseOf
  <2>4. ASSUME NEW i \in JobIds
        PROVE  Moved(i)
    <3>1. i \in Int
      BY DEF JobIds
    <3>2. CASE i \in DOMAIN jobs
      <4>1. Kept(i)
        BY <2>2, <3>2 DEF Kept
      <4> QED
        BY <4>1 DEF Moved
    <3>3. CASE i \in new
      <4>1. i \notin DOMAIN jobs /\ i > nextID
        BY <2>1, <3>3
      <4>2. jobs'[i] = NewRow(reqs[i - nextID], now)
        BY <2>2, <3>3, <4>1
      <4>3. Born(i)
        BY <2>2, <2>3, <3>3, <4>1, <4>2 DEF Born
      <4> QED
        BY <4>3 DEF Moved
    <3>4. CASE i \notin DOMAIN jobs /\ i \notin new
      <4>1. i <= nextID + Len(reqs) <=> i <= nextID
        BY <2>1, <3>1, <3>4
      <4>2. Kept(i)
        BY <2>2, <3>4, <4>1 DEF Kept
      <4> QED
        BY <4>2 DEF Moved
    <3> QED
      BY <3>2, <3>3, <3>4
  <2> QED
    BY <2>4
<1> QED
  BY <1>1, <1>2

\* Fetch hands jobs that waited out, each under its next generation.
LEMMA FetchMoves ==
    ASSUME IInv, NEW now \in Clock, NEW queue, NEW limit, Fetch(queue, limit, now)
    PROVE  \A i \in JobIds : Moved(i)
<1> DEFINE ids == FirstOf(jobs, Claimable(jobs, queue, now), limit)
<1>1. /\ jobs' = [i \in DOMAIN jobs |-> IF i \in ids THEN ClaimRow(jobs[i], now) ELSE jobs[i]]
      /\ claims' = claims \union {ClaimOf(jobs', i) : i \in ids}
      /\ nextID' = nextID /\ settled' = settled
  BY DEF Fetch, Claim
<1>2. ids \subseteq DOMAIN jobs /\ \A i \in ids : jobs[i].state = Available
  BY DEF FirstOf, Claimable
<1> HIDE DEF ids
<1>3. \A row \in JobRow : /\ ClaimRow(row, now).generation = row.generation + 1
                          /\ ClaimRow(row, now).state = Running
  BY DEF ClaimRow, JobRow
<1>4. ASSUME NEW i, i \notin ids
      PROVE  Generations(i)' = Generations(i)
  BY <1>1, <1>4 DEF Generations, ClaimOf
<1>5. ASSUME NEW i \in ids
      PROVE  Generations(i)' = Generations(i) \union {jobs'[i].generation}
  <2>1. \A j : /\ ClaimOf(jobs', j).id = j
               /\ ClaimOf(jobs', j).generation = jobs'[j].generation
    BY DEF ClaimOf
  <2>2. {d \in claims' : d.id = i} = {d \in claims : d.id = i} \union {ClaimOf(jobs', i)}
    BY <1>1, <2>1
  <2> QED
    BY <2>1, <2>2 DEF Generations
<1>6. ASSUME NEW i \in JobIds
      PROVE  Moved(i)
  <2>1. CASE i \in ids
    <3>1. jobs'[i] = ClaimRow(jobs[i], now) /\ Phase(jobs[i]) = "waiting"
      BY <1>1, <1>2, <2>1 DEF Phase, PhaseOf
    <3>2. jobs'[i].generation = jobs[i].generation + 1 /\ jobs'[i].state = Running
      BY <1>2, <1>3, <2>1, <3>1, Assigned
    <3>3. Handed(i)
      BY <1>1, <1>2, <1>5, <2>1, <3>1, <3>2 DEF Handed, Stays
    <3> QED
      BY <3>3 DEF Moved
  <2>2. CASE i \notin ids
    <3>1. Kept(i)
      BY <1>1, <1>4, <2>2 DEF Kept, SameHistory
    <3> QED
      BY <3>1 DEF Moved
  <2> QED
    BY <2>1, <2>2
<1> QED
  BY <1>6

\* Reset empties the store and forgets nothing else.
Emptied == jobs' = EmptyStore /\ UNCHANGED <<nextID, claims, settled>>

\* Every step moves each job, or is Reset.
LEMMA StepMoves ==
    ASSUME IInv, [Next]_vars
    PROVE  Emptied \/ \A i \in JobIds : Moved(i)
<1>1. CASE \E now \in Clock : \E reqs \in BatchesOf(Requests) : Enqueue(reqs, now)
  BY <1>1, EnqueueMoves
<1>2. CASE \E now \in Clock : \E queue \in Queues, limit \in Limits : Fetch(queue, limit, now)
  BY <1>2, FetchMoves
<1>3. CASE \E now \in Clock : \E batch \in BatchesOf(PlainEntries) :
              Complete(batch, now) \/ Kill(batch, now)
  BY <1>3, CompleteMoves, KillMoves
<1>4. CASE \E now \in Clock : \E batch \in BatchesOf(CancelEntries) : Cancel(batch, now)
  BY <1>4, CancelMoves
<1>5. CASE \E now \in Clock : \E tokens \in SUBSET claims : Heartbeat(tokens, now)
  BY <1>5, HeartbeatMoves
<1>6. CASE \E now \in Clock : \E limit \in Limits : MoveDue(limit, now)
  BY <1>6, MoveDueMoves
<1>7. CASE \E now \in Clock : \E limit \in Limits : RescueStale(limit, now)
  BY <1>7, RescueMoves
<1>8. CASE \E now \in Clock : \E limit \in Limits : Clean(limit, now)
  BY <1>8, CleanMoves
<1>9. CASE \E batch \in BatchesOf(RetryEntries) : Retry(batch)
  BY <1>9, RetryMoves
<1>10. CASE \E batch \in BatchesOf(SnoozeEntries) : Snooze(batch)
  BY <1>10, SnoozeMoves
<1>11. CASE \E i \in DOMAIN jobs \intersect Cancellable : SetCancelRequested(i)
  BY <1>11, SetCancelRequestedMoves
<1>12. CASE Reset
  <2>1. Delete(jobs, DOMAIN jobs) = EmptyStore
    BY DEF Delete, EmptyStore
  <2> QED
    BY <1>12, <2>1 DEF Reset, Emptied
<1>13. CASE UNCHANGED vars
  BY <1>13, AllKept DEF vars, Moved
<1> QED
  BY <1>1, <1>2, <1>3, <1>4, <1>5, <1>6, <1>7, <1>8, <1>9, <1>10, <1>11, <1>12, <1>13
     DEF Next
-----------------------------------------------------------------------------
(* Holders lose only to silence.                                           *)

\* A holder that a step leaves running keeps its generation, and one that loses
\* its job was answered, silent or reset.
LEMMA HolderMoves ==
    ASSUME IInv, NEW i \in DOMAIN jobs, jobs[i].state = Running, Moved(i)
    PROVE  \/ /\ i \in DOMAIN jobs' /\ jobs'[i].state = Running
              /\ jobs'[i].generation = jobs[i].generation
           \/ settled'[i] = Append(settled[i], jobs[i].generation)
           \/ \E now \in Clock : i \in Stale(jobs, now, TTL)
<1>1. Phase(jobs[i]) = "held"
  BY DEF Phase, PhaseOf
<1>2. CASE Kept(i)
  BY <1>1, <1>2 DEF Kept, Phase, PhaseOf
<1>3. CASE Born(i)
  BY <1>3, Assigned DEF Born
<1>4. CASE Answered(i) \/ Rescued(i)
  BY <1>4 DEF Answered, Rescued
<1>5. CASE Handed(i) \/ Removed(i)
  BY <1>1, <1>5 DEF Handed, Removed
<1> QED
  BY <1>2, <1>3, <1>4, <1>5 DEF Moved

\* A running attempt is taken from its holder only by an outcome of its own
\* generation, by a rescuer its last heartbeat is too old for, or by Reset
\* (memory.go:125, 291), for any number of jobs and any clocks.
THEOREM HoldersLoseOnlyToSilence == Spec => HolderLosesOnlyToSilence
<1>1. IInv /\ [Next]_vars
        => [\A i \in DOMAIN jobs : jobs[i].state = Running =>
              \/ /\ i \in DOMAIN jobs'
                 /\ jobs'[i].state = Running
                 /\ jobs'[i].generation = jobs[i].generation
              \/ settled'[i] = Append(settled[i], jobs[i].generation)
              \/ \E now \in Clock : i \in Stale(jobs, now, TTL)
              \/ jobs' = EmptyStore]_vars
  BY StepMoves, HolderMoves, Assigned DEF Emptied
<1> QED
  BY <1>1, Invariant, PTL DEF Spec, HolderLosesOnlyToSilence

-----------------------------------------------------------------------------
(* The contract.                                                           *)

\* The generation of a row was handed out, or is none yet.
GenerationsClaimed == \A i \in DOMAIN jobs : jobs[i].generation \in Generations(i)

\* The greatest member of a set is unique.
LEMMA GreatestIs ==
    ASSUME NEW S \in SUBSET Nat, NEW g \in S, \A h \in S : h <= g
    PROVE  Greatest(S) = g
<1>1. Greatest(S) \in S /\ \A h \in S : h <= Greatest(S)
  BY Zenon DEF Greatest
<1>2. Greatest(S) <= g /\ g <= Greatest(S) /\ Greatest(S) \in Nat /\ g \in Nat
  BY <1>1
<1> QED
  BY <1>2

\* Generations are numbers, and a row's is the last that was handed out.
LEMMA YoungestIsRow ==
    ASSUME IInv, GenerationsClaimed, NEW i \in DOMAIN jobs
    PROVE  /\ Generations(i) \in SUBSET Nat
           /\ \A h \in Generations(i) : h <= jobs[i].generation
           /\ Youngest(i) = jobs[i].generation
<1>1. Generations(i) \in SUBSET Nat
  BY DEF Generations, IInv, TypeOK, Claims
<1>2. \A h \in Generations(i) : h <= jobs[i].generation
  BY Assigned DEF Generations, IInv, OneHolder
<1>3. jobs[i].generation \in Generations(i)
  BY DEF GenerationsClaimed
<1> QED
  BY <1>1, <1>2, <1>3, GreatestIs DEF Youngest

\* So the youngest claim of a job that is there has its row's generation.
LEMMA YoungestAreRows ==
    IInv /\ GenerationsClaimed => \A i \in DOMAIN jobs : Youngest(i) = jobs[i].generation
  BY YoungestIsRow

\* And does so after any step that keeps the invariants.
LEMMA YoungestStayRows ==
    IInv' /\ GenerationsClaimed'
        => \A i \in DOMAIN jobs' : Youngest(i)' = jobs'[i].generation
<1>1. (IInv /\ GenerationsClaimed
         => \A i \in DOMAIN jobs : Youngest(i) = jobs[i].generation)'
  BY YoungestAreRows, PTL
<1> QED
  BY <1>1

\* A move keeps the generation of a row among those handed out.
LEMMA GenerationsStep ==
    ASSUME IInv, GenerationsClaimed, [Next]_vars
    PROVE  GenerationsClaimed'
<1>1. CASE Emptied
  BY <1>1 DEF Emptied, EmptyStore, GenerationsClaimed
<1>2. CASE \A i \in JobIds : Moved(i)
  <2>1. DOMAIN jobs' \subseteq JobIds
    <3>1. IInv'
      BY NextIInv
    <3> QED
      BY <3>1, BoundsAssumption DEF IInv, TypeOK, JobIds
  <2>2. ASSUME NEW i \in DOMAIN jobs'
        PROVE  jobs'[i].generation \in Generations(i)'
    <3>1. Moved(i)
      BY <1>2, <2>1
    <3>2. i \in DOMAIN jobs => jobs[i].generation \in Generations(i)
      BY DEF GenerationsClaimed
    <3>3. 0 \in Generations(i)
      BY DEF Generations
    <3> QED
      BY <3>1, <3>2, <3>3
         DEF Moved, Kept, Born, Handed, Answered, Rescued, Removed, SameHistory, Stays
  <2> QED
    BY <2>2 DEF GenerationsClaimed
<1> QED
  BY <1>1, <1>2, StepMoves

\* The generation of a row is always among those handed out.
LEMMA GenerationsAlwaysClaimed == Spec => []GenerationsClaimed
<1>1. Init => GenerationsClaimed
  BY DEF Init, EmptyStore, GenerationsClaimed
<1> QED
  BY <1>1, GenerationsStep, Invariant, PTL DEF Spec
\* Each move of a job is a move of its life, or none.
LEMMA LifeMoves ==
    ASSUME IInv, IInv', GenerationsClaimed, GenerationsClaimed', NEW i \in JobIds, Moved(i)
    PROVE  LifeOf(i)' \in {LifeOf(i)} \union Contract!Moves(LifeOf(i))
<1> DEFINE l == LifeOf(i)
<1>1. i \in Nat /\ nextID \in Nat /\ nextID' \in Nat /\ DOMAIN jobs \subseteq 1..nextID
  BY BoundsAssumption DEF IInv, TypeOK, JobIds
<1>2. Generations(i)' = Generations(i) => Youngest(i)' = Youngest(i)
  BY DEF Youngest
<1>3. CASE Kept(i)
  <2>1. LifeOf(i)' = LifeOf(i)
    BY <1>2, <1>3 DEF LifeOf, Kept, SameHistory, Phase
  <2> QED
    BY <2>1
<1>4. CASE Born(i)
  <2>1. l.phase = "unborn" /\ l = [phase |-> "unborn", generation |-> l.generation, outcomes |-> l.outcomes]
    BY <1>1, <1>4 DEF Born, LifeOf
  <2>2. LifeOf(i)' = [phase |-> "waiting", generation |-> l.generation, outcomes |-> l.outcomes]
    BY <1>2, <1>4 DEF Born, LifeOf, SameHistory, Phase
  <2>3. LifeOf(i)' = Contract!Submitted(l)
    BY <2>1, <2>2 DEF Contract!Submitted
  <2> QED
    BY <2>1, <2>3 DEF Contract!Moves
<1>5. CASE Stays(i)
  <2>1. l = [phase |-> Phase(jobs[i]), generation |-> jobs[i].generation,
             outcomes |-> settled[i]]
    <3>1. Youngest(i) = jobs[i].generation
      BY <1>5, YoungestIsRow DEF Stays
    <3> QED
      BY <1>5, <3>1 DEF Stays, LifeOf, Phase
  <2>2. LifeOf(i)' = [phase |-> Phase(jobs'[i]), generation |-> jobs'[i].generation,
                      outcomes |-> settled'[i]]
    <3>1. Youngest(i)' = jobs'[i].generation
      BY <1>5, YoungestStayRows DEF Stays
    <3> QED
      BY <1>5, <3>1 DEF Stays, LifeOf, Phase
  <2>3. CASE Handed(i)
    <3>1. \A p, o : \A g \in Nat :
             Contract!Granted([phase |-> p, generation |-> g, outcomes |-> o])
               = [phase |-> "held", generation |-> g + 1, outcomes |-> o]
      <4> SUFFICES ASSUME NEW p, NEW o, NEW g \in Nat
                   PROVE  Contract!Granted([phase |-> p, generation |-> g, outcomes |-> o])
                            = [phase |-> "held", generation |-> g + 1, outcomes |-> o]
        OBVIOUS
      <4> DEFINE r == [phase |-> p, generation |-> g, outcomes |-> o]
      <4>1. r.generation = g
        OBVIOUS
      <4>2. Contract!Granted(r) = [r EXCEPT !.phase = "held", !.generation = g + 1]
        BY <4>1 DEF Contract!Granted
      <4> QED
        BY <4>2
    <3>2. Contract!Granted(l) = [phase |-> "held", generation |-> jobs[i].generation + 1,
                                 outcomes |-> settled[i]]
      BY <2>1, <2>3, <3>1, Assigned DEF Handed, Stays
    <3>3. LifeOf(i)' = Contract!Granted(l) /\ l.phase = "waiting"
      BY <2>1, <2>2, <2>3, <3>2 DEF Handed, Phase, PhaseOf
    <3> QED
      BY <3>3 DEF Contract!Moves
  <2>4. CASE Answered(i)
    <3>1. l.phase = "held" /\ Phase(jobs'[i]) \in {"waiting", "finished"}
      BY <2>1, <2>4 DEF Answered, Phase, PhaseOf
    <3>2. \A p, q, g, o :
             Contract!Settled([phase |-> p, generation |-> g, outcomes |-> o], q)
               = [phase |-> q, generation |-> g, outcomes |-> Append(o, g)]
      <4> SUFFICES ASSUME NEW p, NEW q, NEW g, NEW o
                   PROVE  Contract!Settled([phase |-> p, generation |-> g, outcomes |-> o], q)
                            = [phase |-> q, generation |-> g, outcomes |-> Append(o, g)]
        OBVIOUS
      <4> DEFINE r == [phase |-> p, generation |-> g, outcomes |-> o]
      <4>1. r.generation = g /\ r.outcomes = o
        OBVIOUS
      <4>2. Contract!Settled(r, q) = [r EXCEPT !.phase = q, !.outcomes = Append(o, g)]
        BY <4>1 DEF Contract!Settled
      <4> QED
        BY <4>2
    <3>3. LifeOf(i)' = Contract!Settled(l, Phase(jobs'[i]))
      BY <2>1, <2>2, <2>4, <3>2 DEF Answered
    <3> QED
      BY <3>1, <3>3 DEF Contract!Moves
  <2>5. CASE Rescued(i)
    <3>1. l.phase = "held" /\ LifeOf(i)' = Contract!Revoked(l)
      BY <2>1, <2>2, <2>5 DEF Rescued, SameHistory, Phase, PhaseOf, Contract!Revoked
    <3> QED
      BY <3>1 DEF Contract!Moves
  <2> QED
    BY <1>1, <1>3, <1>5, <2>3, <2>4, <2>5 DEF Moved, Born, Removed, Stays
<1>6. CASE Removed(i)
  <2>1. /\ l = [phase |-> "finished", generation |-> Youngest(i), outcomes |-> settled[i]]
        /\ LifeOf(i)' = [phase |-> "gone", generation |-> Youngest(i), outcomes |-> settled[i]]
    <3>1. i <= nextID /\ nextID' = nextID
      BY <1>1, <1>6 DEF Removed
    <3> QED
      BY <1>2, <1>6, <3>1 DEF Removed, LifeOf, SameHistory, Phase
  <2>2. l.phase = "finished" /\ LifeOf(i)' = Contract!Discarded(l)
    BY <2>1 DEF Contract!Discarded
  <2> QED
    BY <2>2 DEF Contract!Moves
<1> QED
  BY <1>3, <1>4, <1>5, <1>6 DEF Moved, Handed, Answered, Rescued

\* Reset discards every job there is or was.
LEMMA LifeWiped ==
    ASSUME IInv, NEW i \in JobIds, Emptied
    PROVE  LifeOf(i)' = IF LifeOf(i).phase = "unborn" THEN LifeOf(i)
                        ELSE Contract!Discarded(LifeOf(i))
<1>1. i \in Nat /\ nextID \in Nat /\ DOMAIN jobs \subseteq 1..nextID
  BY BoundsAssumption DEF IInv, TypeOK, JobIds
<1>2. /\ LifeOf(i)' = [phase |-> IF i <= nextID THEN "gone" ELSE "unborn",
                       generation |-> Youngest(i), outcomes |-> settled[i]]
  BY SameClaims DEF Emptied, EmptyStore, LifeOf, Youngest
<1>3. CASE i <= nextID
  BY <1>2, <1>3 DEF LifeOf, PhaseOf, Contract!Discarded
<1>4. CASE ~(i <= nextID)
  BY <1>1, <1>2, <1>4 DEF LifeOf
<1> QED
  BY <1>3, <1>4

\* The store in memory keeps the contract of JobLifecycle, for any number of
\* jobs, claims and callers, however late, repeated or mixed their calls.
THEOREM ContractIsKept == Spec => ImplementsContract
<1>1. Init => Contract!Init
  <2> SUFFICES ASSUME Init, NEW i \in JobIds
               PROVE  LifeOf(i) = Contract!Unborn
    BY Zenon DEF Contract!Init
  <2>1. i \notin DOMAIN jobs /\ ~(i <= nextID) /\ settled[i] = << >>
    BY BoundsAssumption DEF Init, EmptyStore, JobIds
  <2>2. Generations(i) = {0}
    BY DEF Init, Generations
  <2>3. Youngest(i) = 0
    BY <2>2, GreatestIs DEF Youngest
  <2> QED
    BY <2>1, <2>3 DEF LifeOf, Contract!Unborn
<1>2. /\ IInv /\ IInv' /\ GenerationsClaimed /\ GenerationsClaimed' /\ [Next]_vars
      => [Contract!Next]_([i \in JobIds |-> LifeOf(i)])
  <2> SUFFICES ASSUME IInv, IInv', GenerationsClaimed, GenerationsClaimed', [Next]_vars
               PROVE  Contract!Next
    OBVIOUS
  <2>1. CASE Emptied
    <3>1. Contract!Wipe
      BY <2>1, LifeWiped DEF Contract!Wipe
    <3> QED
      BY <3>1 DEF Contract!Next
  <2>2. CASE \A i \in JobIds : Moved(i)
    <3>1. \A i \in JobIds : LifeOf(i)' \in {LifeOf(i)} \union Contract!Moves(LifeOf(i))
      BY <2>2, LifeMoves
    <3>2. Contract!Operate
      BY <3>1 DEF Contract!Operate
    <3> QED
      BY <3>2 DEF Contract!Next
  <2> QED
    BY <2>1, <2>2, StepMoves
<1> QED
  BY <1>1, <1>2, Invariant, GenerationsAlwaysClaimed, PTL
     DEF Spec, ImplementsContract, Contract!Spec

-----------------------------------------------------------------------------
(* A batch at once is its entries one by one.                              *)

LEMMA LeastNatural ==
    ASSUME NEW T \in SUBSET Nat, T # {}
    PROVE  \E t \in T : \A u \in T : t <= u
<1> DEFINE R == OpToRel(<, Nat)
<1>1. \A m, n \in Nat : <<m, n>> \in R <=> m < n
  BY DEF OpToRel
<1>2. IsWellFoundedOn(R, Nat)
  BY NatLessThanWellFounded
<1> HIDE DEF R
<1>3. PICK t \in T : \A u \in T : ~(<<u, t>> \in R)
  BY <1>2, WFMin
<1>4. ASSUME NEW u \in T PROVE t <= u
  <2>1. t \in Nat /\ u \in Nat /\ ~(<<u, t>> \in R)
    BY <1>3
  <2> QED
    BY <1>1, <2>1
<1> QED
  BY <1>4

\* Whatever is made of a row, it is not running any more.
LEMMA OutcomeEnds ==
    ASSUME NEW kind \in Kinds, NEW row \in JobRow, NEW e, NEW now
    PROVE  Outcome(kind, row, e, now).state # Running
<1>1. CASE kind = "complete"
  BY <1>1 DEF Outcome, CompleteRow, JobRow
<1>2. CASE kind = "kill"
  BY <1>2 DEF Outcome, KillRow, JobRow
<1>3. CASE kind = "cancel"
  BY <1>3 DEF Outcome, CancelRow, JobRow
<1>4. CASE kind = "retry"
  BY <1>4 DEF Outcome, RetryRow, JobRow
<1>5. CASE kind = "snooze"
  BY <1>5 DEF Outcome, SnoozeRow, JobRow
<1> QED
  BY <1>1, <1>2, <1>3, <1>4, <1>5 DEF Kinds

\* An entry that passes the fence wins, or an earlier one for the job does.
LEMMA LiveIsWon ==
    ASSUME NEW n \in Nat, NEW batch, DOMAIN batch = 1..n,
           NEW k \in 1..n, Live(jobs, batch[k])
    PROVE  \E m \in Winners(jobs, batch) : m <= k /\ batch[m].id = batch[k].id
<1> DEFINE T == {m \in 1..k : batch[m].id = batch[k].id /\ Live(jobs, batch[m])}
<1>1. k \in T
  OBVIOUS
<1>2. PICK m \in T : \A u \in T : m <= u
  <2>1. T \in SUBSET Nat /\ T # {}
    BY <1>1
  <2> HIDE DEF T
  <2> QED
    BY <2>1, LeastNatural
<1>3. m \in 1..n /\ m <= k /\ batch[m].id = batch[k].id /\ Live(jobs, batch[m])
  OBVIOUS
<1>4. ASSUME NEW u \in DOMAIN batch, u < m, batch[u].id = batch[m].id
      PROVE  ~Live(jobs, batch[u])
  <2>1. u \in 1..k /\ ~(m <= u)
    BY <1>3, <1>4
  <2> QED
    BY <1>2, <1>3, <1>4, <2>1
<1> QED
  BY <1>3, <1>4 DEF Winners

\* A job is won once.
LEMMA OneWinner ==
    ASSUME NEW n \in Nat, NEW batch, DOMAIN batch = 1..n,
           NEW k \in Winners(jobs, batch), NEW m \in Winners(jobs, batch),
           batch[k].id = batch[m].id
    PROVE  k = m
<1>1. k \in 1..n /\ m \in 1..n
  BY DEF Winners
<1>2. ~(k < m) /\ ~(m < k)
  BY DEF Winners
<1> QED
  BY <1>1, <1>2

\* What the loop carries after k entries.
After(kind, batch, now, k) ==
    LET won == Winners(jobs, batch)
    IN  [jobs  |-> [i \in DOMAIN jobs |->
                       IF \E m \in won : m <= k /\ batch[m].id = i
                       THEN Outcome(kind, jobs[i], WinnerOf(jobs, batch, i), now)
                       ELSE jobs[i]],
         stale |-> {batch[m].id : m \in {u \in DOMAIN batch : u <= k} \ won}]

LEMMA AfterStep ==
    ASSUME \A i \in DOMAIN jobs : jobs[i] \in JobRow,
           NEW kind \in Kinds, NEW now, NEW n \in Nat, NEW batch, DOMAIN batch = 1..n,
           NEW k \in 1..n
    PROVE  After(kind, batch, now, k)
               = LoopStep(kind, After(kind, batch, now, k - 1), batch[k], now)
<1> DEFINE won  == Winners(jobs, batch)
           last == After(kind, batch, now, k - 1)
           this == After(kind, batch, now, k)
           id   == batch[k].id
           Taken(i, j) == \E m \in won : m <= j /\ batch[m].id = i
           made(i) == Outcome(kind, jobs[i], WinnerOf(jobs, batch, i), now)
<1>1. /\ last = [last EXCEPT !.jobs = @]
      /\ last.jobs = [i \in DOMAIN jobs |-> IF Taken(i, k - 1) THEN made(i) ELSE jobs[i]]
      /\ this.jobs = [i \in DOMAIN jobs |-> IF Taken(i, k) THEN made(i) ELSE jobs[i]]
      /\ last.stale = {batch[m].id : m \in {u \in DOMAIN batch : u <= k - 1} \ won}
      /\ this.stale = {batch[m].id : m \in {u \in DOMAIN batch : u <= k} \ won}
      /\ this = [last EXCEPT !.jobs = this.jobs, !.stale = this.stale]
  BY DEF After
<1>2. \A i : Taken(i, k) <=> Taken(i, k - 1) \/ (k \in won /\ id = i)
  <2>1. \A m \in won : m \in 1..n /\ (m <= k <=> m <= k - 1 \/ m = k)
    BY DEF Winners
  <2> HIDE DEF won, id
  <2> QED
    BY <2>1 DEF id
<1>3. CASE k \in won
  <2>1. Live(jobs, batch[k])
    BY <1>3 DEF Winners
  <2>2. ~Taken(id, k - 1)
    <3>1. \A m \in won : batch[m].id = id => m = k
      BY <1>3, OneWinner
    <3> QED
      BY <3>1
  <2>3. id \in DOMAIN jobs /\ last.jobs[id] = jobs[id] /\ Live(last.jobs, batch[k])
    BY <1>1, <2>1, <2>2, Zenon DEF Live
  <2>4. WinnerOf(jobs, batch, id) = batch[k]
    <3>1. \A m \in won : batch[m].id = id => m = k
      BY <1>3, OneWinner
    <3>2. (CHOOSE m \in won : batch[m].id = id) = k
      BY <1>3, <3>1
    <3> QED
      BY <3>2 DEF WinnerOf
  <2>5. this.jobs = [last.jobs EXCEPT ![id] = Outcome(kind, @, batch[k], now)]
    <3> HIDE DEF won, last, this, id, Taken
    <3>1. DOMAIN last.jobs = DOMAIN jobs /\ DOMAIN this.jobs = DOMAIN jobs
      BY <1>1
    <3>2. this.jobs[id] = Outcome(kind, last.jobs[id], batch[k], now)
      BY <1>1, <1>2, <1>3, <2>3, <2>4
    <3>3. \A i \in DOMAIN jobs : i # id => this.jobs[i] = last.jobs[i]
      BY <1>1, <1>2
    <3>4. this.jobs = [i \in DOMAIN jobs |-> this.jobs[i]]
      BY <1>1
    <3> QED
      BY <2>3, <3>1, <3>2, <3>3, <3>4
  <2>6. this.stale = last.stale
    <3>1. {u \in DOMAIN batch : u <= k} \ won = {u \in DOMAIN batch : u <= k - 1} \ won
      BY <1>3
    <3> QED
      BY <1>1, <3>1
  <2> HIDE DEF last, this, won, id, Taken
  <2>7. LoopStep(kind, last, batch[k], now)
            = [last EXCEPT !.jobs = [last.jobs EXCEPT ![id] = Outcome(kind, @, batch[k], now)]]
    BY <2>3 DEF LoopStep, id
  <2> QED
    BY <1>1, <2>5, <2>6, <2>7 DEF this, last
<1>4. CASE k \notin won
  <2>1. this.jobs = last.jobs
    <3> HIDE DEF won, last, this, id, Taken
    <3> QED
      BY <1>1, <1>2, <1>4
  <2>2. this.stale = last.stale \union {id}
    <3>1. {u \in DOMAIN batch : u <= k} \ won
              = ({u \in DOMAIN batch : u <= k - 1} \ won) \union {k}
      BY <1>4
    <3> DEFINE before == {u \in DOMAIN batch : u <= k - 1} \ won
               upto   == {u \in DOMAIN batch : u <= k} \ won
    <3>2. {batch[m].id : m \in upto} = {batch[m].id : m \in before} \union {batch[k].id}
      <4> HIDE DEF before, upto
      <4> QED
        BY <3>1 DEF before, upto
    <3> QED
      BY <1>1, <3>2
  <2>3. ~Live(last.jobs, batch[k])
    <3> SUFFICES ASSUME Live(last.jobs, batch[k]) PROVE FALSE
      OBVIOUS
    <3>1. id \in DOMAIN jobs /\ last.jobs[id].state = Running
      BY <1>1 DEF Live
    <3>2. CASE Taken(id, k - 1)
      <4>1. last.jobs[id] = made(id)
        BY <1>1, <3>1, <3>2
      <4>2. made(id).state # Running
        BY <3>1, OutcomeEnds
      <4> QED
        BY <3>1, <4>1, <4>2
    <3>3. CASE ~Taken(id, k - 1)
      <4>1. Live(jobs, batch[k])
        BY <1>1, <3>1, <3>3 DEF Live
      <4>2. Taken(id, k)
        BY <4>1, LiveIsWon
      <4> QED
        BY <1>2, <1>4, <3>3, <4>2
    <3> QED
      BY <3>2, <3>3
  <2> HIDE DEF last, this, won, id, Taken
  <2>4. LoopStep(kind, last, batch[k], now) = [last EXCEPT !.stale = @ \union {id}]
    BY <2>3 DEF LoopStep, id
  <2> QED
    BY <1>1, <2>1, <2>2, <2>4 DEF this, last
<1> QED
  BY <1>3, <1>4

\* The loop carries that, since there is only one such function.
LEMMA LoopIsAfter ==
    ASSUME \A i \in DOMAIN jobs : jobs[i] \in JobRow,
           jobs = [i \in DOMAIN jobs |-> jobs[i]],
           NEW kind \in Kinds, NEW now, NEW n \in Nat, NEW batch, DOMAIN batch = 1..n,
           Len(batch) = n
    PROVE  Loop(kind, batch, now) = After(kind, batch, now, n)
<1> DEFINE Body(f) == [k \in 0..n |->
                          IF k = 0 THEN LoopStart
                          ELSE LoopStep(kind, f[k - 1], batch[k], now)]
           h == [k \in 0..n |-> After(kind, batch, now, k)]
           loop == CHOOSE f : f = Body(f)
<1>1. Loop(kind, batch, now) = loop[n]
  BY DEF Loop
<1>2. After(kind, batch, now, 0) = LoopStart
  <2>1. \A m \in DOMAIN batch : ~(m <= 0)
    OBVIOUS
  <2>2. \A m \in Winners(jobs, batch) : ~(m <= 0)
    BY <2>1 DEF Winners
  <2> QED
    BY <2>1, <2>2 DEF After, LoopStart
<1>3. \A k \in 1..n : h[k] = LoopStep(kind, h[k - 1], batch[k], now)
  <2>1. \A k \in 1..n : k \in 0..n /\ k - 1 \in 0..n
    OBVIOUS
  <2> QED
    BY <2>1, AfterStep
<1>4. h = Body(h)
  <2>1. \A k \in 0..n : k # 0 => k \in 1..n
    OBVIOUS
  <2>2. h[0] = LoopStart
    BY <1>2
  <2>3. h = [k \in 0..n |-> h[k]]
    OBVIOUS
  <2> HIDE DEF h
  <2> QED
    BY <1>3, <2>1, <2>2, <2>3
<1>5. loop = Body(loop)
  <2> HIDE DEF Body, h
  <2> QED
    BY <1>4
<1> HIDE DEF loop
<1>6. /\ loop[0] = LoopStart
      /\ \A k \in 1..n : loop[k] = LoopStep(kind, loop[k - 1], batch[k], now)
  <2>1. /\ 0 \in 0..n
        /\ \A k \in 1..n : k \in 0..n /\ k # 0
    OBVIOUS
  <2> QED
    BY <1>5, <2>1
<1>7. \A k \in 0..n : loop[k] = h[k]
  <2> DEFINE T == {k \in 0..n : loop[k] # h[k]}
  <2> SUFFICES ASSUME T # {} PROVE FALSE
    OBVIOUS
  <2>1. PICK k \in T : \A u \in T : k <= u
    <3>1. T \in SUBSET Nat
      OBVIOUS
    <3> HIDE DEF T
    <3> QED
      BY <3>1, LeastNatural
  <2>2. k \in 0..n /\ loop[k] # h[k]
    OBVIOUS
  <2>3. k # 0
    BY <1>2, <1>6, <2>2
  <2>4. k \in 1..n /\ k - 1 \in 0..n /\ ~(k <= k - 1)
    BY <2>2, <2>3
  <2>5. loop[k - 1] = h[k - 1]
    BY <2>1, <2>4
  <2> HIDE DEF h, T
  <2> QED
    BY <1>3, <1>6, <2>2, <2>4, <2>5
<1> QED
  BY <1>1, <1>7

\* Whatever the batch, its order and the claims it quotes twice, the loop of the
\* store in memory leaves the rows, and reports the IDs, that the statement of
\* PostgreSQL does, which looks at the batch as a whole (memory.go:119-136;
\* finalize.go:14-25).
THEOREM BatchesAreLoops == Spec => []BatchIsLoop
<1>1. IInv => BatchIsLoop
  <2> SUFFICES ASSUME IInv, NEW now \in Clock, NEW kind \in Kinds, NEW batch \in Batches(kind)
               PROVE  LET loop == Loop(kind, batch, now)
                      IN  /\ loop.jobs = Finalize(jobs, batch, LAMBDA row, e : Outcome(kind, row, e, now))
                          /\ loop.stale = StaleIds(jobs, batch)
    BY DEF BatchIsLoop
  <2>1. PICK n \in Nat : DOMAIN batch = 1..n /\ Len(batch) = n
    <3>1. PICK S : batch \in BatchesOf(S)
      BY DEF Batches, Kinds
    <3> QED
      BY <3>1, BoundsAssumption DEF BatchesOf
  <2>2. /\ \A i \in DOMAIN jobs : jobs[i] \in JobRow
        /\ jobs = [i \in DOMAIN jobs |-> jobs[i]]
    BY DEF IInv, TypeOK
  <2>3. Loop(kind, batch, now) = After(kind, batch, now, n)
    BY <2>1, <2>2, LoopIsAfter
  <2>4. \A m \in DOMAIN batch : m <= n
    BY <2>1
  <2>5. \A m \in Winners(jobs, batch) : m <= n
    BY <2>4 DEF Winners
  <2>6. After(kind, batch, now, n).jobs
            = Finalize(jobs, batch, LAMBDA row, e : Outcome(kind, row, e, now))
    BY <2>5 DEF After, Finalize, Won
  <2>7. After(kind, batch, now, n).stale = StaleIds(jobs, batch)
    BY <2>4 DEF After, StaleIds
  <2> QED
    BY <2>3, <2>6, <2>7
<1> QED
  BY <1>1, Invariant, PTL

-----------------------------------------------------------------------------
(* What the contract gives its user.                                       *)

Promise == INSTANCE JobLifecycleProofs WITH Ids  <- JobIds,
                                            life <- [i \in JobIds |-> LifeOf(i)]

\* So each claim of the store ends with one outcome at most, in the order of the
\* claims, and a job finishes with the outcome of its last one (memory.go:122-136).
THEOREM OutcomesOnce == Spec => []Contract!OncePerClaim
<1>1. Contract!Init => Promise!Init
  BY Zenon DEF Contract!Init, Contract!Unborn, Promise!Init, Promise!Unborn
<1>2. Contract!Next => Promise!Next
  BY Zenon DEF Contract!Next, Contract!Operate, Contract!Wipe, Contract!Moves,
       Contract!Submitted, Contract!Granted, Contract!Settled, Contract!Revoked,
       Contract!Discarded, Promise!Next, Promise!Operate, Promise!Wipe, Promise!Moves,
       Promise!Submitted, Promise!Granted, Promise!Settled, Promise!Revoked,
       Promise!Discarded
<1>3. Promise!OncePerClaim => Contract!OncePerClaim
  BY Zenon DEF Contract!OncePerClaim, Promise!OncePerClaim
<1> QED BY <1>1, <1>2, <1>3, Promise!EachClaimOnce, ContractIsKept, PTL
        DEF ImplementsContract, Contract!Spec, Promise!Spec
=============================================================================
