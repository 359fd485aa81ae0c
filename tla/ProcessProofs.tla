---------------------------- MODULE ProcessProofs ----------------------------
(***************************************************************************)
(* What one pass and the client of a test promise, for every program of    *)
(* enqueues, every limit and every set of queues.                          *)
(*                                                                         *)
(* The inductive invariant of the pass has five parts: the shapes of the   *)
(* variables; that what runs was claimed by this pass, or is adrift; how   *)
(* many ran in each queue; the line, the jobs that ran followed by those   *)
(* claimed and still to run, with what its order promises and what is left *)
(* waiting behind it; and that nothing due is left out.  The client's adds *)
(* which queues it tracks and what a run that came to rest leaves.         *)
(* The last part is about retries: what a policy makes a failed job wait   *)
(* for, and that no claim comes before.                                    *)
(***************************************************************************)
EXTENDS FakeClient, FunctionTheorems, FiniteSetTheorems, SequenceTheorems,
        WellFoundedInduction, TLAPS

-----------------------------------------------------------------------------
(* Finite sets and their arrangements.                                     *)

\* A family of subsets of a finite set has a member with no other inside it.
LEMMA SmallestSet ==
  ASSUME NEW S, IsFiniteSet(S), NEW F \in SUBSET SUBSET S, F # {}
  PROVE  \E T \in F : \A U \in F : U \subseteq T => U = T
<1> DEFINE R == StrictSubsetOrdering(S)
<1>1. IsWellFoundedOn(R, SUBSET S)
  BY FS_StrictSubsetOrderingWellFounded, FS_FiniteSubsetsOfFinite
<1>2. PICK T \in F : \A U \in F : ~(<<U, T>> \in R)
  <2> HIDE DEF R
  <2> QED BY <1>1, WFMin
<1> QED BY <1>2 DEF StrictSubsetOrdering

\* An arrangement of a set lists every member once.
LEMMA Arrangement ==
  ASSUME NEW D, IsFiniteSet(D), NEW s \in SetToSeqs(D)
  PROVE  /\ s \in Seq(D) /\ DOMAIN s = 1..Cardinality(D) /\ Len(s) = Cardinality(D)
         /\ Cardinality(D) \in Nat
         /\ \A j, k \in DOMAIN s : s[j] = s[k] => j = k
         /\ \A q \in D : \E k \in DOMAIN s : s[k] = q
<1> DEFINE I == 1..Cardinality(D)
<1>1. Cardinality(D) \in Nat
  BY FS_CardinalityType
<1>2. s \in [I -> D] /\ \A j, k \in I : j # k => s[j] # s[k]
  BY DEF SetToSeqs
<1>3. s \in Seq(D) /\ DOMAIN s = I /\ Len(s) = Cardinality(D)
  BY <1>1, <1>2
<1>4. s \in Injection(I, D)
  BY <1>2 DEF Injection, IsInjective
<1>5. Cardinality(I) = Cardinality(D)
  BY <1>1, FS_Interval
<1>6. s \in Surjection(I, D)
  BY <1>4, <1>5, FS_Injection
<1>7. \A q \in D : \E k \in I : s[k] = q
  BY <1>6 DEF Surjection
<1> QED BY <1>1, <1>2, <1>3, <1>7

-----------------------------------------------------------------------------
(* The order of execution.                                                 *)

\* What is ordered: jobs of a store by their PriorityAt and then their ID.
Comparable(store, ids) ==
    /\ IsFiniteSet(ids) /\ ids \subseteq Int
    /\ \A i \in ids : store[i].priorityAt \in Int

Before(store, ids, i) == {j \in ids : Precedes(store, j, i)}

LEMMA PrecedesIsOrder ==
  ASSUME NEW store, NEW ids, Comparable(store, ids)
  PROVE  /\ \A i \in ids : ~Precedes(store, i, i)
         /\ \A i, j \in ids : i # j => Precedes(store, i, j) \/ Precedes(store, j, i)
         /\ \A i, j, k \in ids :
               Precedes(store, i, j) /\ Precedes(store, j, k) => Precedes(store, i, k)
<1>1. \A i \in ids : i \in Int /\ store[i].priorityAt \in Int
  BY DEF Comparable
<1>2. \A i \in ids : ~Precedes(store, i, i)
  BY <1>1 DEF Precedes
<1>3. \A i, j \in ids : i # j => Precedes(store, i, j) \/ Precedes(store, j, i)
  BY <1>1 DEF Precedes
<1>4. ASSUME NEW i \in ids, NEW j \in ids, NEW k \in ids,
             Precedes(store, i, j), Precedes(store, j, k)
      PROVE  Precedes(store, i, k)
  BY <1>1, <1>4 DEF Precedes
<1> QED BY <1>2, <1>3, <1>4

\* Of the jobs of a set, some are preceded by none.
LEMMA SomeIsFirst ==
  ASSUME NEW store, NEW ids, Comparable(store, ids), ids # {}
  PROVE  \E i \in ids : Before(store, ids, i) = {}
<1> DEFINE F == {Before(store, ids, i) : i \in ids}
<1>1. F \in SUBSET SUBSET ids /\ F # {}
  BY DEF Before
<1>2. PICK T \in F : \A U \in F : U \subseteq T => U = T
  <2>1. IsFiniteSet(ids)
    BY DEF Comparable
  <2> HIDE DEF F
  <2> QED BY <1>1, <2>1, SmallestSet
<1>3. PICK i \in ids : T = Before(store, ids, i)
  BY <1>2
<1>4. ASSUME NEW j \in Before(store, ids, i) PROVE FALSE
  <2>1. j \in ids /\ Precedes(store, j, i)
    BY DEF Before
  <2>2. Before(store, ids, j) \subseteq T /\ j \in T /\ j \notin Before(store, ids, j)
    BY <1>3, <2>1, PrecedesIsOrder DEF Before
  <2> QED BY <1>2, <2>1, <2>2
<1> QED BY <1>4

\* And some precede all the others.
LEMMA SomeIsLast ==
  ASSUME NEW store, NEW ids, Comparable(store, ids), ids # {}
  PROVE  \E i \in ids : \A j \in ids \ {i} : Precedes(store, j, i)
<1> DEFINE After(i) == {j \in ids : Precedes(store, i, j)}
           F == {After(i) : i \in ids}
<1>1. F \in SUBSET SUBSET ids /\ F # {}
  OBVIOUS
<1>2. PICK T \in F : \A U \in F : U \subseteq T => U = T
  <2>1. IsFiniteSet(ids)
    BY DEF Comparable
  <2> HIDE DEF F
  <2> QED BY <1>1, <2>1, SmallestSet
<1>3. PICK i \in ids : T = After(i)
  BY <1>2
<1>4. ASSUME NEW j \in After(i) PROVE FALSE
  <2>1. After(j) \subseteq T /\ j \in T /\ j \notin After(j)
    BY <1>3, PrecedesIsOrder
  <2> QED BY <1>2, <2>1
<1> QED BY <1>4, PrecedesIsOrder

\* Fetch takes no more rows than its limit, some when there are any, and none
\* before one that precedes it.
LEMMA FirstOfIsPrefix ==
  ASSUME NEW store, NEW ids, Comparable(store, ids), NEW limit \in Nat \ {0}
  PROVE  LET first == FirstOf(store, ids, limit) IN
         /\ IsFiniteSet(first) /\ first \subseteq ids
         /\ Cardinality(first) <= limit
         /\ ids # {} => first # {}
         /\ \A i \in first, j \in ids \ first : Precedes(store, i, j)
<1> DEFINE first == FirstOf(store, ids, limit)
<1>1. first = {i \in ids : Cardinality(Before(store, ids, i)) < limit}
  BY DEF FirstOf, Before
<1> HIDE DEF first
<1>2. first \subseteq ids /\ IsFiniteSet(first) /\ IsFiniteSet(ids)
  BY <1>1, FS_Subset DEF Comparable
<1>3. \A i \in ids : /\ IsFiniteSet(Before(store, ids, i))
                     /\ Cardinality(Before(store, ids, i)) \in Nat
  <2> TAKE i \in ids
  <2>1. Before(store, ids, i) \subseteq ids
    BY DEF Before
  <2> QED BY <1>2, <2>1, FS_Subset, FS_CardinalityType
<1>4. ASSUME first # {} PROVE Cardinality(first) <= limit
  <2>1. Comparable(store, first)
    BY <1>2 DEF Comparable
  <2>2. PICK i \in first : \A j \in first \ {i} : Precedes(store, j, i)
    BY <1>4, <2>1, SomeIsLast
  <2>3. first \ {i} \subseteq Before(store, ids, i)
    BY <1>2, <2>2 DEF Before
  <2>4. /\ Cardinality(first \ {i}) <= Cardinality(Before(store, ids, i))
        /\ Cardinality(first \ {i}) \in Nat
    BY <1>2, <1>3, <2>3, FS_Subset, FS_CardinalityType
  <2>5. Cardinality(first) = Cardinality(first \ {i}) + 1
    <3>1. Cardinality(first) \in Nat
      BY <1>2, FS_CardinalityType
    <3>2. Cardinality(first \ {i}) = Cardinality(first) - 1
      BY <1>2, FS_RemoveElement
    <3> QED BY <3>1, <3>2
  <2>6. Cardinality(Before(store, ids, i)) < limit /\ Cardinality(Before(store, ids, i)) \in Nat
    BY <1>1, <1>2, <1>3
  <2> QED BY <2>4, <2>5, <2>6
<1>5. first = {} => Cardinality(first) <= limit
  BY FS_EmptySet
<1>6. ASSUME ids # {} PROVE first # {}
  <2>1. PICK i \in ids : Before(store, ids, i) = {}
    BY <1>6, SomeIsFirst
  <2>2. Cardinality(Before(store, ids, i)) = 0
    BY <2>1, FS_EmptySet
  <2> QED BY <1>1, <2>2
<1>7. ASSUME NEW i \in first, NEW j \in ids \ first PROVE Precedes(store, i, j)
  <2> SUFFICES ASSUME Precedes(store, j, i) PROVE FALSE
    BY <1>2, PrecedesIsOrder
  <2>1. Before(store, ids, j) \subseteq Before(store, ids, i)
    BY <1>2, PrecedesIsOrder DEF Before
  <2>2. Cardinality(Before(store, ids, j)) <= Cardinality(Before(store, ids, i))
    BY <1>2, <1>3, <2>1, FS_Subset
  <2> QED BY <1>1, <1>2, <1>3, <2>2
<1> QED BY <1>2, <1>4, <1>5, <1>6, <1>7 DEF first

-----------------------------------------------------------------------------
(* Rows.                                                                   *)

USE DEF Scheduled, Available, Running, Retryable, Completed, Cancelled, Dead,
        TerminalStates, States

LEMMA Words ==
  /\ \A t \in Instant : t \in Int /\ t # NoTime
  /\ \A t \in Instant, d \in Duration : SubDurationClamped(t, d) \in Instant
  /\ \A t \in Instant, d \in Duration : SubDuration(t, d) \in Instant
  BY InstantRange DEF Instant, Duration, NoTime, SubDuration, SubDurationClamped, Clamp, Wrap, Span

LEMMA ClaimedRow ==
  ASSUME NEW row \in JobRow, NEW t \in Instant, NEW new, new = ClaimRow(row, t)
  PROVE  /\ new \in JobRow /\ new.state = Running
         /\ new.generation = row.generation + 1 /\ new.attempt = row.attempt + 1
         /\ new.queue = row.queue /\ new.priorityAt = row.priorityAt
<1>1. row.attempt + 1 \in Int /\ row.generation + 1 \in Nat
  BY DEF JobRow
<1> QED BY <1>1 DEF JobRow, ClaimRow

LEMMA AvailableRow ==
  ASSUME NEW row \in JobRow, NEW new, new = [row EXCEPT !.state = Available]
  PROVE  /\ new \in JobRow /\ new.state = Available
         /\ new.generation = row.generation /\ new.queue = row.queue
         /\ new.priorityAt = row.priorityAt /\ new.scheduledAt = row.scheduledAt
  BY DEF JobRow

LEMMA RescuedRow ==
  ASSUME NEW row \in JobRow, NEW t \in Instant, NEW new, new = RescueRow(row, t)
  PROVE  /\ new \in JobRow /\ new.state = Retryable
         /\ new.generation = row.generation /\ new.queue = row.queue
<1>1. SubDurationClamped(t, row.boost) \in Instant
  BY Words DEF JobRow
<1> QED BY <1>1 DEF JobRow, RescueRow

LEMMA StoredRow ==
  ASSUME NEW req, req.queue \in Queues, req.boost \in Duration, NEW t \in Instant,
         SubStorable(StartAt(req, t), req.boost), NEW new, new = NewRow(req, t)
  PROVE  /\ new \in JobRow /\ new.state \in {Scheduled, Available}
         /\ new.queue = req.queue
<1>1. StartAt(req, t) \in Instant
  BY DEF SubStorable, ValidateInstant
<1>2. SubDuration(StartAt(req, t), req.boost) \in Instant
  BY <1>1, Words
<1>3. << >> \in Seq(Int)
  OBVIOUS
<1> QED BY <1>1, <1>2, <1>3 DEF JobRow, NewRow

\* An outcome of this pass and the row it leaves.
Outcomes == {"complete", "cancel", "kill", "retry", "snooze"}

OutcomeOK(o) ==
    /\ o.kind \in Outcomes /\ o.attempt \in Int /\ o.snoozes \in Nat
    /\ o.kind \in {"retry", "snooze"} => o.at \in Instant

LEMMA AppliedRow ==
  ASSUME NEW row \in JobRow, now \in Instant, NEW o, OutcomeOK(o), NEW new, new = Apply(row, o)
  PROVE  /\ new \in JobRow /\ new.state \in TerminalStates \union {Retryable}
         /\ new.generation = row.generation /\ new.queue = row.queue
<1>1. /\ row.errors \in Seq(Int) /\ row.attempt \in Int /\ row.boost \in Duration
      /\ Append(row.errors, o.attempt) \in Seq(Int)
      /\ Append(row.errors, row.attempt) \in Seq(Int)
      /\ row.attempt - 1 \in Int /\ o.snoozes \in Nat
  BY DEF JobRow, OutcomeOK
<1>2. CASE o.kind = "complete"
  <2>1. new = CompleteRow(row, o, now)
    BY <1>2 DEF Apply
  <2>2. new \in JobRow
    BY <1>1, <2>1 DEF JobRow, CompleteRow
  <2>3. new.state = Completed /\ new.generation = row.generation /\ new.queue = row.queue
    BY <2>1 DEF JobRow, CompleteRow
  <2> QED BY <2>2, <2>3
<1>3. CASE o.kind = "cancel"
  <2> DEFINE errors == IF o.message THEN Append(row.errors, row.attempt) ELSE row.errors
  <2>1. errors \in Seq(Int) /\ o.snoozes \in Nat
    BY <1>1
  <2>2. new = [row EXCEPT !.state = Cancelled, !.finalizedAt = now, !.errors = errors,
                          !.snoozes = o.snoozes]
    BY <1>3 DEF Apply, CancelRow
  <2> HIDE DEF errors
  <2>3. new \in JobRow
    BY <2>1, <2>2, ZenonT(30) DEF JobRow
  <2>4. new.state = Cancelled /\ new.generation = row.generation /\ new.queue = row.queue
    BY <2>2 DEF JobRow
  <2> QED BY <2>3, <2>4
<1>4. CASE o.kind = "kill"
  <2>1. new = KillRow(row, o, now)
    BY <1>4 DEF Apply
  <2>2. new \in JobRow
    BY <1>1, <2>1 DEF JobRow, KillRow
  <2>3. new.state = Dead /\ new.generation = row.generation /\ new.queue = row.queue
    BY <2>1 DEF JobRow, KillRow
  <2> QED BY <2>2, <2>3
<1>5. CASE o.kind = "retry"
  <2> DEFINE priorityAt == SubDurationClamped(o.at, row.boost)
           errors     == Append(row.errors, o.attempt)
  <2>1. o.at \in Instant /\ priorityAt \in Instant /\ errors \in Seq(Int) /\ o.snoozes \in Nat
    BY <1>1, <1>5, Words DEF OutcomeOK
  <2>2. new = [row EXCEPT !.state = Retryable, !.scheduledAt = o.at, !.priorityAt = priorityAt,
                          !.finalizedAt = NoTime, !.errors = errors,
                          !.snoozes = o.snoozes]
    BY <1>5 DEF Apply, RetryRow
  <2> HIDE DEF priorityAt, errors
  <2>3. new \in JobRow
    BY <2>1, <2>2, ZenonT(30) DEF JobRow
  <2>4. new.state = Retryable /\ new.generation = row.generation /\ new.queue = row.queue
    BY <2>2 DEF JobRow
  <2> QED BY <2>3, <2>4
<1>6. CASE o.kind = "snooze"
  <2> DEFINE priorityAt == SubDurationClamped(o.at, row.boost)
           attempt    == row.attempt - 1
  <2>1. o.at \in Instant /\ priorityAt \in Instant /\ attempt \in Int /\ o.snoozes \in Nat
    BY <1>1, <1>6, Words DEF OutcomeOK
  <2>2. new = [row EXCEPT !.state = Retryable, !.attempt = attempt, !.scheduledAt = o.at,
                          !.priorityAt = priorityAt, !.finalizedAt = NoTime,
                          !.snoozes = o.snoozes]
    BY <1>6 DEF Apply, SnoozeRow
  <2> HIDE DEF priorityAt, attempt
  <2>3. new \in JobRow
    BY <2>1, <2>2, ZenonT(30) DEF JobRow
  <2>4. new.state = Retryable /\ new.generation = row.generation /\ new.queue = row.queue
    BY <2>2 DEF JobRow
  <2> QED BY <2>3, <2>4
<1> QED BY <1>2, <1>3, <1>4, <1>5, <1>6 DEF OutcomeOK, Outcomes

-----------------------------------------------------------------------------
(* What an enqueue resolves to.                                            *)

\* Of finitely many positions one is the last.
LEMMA LastPosition ==
  ASSUME NEW n \in Nat, NEW P \in SUBSET (1..n), P # {}
  PROVE  \E k \in P : \A m \in P : m <= k
<1> DEFINE From(k) == {m \in P : m >= k}
           F == {From(k) : k \in P}
           S == 1..n
<1>1. F \in SUBSET SUBSET S /\ F # {}
  OBVIOUS
<1>2. IsFiniteSet(S)
  BY FS_Interval
<1>3. PICK T \in F : \A U \in F : U \subseteq T => U = T
  <2> HIDE DEF F, S
  <2> QED BY <1>1, <1>2, SmallestSet
<1>4. PICK k \in P : T = From(k)
  BY <1>3
<1>5. ASSUME NEW m \in P, ~(m <= k) PROVE FALSE
  <2>1. \A x \in P : x \in Int
    OBVIOUS
  <2>2. m > k
    BY <1>5, <2>1
  <2>3. \A x \in From(m) : x \in From(k)
    <3> TAKE x \in From(m)
    <3>1. x \in P /\ x >= m
      OBVIOUS
    <3>2. x \in Int /\ m \in Int /\ k \in Int
      BY <2>1, <3>1
    <3>3. x >= k
      BY <2>2, <3>1, <3>2
    <3> QED BY <3>1, <3>3
  <2>4. k \in From(k) /\ k \notin From(m)
    BY <2>1, <2>2
  <2> QED BY <1>3, <1>4, <2>3, <2>4
<1> QED BY <1>5

LEMMA GivenIsSet ==
  ASSUME NEW opts, opts \in Seq(ToSet(opts)), NEW f \in DOMAIN Unset
  PROVE  \/ Given(opts)[f] = Unset[f]
         \/ \E k \in DOMAIN opts : opts[k].field = f /\ Given(opts)[f] = opts[k].value
<1> DEFINE setting == {k \in DOMAIN opts : opts[k].field = f}
<1>1. Given(opts)[f] = IF setting = {} THEN Unset[f]
                       ELSE opts[CHOOSE k \in setting : \A m \in setting : m <= k].value
  BY DEF Given
<1>2. ASSUME setting # {} PROVE \E k \in setting : \A m \in setting : m <= k
  <2>1. setting \in SUBSET (1..Len(opts)) /\ Len(opts) \in Nat
    OBVIOUS
  <2> HIDE DEF setting
  <2> QED BY <1>2, <2>1, LastPosition
<1>3. CASE setting # {}
  <2> DEFINE last0 == CHOOSE k \in setting : \A m \in setting : m <= k
  <2>1. last0 \in setting
    BY <1>2, <1>3
  <2> QED BY <1>1, <1>3, <2>1
<1> QED BY <1>1, <1>3

\* The resolved options name a queue there is and a boost that is a word.
LEMMA ResolvedOK ==
  ASSUME NEW id \in 1..MaxID, NEW inserts \in InsertsFor[id], NEW k \in DOMAIN inserts
  PROVE  /\ Resolved(inserts)[k].queue \in Queues
         /\ Resolved(inserts)[k].boost \in Duration
<1> DEFINE kind == inserts[k].kind
           opts == inserts[k].opts
           given == Given(opts)
           ofKind == KindOptions(kind)
<1>1. /\ DOMAIN kind.options = DOMAIN Unset
      /\ kind.options.queue \in Queues \union {""}
      /\ kind.options.boost \in Duration /\ kind.priority \in Duration
      /\ opts \in Seq(ToSet(opts))
      /\ \A n \in DOMAIN opts :
            /\ opts[n].field = "queue" => opts[n].value \in Queues \union {""}
            /\ opts[n].field = "boost" => opts[n].value \in Duration
  BY OptionsAssumption
<1>2. /\ {"queue", "boost"} \subseteq DOMAIN Unset
      /\ Unset["queue"] = "" /\ Unset["boost"] = 0 /\ 0 \in Duration
  BY InstantRange DEF Unset, Duration
<1>3. given["queue"] \in Queues \union {""} /\ given["boost"] \in Duration
  <2> HIDE DEF opts
  <2>0. opts \in Seq(ToSet(opts)) /\ {"queue", "boost"} \subseteq DOMAIN Unset
    BY <1>1, <1>2
  <2>1. \/ given["queue"] = Unset["queue"]
        \/ \E n \in DOMAIN opts : opts[n].field = "queue" /\ given["queue"] = opts[n].value
    BY ONLY <2>0, GivenIsSet
  <2>2. \/ given["boost"] = Unset["boost"]
        \/ \E n \in DOMAIN opts : opts[n].field = "boost" /\ given["boost"] = opts[n].value
    BY ONLY <2>0, GivenIsSet
  <2> QED BY <1>1, <1>2, <2>1, <2>2
<1>4. ofKind["queue"] \in Queues \union {""} /\ ofKind["boost"] \in Duration
  <2> HIDE DEF kind
  <2> QED BY <1>1, <1>2 DEF KindOptions
<1>5. /\ ClientDefaults["queue"] \in Queues /\ ClientDefaults["boost"] \in Duration
      /\ DOMAIN ClientDefaults = DOMAIN Unset
  BY OptionsAssumption DEF ClientDefaults, Overlay, Library, Unset
<1> DEFINE base == Overlay(ClientDefaults, ofKind)
           all  == Overlay(base, given)
<1>6. /\ DOMAIN base = DOMAIN Unset
      /\ base["queue"] \in Queues /\ base["boost"] \in Duration
  <2> HIDE DEF ofKind
  <2> QED BY <1>2, <1>4, <1>5 DEF Overlay
<1>7. all["queue"] \in Queues /\ all["boost"] \in Duration
  <2> HIDE DEF given, base
  <2> QED BY <1>2, <1>3, <1>6 DEF Overlay
<1>8. Resolved(inserts)[k] = all
  BY DEF Resolved, Resolve
<1> QED BY <1>7, <1>8

-----------------------------------------------------------------------------
(* The inductive invariant of the pass.                                    *)

USE DEF inserted, clock, history, bounds, Phases

ClaimRecord == [id : Nat, generation : Nat, attempt : Int, snoozes : Nat]
RanRecord   == [id : Nat, queue : Queues]

\* The shapes of the variables, and what the phases mean.
Shape ==
    /\ ProcessTypeOK
    /\ now \in Instant /\ inMemory \in BOOLEAN
    /\ \A j, k \in DOMAIN queues : queues[j] = queues[k] => j = k
    /\ batch \in Seq(ClaimRecord)
    /\ batch # << >> => queues # << >>
    /\ results \in Seq(RanRecord)
    /\ phase # "idle" => outcome = "none"
    /\ phase = "recording" =>
          /\ op.kind \in Outcomes /\ op.attempt \in Int /\ op.snoozes \in Nat
          /\ op.id = batch[1].id /\ op.generation = batch[1].generation

\* Every claimed job is in the batch under its present generation, and every
\* running one was claimed by this pass or is adrift.
Held == {batch[k].id : k \in DOMAIN batch}

Claimed ==
    /\ \A k \in DOMAIN batch : /\ batch[k].id \in DOMAIN jobs
                               /\ jobs[batch[k].id].generation = batch[k].generation
    /\ \A i \in DOMAIN jobs : jobs[i].state = Running => i \in adrift \union Held

\* The results are counted queue by queue.
RanIn(q) == {k \in DOMAIN results : results[k].queue = q}

Counted ==
    /\ phase # "idle" =>
          /\ queues # << >> => Cardinality(RanIn(queues[1])) = processed
          /\ \A k \in DOMAIN queues : k > 1 => RanIn(queues[k]) = {}
          /\ \A q \in Queues \ ToSet(queues) : Cardinality(RanIn(q)) <= PerQueueJobBudget
          /\ processed + Len(batch) <= PerQueueJobBudget + FetchLimit
          /\ batch = << >> => processed <= PerQueueJobBudget
    /\ WithinBudget

\* The line: the jobs that ran and, after them, those of the batch in the order
\* they are to run.  Own jobs are those the pass alone is answerable for.
Line  == [k \in 1..(Len(results) + Len(batch)) |->
             IF k <= Len(results) THEN results[k].id ELSE batch[k - Len(results)].id]
Lined == ToSet(Line)
Own   == DOMAIN due \ helped

Waits(i) == jobs[i].state \in {Scheduled, Retryable, Available} /\ jobs[i].scheduledAt <= now

\* No own job stands in the line twice, the line is in the order due, and what
\* is not in it yet still waits as it was found, behind those that are.
Ordered ==
    /\ \A j, k \in DOMAIN Line : j < k /\ Line[j] = Line[k] => Line[j] \in helped
    /\ \A j, k \in DOMAIN Line :
          j < k /\ {Line[j], Line[k]} \subseteq Own /\ due[Line[j]].queue = due[Line[k]].queue
             => Precedes(due, Line[j], Line[k])
    /\ phase = "moving" => Line = << >>
    /\ phase # "idle" =>
          /\ \A i \in Lined : i \in DOMAIN jobs
          /\ \A i \in Lined \ helped : jobs[i].state # Available
          /\ \A i \in Own \ Lined : /\ i \in DOMAIN jobs /\ Waits(i)
                                    /\ jobs[i].queue = due[i].queue
                                    /\ jobs[i].priorityAt = due[i].priorityAt
          /\ \A i \in Own \intersect Lined, j \in Own \ Lined :
                jobs[j].state = Available /\ due[i].queue = due[j].queue => Precedes(due, i, j)

\* A store that the promotion of one pass can empty of due jobs.
Roomy == MaxID <= MoveDueMaxBatches * MoveDueBatch

Shown == {i \in DOMAIN jobs : jobs[i].state = Available}

\* After the promotion every own job is available until its queue is drained.
Complete ==
    Roomy =>
      /\ phase = "moving" => /\ \A i \in DOMAIN due : due[i].queue \in ToSet(queues)
                             /\ Cardinality(Shown) >= moves * MoveDueBatch
      /\ phase \notin {"idle", "moving"} =>
            \A i \in Own \ Lined : jobs[i].state = Available /\ due[i].queue \in ToSet(queues)
      /\ outcome = "nil" => Own \subseteq Lined

PassInv == Shape /\ Claimed /\ Counted /\ Ordered /\ Complete

-----------------------------------------------------------------------------
(* Steps of the world: nothing of the pass changes, and of the jobs only    *)
(* what others help along.                                                  *)

WorldStep ==
    /\ UNCHANGED <<inMemory, phase, pass, due, adrift>>
    /\ last' \in 0..MaxID /\ last <= last'
    /\ DOMAIN jobs \subseteq DOMAIN jobs' /\ DOMAIN jobs' \subseteq 1..last'
    /\ DOMAIN columns' = DOMAIN jobs'
    /\ \A i \in DOMAIN jobs' : /\ jobs'[i] \in JobRow
                               /\ jobs'[i].state = Running
                                     => i \in DOMAIN jobs /\ jobs[i].state = Running
    /\ \A i \in DOMAIN jobs : /\ jobs'[i] = jobs[i] \/ i \in helped'
                              /\ jobs'[i].generation = jobs[i].generation
                              /\ jobs[i].state = Available => jobs'[i].state = Available
    /\ now' \in Instant /\ now <= now'
    /\ helped \subseteq helped' /\ helped' \union DOMAIN failed' \subseteq 1..last'

LEMMA Constants ==
  /\ MaxID \in Nat /\ IsFiniteSet(1..MaxID)
  /\ FetchLimit \in Nat \ {0} /\ MoveDueBatch \in Nat \ {0} /\ MoveDueMaxBatches \in Nat \ {0}
  /\ PerQueueJobBudget \in Nat /\ MaxTries \in Nat \ {0} /\ MaxNow \in Instant
<1>1. MaxID \in Nat
  BY OptionsAssumption
<1>2. IsFiniteSet(1..MaxID)
  BY <1>1, FS_Interval
<1> QED BY <1>1, <1>2, PassAssumption

\* What the types say of the store.
LEMMA StoreOK ==
  ASSUME Shape
  PROVE  /\ IsFiniteSet(DOMAIN jobs) /\ DOMAIN jobs \subseteq 1..MaxID
         /\ DOMAIN jobs \subseteq 1..last /\ DOMAIN columns = DOMAIN jobs
         /\ \A i \in DOMAIN jobs : jobs[i] \in JobRow /\ i \in Int
         /\ last \in Nat /\ last <= MaxID
         /\ now \in Instant /\ now \in Int
         /\ helped \union adrift \union DOMAIN failed \subseteq 1..last
<1>1. /\ DOMAIN jobs \subseteq 1..last /\ DOMAIN columns = DOMAIN jobs
      /\ \A i \in DOMAIN jobs : jobs[i] \in JobRow
      /\ last \in 0..MaxID /\ now \in Instant
      /\ helped \union adrift \union DOMAIN failed \subseteq 1..last
  BY DEF Shape, ProcessTypeOK
<1>2. DOMAIN jobs \subseteq 1..MaxID
  BY <1>1, Constants
<1>3. IsFiniteSet(DOMAIN jobs)
  BY <1>2, Constants, FS_Subset
<1> QED BY <1>1, <1>2, <1>3, Constants, Words

LEMMA WorldKeeps ==
  ASSUME PassInv, WorldStep
  PROVE  PassInv'
<1> USE DEF WorldStep, pass
<1>1. Shape /\ Claimed /\ Counted /\ Ordered /\ Complete
  BY DEF PassInv
<1>2. Shape'
  BY <1>1 DEF Shape, ProcessTypeOK
<1>3. Claimed'
  BY <1>1 DEF Claimed, Held
<1>4. Counted'
  BY <1>1 DEF Counted, RanIn, WithinBudget
<1>5. Line' = Line /\ Lined' = Lined /\ Own' \subseteq Own /\ due' = due /\ phase' = phase
  BY DEF Line, Lined, Own
<1>6. Ordered'
  <2>1. \A j, k \in DOMAIN Line : j < k /\ Line[j] = Line[k] => Line[j] \in helped'
    BY <1>1 DEF Ordered
  <2>2. \A j, k \in DOMAIN Line :
          j < k /\ {Line[j], Line[k]} \subseteq Own' /\ due[Line[j]].queue = due[Line[k]].queue
             => Precedes(due, Line[j], Line[k])
    BY <1>1, <1>5 DEF Ordered
  <2>3. ASSUME phase # "idle"
        PROVE  /\ \A i \in Lined : i \in DOMAIN jobs'
               /\ \A i \in Lined \ helped' : jobs'[i].state # Available
    BY <1>1, <2>3 DEF Ordered
  <2>4. ASSUME phase # "idle", NEW i \in Own' \ Lined
        PROVE  /\ i \in DOMAIN jobs' /\ Waits(i)' /\ jobs'[i] = jobs[i]
               /\ jobs'[i].queue = due[i].queue
               /\ jobs'[i].priorityAt = due[i].priorityAt
    <3>1. /\ i \in DOMAIN jobs /\ Waits(i)
          /\ jobs[i].queue = due[i].queue
          /\ jobs[i].priorityAt = due[i].priorityAt
      BY <1>1, <1>5, <2>4 DEF Ordered
    <3>2. jobs'[i] = jobs[i] /\ i \in DOMAIN jobs'
      BY <2>4, <3>1 DEF Own
    <3>3. jobs[i].scheduledAt \in Int /\ now \in Int /\ now' \in Int
      BY <1>1, <3>1, Words DEF Shape, ProcessTypeOK, JobRow
    <3> QED BY <3>1, <3>2, <3>3 DEF Waits
  <2>5. ASSUME phase # "idle"
        PROVE  \A i \in Own' \intersect Lined, j \in Own' \ Lined :
                  jobs'[j].state = Available /\ due[i].queue = due[j].queue => Precedes(due, i, j)
    BY <1>1, <1>5, <2>4, <2>5 DEF Ordered
  <2>6. phase' = "moving" => Line' = << >>
    BY <1>1, <1>5 DEF Ordered
  <2> HIDE DEF WorldStep
  <2> QED BY <1>5, <2>1, <2>2, <2>3, <2>4, <2>5, <2>6 DEF Ordered
<1>7. Complete'
  <2> SUFFICES ASSUME Roomy PROVE Complete'
    BY DEF Complete
  <2>1. ASSUME phase = "moving" PROVE Cardinality(Shown') >= moves * MoveDueBatch
    <3>1. Shown \subseteq Shown'
      BY DEF Shown
    <3>2. IsFiniteSet(Shown')
      <4>1. IsFiniteSet((DOMAIN jobs)')
        <5>1. DOMAIN jobs' \subseteq 1..MaxID /\ IsFiniteSet(1..MaxID)
          BY Constants
        <5> QED BY <5>1, FS_Subset
      <4>2. Shown' \subseteq DOMAIN jobs'
        BY DEF Shown
      <4> QED BY <4>1, <4>2, FS_Subset
    <3>3. /\ Cardinality(Shown) <= Cardinality(Shown')
          /\ Cardinality(Shown) \in Nat /\ Cardinality(Shown') \in Nat
      BY <3>1, <3>2, FS_Subset, FS_CardinalityType
    <3>4. Cardinality(Shown) >= moves * MoveDueBatch /\ moves * MoveDueBatch \in Int
      BY <1>1, <2>1, PassAssumption DEF Complete, Shape, ProcessTypeOK
    <3> QED BY <3>3, <3>4
  <2>2. ASSUME phase \notin {"idle", "moving"}, NEW i \in Own' \ Lined
        PROVE  jobs'[i].state = Available /\ due[i].queue \in ToSet(queues)
    <3>1. jobs[i].state = Available /\ due[i].queue \in ToSet(queues)
      BY <1>1, <1>5, <2>2 DEF Complete
    <3>2. i \in DOMAIN jobs
      BY <1>1, <1>5, <2>2 DEF Ordered
    <3> QED BY <3>1, <3>2
  <2>3. phase = "moving" => \A i \in DOMAIN due : due[i].queue \in ToSet(queues)
    BY <1>1 DEF Complete
  <2>4. outcome = "nil" => Own' \subseteq Lined
    BY <1>1, <1>5 DEF Complete
  <2>5. UNCHANGED <<moves, queues, outcome>>
    OBVIOUS
  <2> HIDE DEF WorldStep
  <2> QED BY <1>5, <2>1, <2>2, <2>3, <2>4, <2>5 DEF Complete
<1> QED BY <1>2, <1>3, <1>4, <1>6, <1>7 DEF PassInv

LEMMA OthersStep ==
  ASSUME PassInv, Others
  PROVE  WorldStep
<1>1. Shape /\ last \in 0..MaxID /\ now <= now /\ last <= last
  BY StoreOK, Constants DEF PassInv
<1>2. PICK i \in DOMAIN jobs : OthersRescue(i) \/ OthersMove(i)
  BY DEF Others
<1>3. jobs[i] \in JobRow /\ i \in 1..last
  BY <1>1, StoreOK
<1>4. CASE OthersRescue(i)
  <2>1. /\ jobs[i].state = Running /\ jobs' = Rescue(jobs, {i}, now)
        /\ helped' = helped \union {i} /\ failed' = Delete(failed, {i})
        /\ UNCHANGED <<last, columns, inMemory, now, phase, pass, due, adrift>>
    BY <1>4 DEF OthersRescue, Stale
  <2>2. /\ DOMAIN jobs' = DOMAIN jobs
        /\ jobs'[i] = RescueRow(jobs[i], now)
        /\ \A j \in DOMAIN jobs \ {i} : jobs'[j] = jobs[j]
    BY <1>2, <2>1 DEF Rescue
  <2>3. /\ jobs'[i] \in JobRow /\ jobs'[i].state = Retryable
        /\ jobs'[i].generation = jobs[i].generation
    BY <1>1, <1>3, <2>2, RescuedRow, StoreOK
  <2>4. DOMAIN failed' \subseteq DOMAIN failed
    BY <2>1 DEF Delete
  <2> QED BY <1>1, <1>3, <2>1, <2>2, <2>3, <2>4, StoreOK DEF WorldStep
<1>5. CASE OthersMove(i)
  <2>1. /\ jobs[i].state \in {Scheduled, Retryable} /\ jobs' = MakeAvailable(jobs, {i})
        /\ helped' = helped \union {i}
        /\ UNCHANGED <<last, columns, inMemory, now, phase, pass, due, adrift, failed>>
    BY <1>5 DEF OthersMove, Due
  <2>2. /\ DOMAIN jobs' = DOMAIN jobs
        /\ jobs'[i] = [jobs[i] EXCEPT !.state = Available]
        /\ \A j \in DOMAIN jobs \ {i} : jobs'[j] = jobs[j]
    BY <1>2, <2>1 DEF MakeAvailable
  <2>3. /\ jobs'[i] \in JobRow /\ jobs'[i].state = Available
        /\ jobs'[i].generation = jobs[i].generation
    BY <1>1, <1>3, <2>2, AvailableRow
  <2> QED BY <1>1, <1>3, <2>1, <2>2, <2>3, StoreOK DEF WorldStep
<1> QED BY <1>2, <1>4, <1>5

LEMMA CancelStep ==
  ASSUME PassInv, Cancel
  PROVE  WorldStep
<1>1. Shape /\ last \in 0..MaxID /\ now <= now /\ last <= last
  BY StoreOK, Constants DEF PassInv
<1> QED BY <1>1, StoreOK DEF Cancel, WorldStep

LEMMA TickStep ==
  ASSUME PassInv, Tick
  PROVE  WorldStep
<1>1. Shape /\ last \in 0..MaxID /\ last <= last
  BY StoreOK, Constants DEF PassInv
<1>2. now' \in Instant /\ now <= now'
  BY <1>1, StoreOK, Constants, InstantRange DEF Tick, Instant
<1> QED BY <1>1, <1>2, StoreOK DEF Tick, WorldStep

\* What an enqueue asks the store for, if anything.
LEMMA StoredOK ==
  ASSUME Shape, NEW inserts \in Arrivals
  PROVE  LET reqs == Stored(inserts) IN
         /\ Len(reqs) \in Nat /\ DOMAIN reqs = 1..Len(reqs)
         /\ \A k \in DOMAIN reqs : /\ reqs[k].queue \in Queues /\ reqs[k].boost \in Duration
                                   /\ SubStorable(StartAt(reqs[k], now), reqs[k].boost)
<1> DEFINE options == Resolved(inserts)
           reqs    == [k \in DOMAIN options |-> Requested(options[k], now)]
<1>1. last + 1 \in 1..MaxID /\ inserts \in InsertsFor[last + 1]
  BY StoreOK, Constants DEF Arrivals
<1>2. inserts \in Seq(ToSet(inserts))
  BY <1>1, OptionsAssumption
<1>3. \A k \in DOMAIN inserts : options[k].queue \in Queues /\ options[k].boost \in Duration
  BY <1>1, ResolvedOK
<1>4. DOMAIN options = 1..Len(inserts) /\ DOMAIN inserts = 1..Len(inserts) /\ Len(inserts) \in Nat
  BY <1>2 DEF Resolved
<1>5. \A k \in 1..Len(inserts) : reqs[k].queue \in Queues /\ reqs[k].boost \in Duration
  <2> HIDE DEF options
  <2> QED BY <1>3, <1>4 DEF Requested
<1>6. DOMAIN reqs = 1..Len(inserts)
  BY <1>4
<1>7. Len(reqs) = Len(inserts)
  <2> HIDE DEF reqs
  <2> QED BY <1>4, <1>6
<1>8. \/ Stored(inserts) = << >>
      \/ Stored(inserts) = reqs /\ Accepted(reqs, now)
  BY DEF Stored
<1>9. CASE Stored(inserts) = << >>
  BY <1>9
<1>10. CASE Stored(inserts) = reqs /\ Accepted(reqs, now)
  <2> HIDE DEF reqs
  <2>1. \A k \in DOMAIN reqs : SubStorable(StartAt(reqs[k], now), reqs[k].boost)
    BY <1>10 DEF Accepted
  <2> QED BY <1>4, <1>5, <1>6, <1>7, <1>10, <2>1
<1> QED BY <1>8, <1>9, <1>10

LEMMA EnqueueStep ==
  ASSUME PassInv, NEW inserts \in Arrivals, EnqueueMany(inserts)
  PROVE  /\ WorldStep /\ UNCHANGED helped
         /\ \A i \in DOMAIN jobs : jobs'[i] = jobs[i]
         /\ \A i \in DOMAIN jobs' \ DOMAIN jobs :
               /\ i \in (last + 1)..last'
               /\ \E k \in DOMAIN Stored(inserts) : jobs'[i].queue = Stored(inserts)[k].queue
<1> DEFINE reqs == Stored(inserts)
           new  == (last + 1)..(last + Len(reqs))
<1>1. Shape
  BY DEF PassInv
<1>2. /\ Len(reqs) \in Nat /\ DOMAIN reqs = 1..Len(reqs)
      /\ \A k \in DOMAIN reqs : /\ reqs[k].queue \in Queues /\ reqs[k].boost \in Duration
                                /\ SubStorable(StartAt(reqs[k], now), reqs[k].boost)
  BY <1>1, StoredOK
<1>3. /\ last + Len(reqs) <= MaxID /\ last' = last + Len(reqs)
      /\ jobs' = Insert(jobs, last, reqs, now)
      /\ DOMAIN columns' = DOMAIN jobs \union new
      /\ UNCHANGED <<inMemory, now, cancelled, phase, pass, due, helped, adrift, failed>>
  BY DEF EnqueueMany
<1> HIDE DEF reqs
<1>4. /\ last' \in 0..MaxID /\ last <= last' /\ last \in Nat
  BY <1>1, <1>2, <1>3, StoreOK, Constants
<1>5. DOMAIN jobs' = DOMAIN jobs \union new /\ DOMAIN jobs' \subseteq 1..last'
  BY <1>1, <1>2, <1>3, <1>4, StoreOK DEF Insert
<1>6. \A i \in DOMAIN jobs : jobs'[i] = jobs[i]
  BY <1>3 DEF Insert
<1>7. ASSUME NEW i \in DOMAIN jobs' \ DOMAIN jobs
      PROVE  /\ i \in new /\ i - last \in DOMAIN reqs
             /\ jobs'[i] \in JobRow /\ jobs'[i].state # Running
             /\ jobs'[i].queue = reqs[i - last].queue
  <2>1. i \in new /\ i - last \in DOMAIN reqs
    BY <1>2, <1>4, <1>5
  <2>2. jobs'[i] = NewRow(reqs[i - last], now)
    BY <1>3, <2>1 DEF Insert
  <2> QED BY <1>1, <1>2, <2>1, <2>2, StoredRow, StoreOK
<1>8. \A i \in DOMAIN jobs' : jobs'[i] \in JobRow
  BY <1>1, <1>6, <1>7, StoreOK
<1>9. WorldStep
  <2>1. helped' \union DOMAIN failed' \subseteq 1..last'
    BY <1>1, <1>3, <1>4, StoreOK
  <2>2. now' \in Instant /\ now <= now'
    BY <1>1, <1>3, StoreOK
  <2> HIDE DEF new
  <2> QED BY <1>3, <1>4, <1>5, <1>6, <1>7, <1>8, <2>1, <2>2 DEF WorldStep
<1> QED BY <1>3, <1>6, <1>7, <1>9 DEF reqs

-----------------------------------------------------------------------------
(* The call and the promotion.                                             *)

USE DEF pass

LEMMA EmptyLine ==
  /\ results = << >> /\ batch = << >> => Line = << >> /\ Lined = {}
  /\ Line = << >> => Lined = {}
  BY DEF Line, Lined, ToSet

LEMMA EmptyLineNext ==
  /\ results' = << >> /\ batch' = << >> => Line' = << >> /\ Lined' = {}
  /\ Line' = << >> => Lined' = {}
  BY DEF Line, Lined, ToSet

LEMMA NoneHeld == batch = << >> => Held = {}
  BY DEF Held

LEMMA NobodyRan == results = << >> => \A q : RanIn(q) = {} /\ Cardinality(RanIn(q)) = 0
  BY FS_EmptySet DEF RanIn

LEMMA NobodyRanNext ==
  results' = << >> => \A q : RanIn(q)' = {} /\ Cardinality(RanIn(q))' = 0
  BY FS_EmptySet DEF RanIn

LEMMA CallKeeps ==
  ASSUME PassInv, NEW qs \in Seq(Queues), \A j, k \in DOMAIN qs : qs[j] = qs[k] => j = k,
         NEW ended, Call(qs, ended)
  PROVE  PassInv'
<1>1. /\ phase = "idle" /\ phase' \in {"idle", "moving"} /\ outcome' \in {"error", "none"}
      /\ phase' # "idle" => outcome' = "none"
      /\ queues' = qs /\ moves' = 0 /\ batch' = << >> /\ processed' = 0 /\ results' = << >>
      /\ due' = [i \in DueNow(qs) |-> [queue |-> jobs[i].queue, priorityAt |-> jobs[i].priorityAt]]
      /\ helped' = {}
      /\ UNCHANGED <<jobs, last, columns, inMemory, now, op, tries, adrift, failed>>
  BY DEF Call
<1>2. Shape /\ Claimed
  BY DEF PassInv
<1>3. Shape'
  BY <1>1, <1>2, Constants DEF Shape, ProcessTypeOK
<1>4. Claimed'
  <2>1. Held = {}
    BY <1>1, <1>2, NoneHeld DEF Shape, ProcessTypeOK
  <2> QED BY <1>1, <1>2, <2>1 DEF Claimed
<1>5. Counted'
  BY <1>1, Constants, NobodyRanNext DEF Counted, WithinBudget, RanIn
<1>6. Line' = << >> /\ Lined' = {} /\ Own' = DueNow(qs)
  BY <1>1, EmptyLineNext DEF Own
<1>7. Ordered'
  <2>1. \A i \in Own' : /\ i \in DOMAIN jobs' /\ Waits(i)'
                        /\ jobs'[i].queue = due'[i].queue
                        /\ jobs'[i].priorityAt = due'[i].priorityAt
    BY <1>1, <1>6 DEF DueNow, Waits
  <2> QED BY <1>6, <2>1 DEF Ordered
<1>8. Complete'
  <2>1. \A i \in DOMAIN due' : due'[i].queue \in ToSet(queues')
    BY <1>1 DEF DueNow
  <2>2. Cardinality(Shown') >= moves' * MoveDueBatch
    <3>1. Shown' \subseteq DOMAIN jobs
      BY <1>1 DEF Shown
    <3>2. Cardinality(Shown') \in Nat
      BY <1>2, <3>1, StoreOK, FS_Subset, FS_CardinalityType
    <3> QED BY <1>1, <3>2, Constants
  <2> QED BY <1>1, <2>1, <2>2 DEF Complete
<1> QED BY <1>3, <1>4, <1>5, <1>7, <1>8 DEF PassInv

\* A return with an error leaves nothing more to promise than what has run.
LEMMA ErrorKeeps ==
  ASSUME PassInv, Shape', Claimed', phase' = "idle", outcome' = "error", batch' = << >>,
         UNCHANGED <<results, due, helped>>
  PROVE  PassInv'
<1>1. Shape /\ Counted /\ Ordered
  BY DEF PassInv
<1>2. Counted'
  BY <1>1 DEF Counted, WithinBudget
<1>3. Len(results) \in Nat /\ Len(batch) \in Nat
  BY <1>1 DEF Shape
<1>4. /\ DOMAIN Line' = 1..Len(results) /\ DOMAIN Line' \subseteq DOMAIN Line
      /\ \A k \in DOMAIN Line' : Line'[k] = Line[k]
  BY <1>3 DEF Line
<1>5. Own' = Own
  BY DEF Own
<1>6. Ordered'
  <2>1. \A j, k \in DOMAIN Line' : j < k /\ Line'[j] = Line'[k] => Line'[j] \in helped
    BY <1>1, <1>4 DEF Ordered
  <2>2. \A j, k \in DOMAIN Line' :
          j < k /\ {Line'[j], Line'[k]} \subseteq Own /\ due[Line'[j]].queue = due[Line'[k]].queue
             => Precedes(due, Line'[j], Line'[k])
    BY <1>1, <1>4 DEF Ordered
  <2> QED BY <1>5, <2>1, <2>2 DEF Ordered
<1>7. Complete'
  BY DEF Complete
<1> QED BY <1>2, <1>6, <1>7 DEF PassInv

\* Jobs promoted are the same jobs but for their state.
LEMMA PromotedOK ==
  ASSUME Shape, NEW ids \in SUBSET Due(jobs, now), jobs' = MakeAvailable(jobs, ids)
  PROVE  /\ DOMAIN jobs' = DOMAIN jobs
         /\ \A i \in DOMAIN jobs :
               /\ jobs'[i] \in JobRow /\ jobs'[i].generation = jobs[i].generation
               /\ jobs'[i].queue = jobs[i].queue /\ jobs'[i].priorityAt = jobs[i].priorityAt
               /\ jobs'[i].scheduledAt = jobs[i].scheduledAt
               /\ i \in ids => jobs'[i].state = Available
               /\ i \notin ids => jobs'[i] = jobs[i]
               /\ jobs'[i].state = Running => jobs[i].state = Running
<1>1. DOMAIN jobs' = DOMAIN jobs
  BY DEF MakeAvailable
<1>2. ASSUME NEW i \in DOMAIN jobs, i \in ids
      PROVE  /\ jobs'[i] \in JobRow /\ jobs'[i].state = Available
             /\ jobs'[i].generation = jobs[i].generation /\ jobs'[i].queue = jobs[i].queue
             /\ jobs'[i].priorityAt = jobs[i].priorityAt
             /\ jobs'[i].scheduledAt = jobs[i].scheduledAt
  <2>1. jobs'[i] = [jobs[i] EXCEPT !.state = Available]
    BY <1>2 DEF MakeAvailable
  <2> QED BY <2>1, AvailableRow, StoreOK
<1>3. \A i \in DOMAIN jobs \ ids : jobs'[i] = jobs[i]
  BY DEF MakeAvailable
<1> QED BY <1>1, <1>2, <1>3, StoreOK

LEMMA PromotionClaimed ==
  ASSUME Shape, Claimed, NEW ids \in SUBSET Due(jobs, now), jobs' = MakeAvailable(jobs, ids),
         phase = "moving", batch' = << >>, adrift' = adrift
  PROVE  Claimed'
<1>1. Held = {}
  BY NoneHeld DEF Shape, ProcessTypeOK
<1>2. \A i \in DOMAIN jobs' : jobs'[i].state = Running => i \in DOMAIN jobs /\ jobs[i].state = Running
  BY PromotedOK
<1> QED BY <1>1, <1>2 DEF Claimed

LEMMA MoveFailsKeeps ==
  ASSUME PassInv, MoveFails
  PROVE  PassInv'
<1>1. PICK ids \in {{}} \union UpTo(MoveDueBatch, Due(jobs, now)) : jobs' = MakeAvailable(jobs, ids)
  BY DEF MoveFails
<1>2. ids \in SUBSET Due(jobs, now) /\ Shape /\ Claimed
  BY DEF UpTo, PassInv
<1>3. /\ phase = "moving" /\ phase' = "idle" /\ outcome' = "error" /\ batch' = << >> /\ moves' = 0
      /\ UNCHANGED <<last, columns, inMemory, now, queues, processed, op, tries, results,
                     due, helped, adrift, failed>>
  BY DEF MoveFails, Return
<1>4. Claimed'
  BY <1>1, <1>2, <1>3, PromotionClaimed
<1>5. Shape'
  BY <1>1, <1>2, <1>3, PromotedOK, Constants DEF Shape, ProcessTypeOK
<1> QED BY <1>3, <1>4, <1>5, ErrorKeeps

\* What a full batch adds to the available jobs.
LEMMA ShownGrows ==
  ASSUME Shape, NEW ids \in SUBSET Due(jobs, now), jobs' = MakeAvailable(jobs, ids)
  PROVE  /\ IsFiniteSet(Shown') /\ Shown' \subseteq DOMAIN jobs
         /\ Cardinality(Shown) \in Nat /\ Cardinality(ids) \in Nat
         /\ Cardinality(Shown') = Cardinality(Shown) + Cardinality(ids)
<1>1. Shown' = Shown \union ids /\ Shown \intersect ids = {}
  BY PromotedOK DEF Shown, Due
<1>2. Shown \subseteq DOMAIN jobs /\ ids \subseteq DOMAIN jobs
  BY DEF Shown, Due
<1>3. IsFiniteSet(Shown) /\ IsFiniteSet(ids)
  BY <1>2, StoreOK, FS_Subset
<1> HIDE DEF Shown
<1>4. Cardinality(Shown \intersect ids) = 0
  BY <1>1, FS_EmptySet
<1>5. /\ IsFiniteSet(Shown \union ids)
      /\ Cardinality(Shown \union ids)
           = Cardinality(Shown) + Cardinality(ids) - Cardinality(Shown \intersect ids)
  BY <1>3, FS_Union
<1>6. Cardinality(Shown) \in Nat /\ Cardinality(ids) \in Nat
  BY <1>3, FS_CardinalityType
<1> QED BY <1>1, <1>2, <1>4, <1>5, <1>6

LEMMA MoveKeeps ==
  ASSUME PassInv, Move
  PROVE  PassInv'
<1>1. PICK ids \in UpTo(MoveDueBatch, Due(jobs, now)) :
         /\ jobs' = MakeAvailable(jobs, ids)
         /\ IF Cardinality(ids) < MoveDueBatch \/ moves + 1 = MoveDueMaxBatches
            THEN phase' = "fetching" /\ moves' = 0
            ELSE moves' = moves + 1 /\ UNCHANGED phase
  BY DEF Move
<1>2. ids \in SUBSET Due(jobs, now) /\ Shape /\ Claimed /\ Counted /\ Ordered /\ Complete
  BY DEF UpTo, PassInv
<1>3. /\ phase = "moving"
      /\ UNCHANGED <<last, columns, inMemory, now, queues, batch, processed, op, tries, results,
                     outcome, due, helped, adrift, failed>>
  BY DEF Move
<1>4. batch = << >> /\ moves \in 0..(MoveDueMaxBatches - 1)
  BY <1>2, <1>3 DEF Shape, ProcessTypeOK
<1>5. phase' \in {"moving", "fetching"} /\ moves' \in 0..(MoveDueMaxBatches - 1)
  BY <1>1, <1>3, <1>4, Constants
<1>6. Shape'
  BY <1>1, <1>2, <1>3, <1>4, <1>5, PromotedOK DEF Shape, ProcessTypeOK
<1>7. Claimed'
  BY <1>1, <1>2, <1>3, <1>4, PromotionClaimed
<1>8. Counted'
  BY <1>2, <1>3, <1>5 DEF Counted, WithinBudget, RanIn
<1>9. Line = << >> /\ Line' = << >> /\ Lined = {} /\ Lined' = {} /\ Own' = Own
  <2>1. Line = << >>
    BY <1>2, <1>3 DEF Ordered
  <2>2. Line' = Line
    BY <1>3 DEF Line
  <2> QED BY <1>3, <2>1, <2>2, EmptyLine, EmptyLineNext DEF Own
<1>10. \A i \in Own : /\ i \in DOMAIN jobs /\ Waits(i)
                      /\ jobs[i].queue = due[i].queue /\ jobs[i].priorityAt = due[i].priorityAt
  BY <1>2, <1>3, <1>9 DEF Ordered
<1>11. \A i \in Own : i \in DOMAIN jobs' /\ Waits(i)'
  <2> TAKE i \in Own
  <2>1. jobs'[i].state = Available \/ jobs'[i] = jobs[i]
    BY <1>1, <1>2, <1>10, PromotedOK
  <2>2. jobs'[i].scheduledAt = jobs[i].scheduledAt /\ i \in DOMAIN jobs'
    BY <1>1, <1>2, <1>10, PromotedOK
  <2> QED BY <1>3, <1>10, <2>1, <2>2 DEF Waits
<1>12. Ordered'
  <2>1. \A i \in Own : jobs'[i].queue = due[i].queue /\ jobs'[i].priorityAt = due[i].priorityAt
    BY <1>1, <1>2, <1>10, PromotedOK
  <2> QED BY <1>3, <1>9, <1>11, <2>1 DEF Ordered
<1>13. Complete'
  <2> SUFFICES ASSUME Roomy PROVE Complete'
    BY DEF Complete
  <2>1. /\ \A i \in DOMAIN due : due[i].queue \in ToSet(queues)
        /\ Cardinality(Shown) >= moves * MoveDueBatch
    BY <1>2, <1>3 DEF Complete
  <2>2. /\ IsFiniteSet(Shown') /\ Shown' \subseteq DOMAIN jobs
        /\ Cardinality(Shown) \in Nat /\ Cardinality(ids) \in Nat
        /\ Cardinality(Shown') = Cardinality(Shown) + Cardinality(ids)
    BY <1>1, <1>2, ShownGrows
  <2>3. ASSUME Cardinality(ids) >= MoveDueBatch
        PROVE  Cardinality(Shown') >= (moves + 1) * MoveDueBatch
    <3>1. (moves + 1) * MoveDueBatch = moves * MoveDueBatch + MoveDueBatch
      BY <1>4, Constants
    <3>2. moves * MoveDueBatch \in Int /\ MoveDueBatch \in Int
      BY <1>4, Constants
    <3> QED BY <2>1, <2>2, <2>3, <3>1, <3>2
  <2>4. CASE Cardinality(ids) < MoveDueBatch
    <3>1. ids = Due(jobs, now)
      BY <1>1, <2>4, Constants DEF UpTo
    <3>2. \A i \in Own : jobs'[i].state = Available
      <4> TAKE i \in Own
      <4>1. jobs[i].state = Available \/ i \in ids
        BY <1>10, <3>1 DEF Waits, Due
      <4> QED BY <1>1, <1>2, <1>10, <4>1, PromotedOK
    <3>3. phase' = "fetching"
      BY <1>1, <2>4
    <3> QED BY <1>3, <1>6, <1>9, <2>1, <3>2, <3>3 DEF Complete, Own, Shape
  <2>5. CASE ~(Cardinality(ids) < MoveDueBatch) /\ moves + 1 = MoveDueMaxBatches
    <3>1. Cardinality(Shown') >= MaxID
      <4>1. Cardinality(Shown') >= MoveDueMaxBatches * MoveDueBatch
        BY <2>2, <2>3, <2>5, Constants
      <4>2. MoveDueMaxBatches * MoveDueBatch \in Int
        BY Constants
      <4> QED BY <2>2, <4>1, <4>2, Constants DEF Roomy
    <3>2. Shown' = 1..MaxID
      <4>1. Cardinality(1..MaxID) = MaxID
        BY Constants, FS_Interval
      <4>2. Shown' \subseteq 1..MaxID
        BY <1>2, <2>2, StoreOK
      <4>3. Cardinality(Shown') <= Cardinality(1..MaxID)
        BY <4>2, Constants, FS_Subset
      <4>4. Cardinality(Shown') = Cardinality(1..MaxID)
        BY <2>2, <3>1, <4>1, <4>3, Constants
      <4> QED BY <4>2, <4>4, Constants, FS_Subset
    <3>3. \A i \in Own : jobs'[i].state = Available
      BY <1>2, <1>10, <3>2, StoreOK DEF Shown
    <3>4. phase' = "fetching"
      BY <1>1, <2>5
    <3> QED BY <1>3, <1>6, <1>9, <2>1, <3>3, <3>4 DEF Complete, Own, Shape
  <2>6. CASE ~(Cardinality(ids) < MoveDueBatch) /\ moves + 1 # MoveDueMaxBatches
    <3>1. phase' = "moving" /\ moves' = moves + 1
      BY <1>1, <1>3, <2>6
    <3>2. Cardinality(Shown') >= moves' * MoveDueBatch
      BY <2>2, <2>3, <2>6, <3>1, Constants
    <3> QED BY <1>3, <1>6, <2>1, <3>1, <3>2 DEF Complete, Shape
  <2> QED BY <2>4, <2>5, <2>6
<1> QED BY <1>6, <1>7, <1>8, <1>12, <1>13 DEF PassInv

-----------------------------------------------------------------------------
(* The batches.                                                            *)

\* A Fetch takes some of the claimable jobs when there are any, in order.
LEMMA ReadyOK ==
  ASSUME Shape, queues # << >>
  PROVE  /\ IsFiniteSet(Ready) /\ Cardinality(Ready) <= FetchLimit
         /\ Ready \subseteq Claimable(jobs, Head(queues), now)
         /\ Claimable(jobs, Head(queues), now) # {} => Ready # {}
         /\ \A i \in Ready, j \in Claimable(jobs, Head(queues), now) \ Ready : Precedes(jobs, i, j)
<1> DEFINE ids == Claimable(jobs, Head(queues), now)
<1>1. ids \subseteq DOMAIN jobs
  BY DEF Claimable
<1>2. IsFiniteSet(ids) /\ ids \subseteq Int
  BY <1>1, StoreOK, FS_Subset
<1>3. \A i \in ids : jobs[i].priorityAt \in Int
  BY <1>1, StoreOK, Words DEF JobRow
<1> HIDE DEF ids
<1>4. Comparable(jobs, ids)
  BY <1>2, <1>3 DEF Comparable
<1>5. FetchLimit \in Nat \ {0}
  BY Constants
<1>6. Ready = FirstOf(jobs, ids, FetchLimit)
  BY DEF Ready, ids
<1> QED BY <1>4, <1>5, <1>6, FirstOfIsPrefix DEF ids

LEMMA ClaimOK ==
  ASSUME Shape, NEW ids, jobs' = Claim(jobs, ids, now)
  PROVE  /\ DOMAIN jobs' = DOMAIN jobs
         /\ \A i \in DOMAIN jobs :
               /\ jobs'[i] \in JobRow
               /\ jobs'[i].queue = jobs[i].queue /\ jobs'[i].priorityAt = jobs[i].priorityAt
               /\ i \in ids => jobs'[i].state = Running
               /\ i \notin ids => jobs'[i] = jobs[i]
<1>1. DOMAIN jobs' = DOMAIN jobs
  BY DEF Claim
<1>2. ASSUME NEW i \in DOMAIN jobs, i \in ids
      PROVE  /\ jobs'[i] \in JobRow /\ jobs'[i].state = Running
             /\ jobs'[i].queue = jobs[i].queue /\ jobs'[i].priorityAt = jobs[i].priorityAt
  <2>1. jobs'[i] = ClaimRow(jobs[i], now)
    BY <1>2 DEF Claim
  <2> QED BY <2>1, ClaimedRow, StoreOK
<1>3. \A i \in DOMAIN jobs \ ids : jobs'[i] = jobs[i]
  BY DEF Claim
<1> QED BY <1>1, <1>2, <1>3, StoreOK

LEMMA FetchKeeps ==
  ASSUME PassInv, Fetch
  PROVE  PassInv'
<1>1. /\ phase = "fetching" /\ phase' = "between" /\ queues # << >> /\ Ready # {}
      /\ jobs' = Claim(jobs, Ready, now)
      /\ batch' \in Claims(jobs', Ready)
      /\ UNCHANGED <<last, columns, inMemory, now, queues, moves, processed, op, tries, results,
                     outcome, due, helped, adrift, failed>>
  BY DEF Fetch
<1>2. Shape /\ Claimed /\ Counted /\ Ordered /\ Complete
  BY DEF PassInv
<1> DEFINE m == Cardinality(Ready)
           n == Len(results)
<1>3. PICK s \in SetToSeqs(Ready) :
         /\ \A j, k \in DOMAIN s : j < k => Precedes(jobs', s[j], s[k])
         /\ batch' = [k \in DOMAIN s |-> ClaimOf(jobs', s[k])]
  BY <1>1 DEF Claims
<1>4. /\ IsFiniteSet(Ready) /\ m <= FetchLimit
      /\ \A i \in Ready : i \in DOMAIN jobs /\ jobs[i].state = Available
                          /\ jobs[i].queue = queues[1]
      /\ \A i \in Ready, j \in DOMAIN jobs \ Ready :
            jobs[j].state = Available /\ jobs[j].scheduledAt <= now /\ jobs[j].queue = queues[1]
               => Precedes(jobs, i, j)
  <2>1. Head(queues) = queues[1]
    BY <1>1, <1>2 DEF Shape, ProcessTypeOK
  <2> QED BY <1>1, <1>2, <2>1, ReadyOK DEF Claimable
<1>5. /\ s \in Seq(Ready) /\ DOMAIN s = 1..m /\ m \in Nat
      /\ \A j, k \in DOMAIN s : s[j] = s[k] => j = k
      /\ \A i \in Ready : \E k \in DOMAIN s : s[k] = i
  BY <1>4, Arrangement
<1>6. m # 0 /\ n \in Nat /\ batch = << >>
  BY <1>1, <1>2, <1>4, FS_EmptySet DEF Shape, ProcessTypeOK
<1> HIDE DEF m
<1>7. \A k \in 1..m : s[k] \in Ready
  BY <1>5
<1>8. \A i \in DOMAIN jobs :
         /\ jobs'[i] \in JobRow
         /\ jobs'[i].queue = jobs[i].queue /\ jobs'[i].priorityAt = jobs[i].priorityAt
         /\ i \in Ready => jobs'[i].state = Running
         /\ i \notin Ready => jobs'[i] = jobs[i]
  BY <1>1, <1>2, ClaimOK
<1>9. DOMAIN jobs' = DOMAIN jobs
  BY <1>1, <1>2, ClaimOK
<1>10. /\ batch' \in Seq(ClaimRecord) /\ Len(batch') = m /\ DOMAIN batch' = 1..m
       /\ \A k \in 1..m : /\ batch'[k].id = s[k]
                          /\ batch'[k].generation = jobs'[s[k]].generation
  <2>1. \A k \in 1..m : ClaimOf(jobs', s[k]) \in ClaimRecord
    <3> TAKE k \in 1..m
    <3>1. s[k] \in Nat /\ jobs'[s[k]] \in JobRow
      BY <1>2, <1>4, <1>7, <1>8, StoreOK, Constants
    <3> QED BY <3>1 DEF ClaimOf, ClaimRecord, JobRow
  <2>2. batch' = [k \in 1..m |-> ClaimOf(jobs', s[k])]
    BY <1>3, <1>5
  <2>3. batch' \in Seq(ClaimRecord) /\ Len(batch') = m /\ DOMAIN batch' = 1..m
    BY <1>5, <2>1, <2>2
  <2> QED BY <2>2, <2>3 DEF ClaimOf
<1>11. Shape'
  <2>1. batch' # << >> /\ Len(batch') <= FetchLimit
    BY <1>4, <1>6, <1>10 DEF m
  <2>2. \A i \in DOMAIN jobs' : jobs'[i] \in JobRow
    BY <1>8, <1>9
  <2> QED BY <1>1, <1>2, <1>9, <1>10, <2>1, <2>2 DEF Shape, ProcessTypeOK
<1>12. Claimed'
  <2>1. \A k \in DOMAIN batch' : /\ batch'[k].id \in DOMAIN jobs'
                                 /\ jobs'[batch'[k].id].generation = batch'[k].generation
    BY <1>4, <1>7, <1>9, <1>10
  <2>2. ASSUME NEW i \in DOMAIN jobs', jobs'[i].state = Running
        PROVE  i \in adrift' \union Held'
    <3>1. CASE i \in Ready
      <4>1. PICK k \in 1..m : s[k] = i
        BY <1>5, <3>1
      <4> QED BY <1>10, <4>1 DEF Held
    <3>2. CASE i \notin Ready
      BY <1>1, <1>2, <1>6, <1>8, <1>9, <2>2, <3>2, NoneHeld DEF Claimed
    <3> QED BY <3>1, <3>2
  <2> QED BY <2>1, <2>2 DEF Claimed
<1>13. Counted'
  <2>1. processed \in Nat /\ processed <= PerQueueJobBudget
    BY <1>1, <1>2, <1>6 DEF Counted, Shape, ProcessTypeOK
  <2>2. processed + m <= PerQueueJobBudget + FetchLimit /\ m # 0
    BY <1>4, <1>5, <1>6, <2>1, Constants DEF m
  <2>3. batch' # << >>
    BY <1>6, <1>10
  <2> QED BY <1>1, <1>2, <1>10, <2>2, <2>3 DEF Counted, WithinBudget, RanIn
<1>14. /\ DOMAIN Line = 1..n /\ DOMAIN Line' = 1..(n + m)
       /\ \A k \in 1..n : Line'[k] = Line[k]
       /\ \A k \in 1..(n + m) : k > n => k - n \in 1..m /\ Line'[k] = s[k - n]
  <2>1. Len(batch) = 0 /\ results' = results
    BY <1>1, <1>6
  <2>2. Line = [k \in 1..n |-> results[k].id]
    BY <1>6, <2>1 DEF Line
  <2>3. Line' = [k \in 1..(n + m) |-> IF k <= n THEN results[k].id ELSE batch'[k - n].id]
    BY <1>10, <2>1 DEF Line
  <2>4. \A k \in 1..(n + m) : k > n => k - n \in 1..m
    BY <1>5, <1>6
  <2> HIDE DEF n
  <2>5. \A k \in 1..n : k \in 1..(n + m) /\ k <= n
    BY <1>5, <1>6
  <2>6. \A k \in 1..n : Line'[k] = Line[k]
    BY <2>2, <2>3, <2>5
  <2>7. \A k \in 1..(n + m) : k > n => Line'[k] = s[k - n]
    BY <1>6, <1>5, <1>10, <2>3, <2>4
  <2> QED BY <2>2, <2>3, <2>4, <2>6, <2>7
<1> HIDE DEF n
<1>15. Lined' = Lined \union Ready
  <2>1. \A i \in Lined' : i \in Lined \union Ready
    <3> TAKE i \in Lined'
    <3>1. PICK k \in 1..(n + m) : i = Line'[k]
      BY <1>14 DEF Lined, ToSet
    <3>2. CASE k <= n
      <4>1. k \in 1..n
        BY <1>5, <1>6, <3>2
      <4> QED BY <1>14, <3>1, <4>1 DEF Lined, ToSet
    <3>3. CASE ~(k <= n)
      BY <1>5, <1>6, <1>7, <1>14, <3>1, <3>3
    <3> QED BY <3>2, <3>3
  <2>2. \A i \in Lined : i \in Lined'
    <3> TAKE i \in Lined
    <3>1. PICK k \in 1..n : i = Line[k]
      BY <1>14 DEF Lined, ToSet
    <3>2. k \in 1..(n + m)
      BY <1>5, <1>6
    <3> QED BY <1>14, <3>1, <3>2 DEF Lined, ToSet
  <2>3. \A i \in Ready : i \in Lined'
    <3> TAKE i \in Ready
    <3>1. PICK k \in 1..m : s[k] = i
      BY <1>5
    <3>2. n + k \in 1..(n + m) /\ n + k > n /\ (n + k) - n = k
      BY <1>5, <1>6
    <3>3. Line'[n + k] = i
      BY <1>14, <3>1, <3>2
    <3> QED BY <1>14, <3>2, <3>3 DEF Lined, ToSet
  <2> QED BY <2>1, <2>2, <2>3
<1>16. /\ \A i \in Lined \ helped : jobs[i].state # Available
       /\ \A i \in Lined : i \in DOMAIN jobs
       /\ \A i \in Own \ Lined : /\ i \in DOMAIN jobs /\ Waits(i)
                                 /\ jobs[i].queue = due[i].queue
                                 /\ jobs[i].priorityAt = due[i].priorityAt
       /\ \A i \in Own \intersect Lined, j \in Own \ Lined :
             jobs[j].state = Available /\ due[i].queue = due[j].queue => Precedes(due, i, j)
  BY <1>1, <1>2 DEF Ordered
<1>17. Own' = Own /\ due' = due /\ helped' = helped /\ Own \intersect helped = {}
  BY <1>1 DEF Own
<1>18. \A i \in Own \intersect Ready : i \notin Lined
  BY <1>4, <1>16, <1>17
<1>19. Ordered'
  <2>1. ASSUME NEW j \in 1..(n + m), NEW k \in 1..(n + m), j < k, Line'[j] = Line'[k]
        PROVE  Line'[j] \in helped
    <3>1. CASE k <= n
      <4>1. j \in 1..n /\ k \in 1..n
        BY <1>5, <1>6, <2>1, <3>1
      <4> QED BY <1>2, <1>14, <2>1, <4>1 DEF Ordered
    <3>2. CASE j <= n /\ k > n
      <4>1. j \in 1..n
        BY <1>5, <1>6, <3>2
      <4>2. Line'[j] \in Lined
        BY <1>14, <4>1 DEF Lined, ToSet
      <4>3. Line'[k] \in Ready
        BY <1>7, <1>14, <3>2
      <4> QED BY <1>4, <1>16, <2>1, <4>2, <4>3
    <3>3. CASE j > n
      <4>1. k > n
        BY <1>5, <1>6, <2>1, <3>3
      <4>2. j - n = k - n
        BY <1>5, <1>14, <2>1, <3>3, <4>1
      <4> QED BY <1>5, <1>6, <2>1, <4>2
    <3> QED BY <1>5, <1>6, <3>1, <3>2, <3>3
  <2>2. ASSUME NEW j \in 1..(n + m), NEW k \in 1..(n + m), j < k,
               Line'[j] \in Own, Line'[k] \in Own, due[Line'[j]].queue = due[Line'[k]].queue
        PROVE  Precedes(due, Line'[j], Line'[k])
    <3>1. CASE k <= n
      <4>1. j \in 1..n /\ k \in 1..n
        BY <1>5, <1>6, <2>2, <3>1
      <4> QED BY <1>2, <1>14, <2>2, <4>1 DEF Ordered
    <3>2. CASE j <= n /\ k > n
      <4>1. j \in 1..n
        BY <1>5, <1>6, <3>2
      <4>2. Line'[j] \in Own \intersect Lined
        BY <1>14, <2>2, <4>1 DEF Lined, ToSet
      <4>3. Line'[k] \in Ready /\ Line'[k] \in Own \ Lined
        BY <1>7, <1>14, <1>18, <2>2, <3>2
      <4> QED BY <1>4, <1>16, <2>2, <4>2, <4>3
    <3>3. CASE j > n
      <4>1. k > n
        BY <1>5, <1>6, <2>2, <3>3
      <4>2. j - n \in 1..m /\ k - n \in 1..m /\ j - n < k - n
        BY <1>5, <1>6, <1>14, <2>2, <3>3, <4>1
      <4>3. Line'[j] = s[j - n] /\ Line'[k] = s[k - n]
        BY <1>14, <3>3, <4>1
      <4>4. Precedes(jobs', Line'[j], Line'[k])
        BY <1>3, <1>5, <4>2, <4>3
      <4>5. \A i \in {Line'[j], Line'[k]} : jobs'[i].priorityAt = due[i].priorityAt
        BY <1>7, <1>8, <1>16, <1>18, <2>2, <4>2, <4>3
      <4> QED BY <4>4, <4>5 DEF Precedes
    <3> QED BY <1>5, <1>6, <3>1, <3>2, <3>3
  <2>3. \A i \in Lined' \ helped : i \in DOMAIN jobs' /\ jobs'[i].state # Available
    BY <1>4, <1>8, <1>9, <1>15, <1>16
  <2>4. \A i \in Lined' : i \in DOMAIN jobs'
    BY <1>4, <1>9, <1>15, <1>16
  <2>5. \A i \in Own \ Lined' : /\ i \in DOMAIN jobs' /\ Waits(i)' /\ jobs'[i] = jobs[i]
                                /\ jobs'[i].queue = due[i].queue
                                /\ jobs'[i].priorityAt = due[i].priorityAt
    BY <1>1, <1>8, <1>9, <1>15, <1>16 DEF Waits
  <2>6. ASSUME NEW i \in Own \intersect Lined', NEW j \in Own \ Lined',
               jobs'[j].state = Available, due[i].queue = due[j].queue
        PROVE  Precedes(due, i, j)
    <3>1. j \in Own \ Lined /\ j \notin Ready /\ jobs[j].state = Available
      BY <1>15, <2>5, <2>6
    <3>2. CASE i \in Lined
      BY <1>16, <2>6, <3>1, <3>2
    <3>3. CASE i \notin Lined
      <4>1. i \in Ready /\ i \in Own \ Lined
        BY <1>15, <2>6, <3>3
      <4>2. jobs[j].queue = queues[1] /\ jobs[j].scheduledAt <= now /\ j \in DOMAIN jobs
        BY <1>4, <1>16, <2>6, <3>1, <4>1 DEF Waits
      <4>3. Precedes(jobs, i, j)
        BY <1>4, <3>1, <4>1, <4>2
      <4> QED BY <1>16, <3>1, <4>1, <4>3 DEF Precedes
    <3> QED BY <3>2, <3>3
  <2>7. \A j, k \in DOMAIN Line' : j < k /\ Line'[j] = Line'[k] => Line'[j] \in helped
    BY <1>14, <2>1
  <2>8. \A j, k \in DOMAIN Line' :
          j < k /\ {Line'[j], Line'[k]} \subseteq Own /\ due[Line'[j]].queue = due[Line'[k]].queue
             => Precedes(due, Line'[j], Line'[k])
    BY <1>14, <2>2
  <2> QED BY <1>1, <1>17, <2>3, <2>4, <2>5, <2>6, <2>7, <2>8 DEF Ordered
<1>20. Complete'
  <2>1. outcome' # "nil"
    BY <1>1, <1>2 DEF Shape
  <2>2. \A i \in Own \ Lined' : jobs'[i] = jobs[i] /\ i \in Own \ Lined
    BY <1>8, <1>15, <1>16
  <2> QED BY <1>1, <1>2, <1>17, <2>1, <2>2 DEF Complete
<1> QED BY <1>11, <1>12, <1>13, <1>19, <1>20 DEF PassInv

LEMMA TailOfQueues ==
  ASSUME Shape, queues # << >>, queues' = Tail(queues)
  PROVE  /\ queues' \in Seq(Queues) /\ queues[1] \in Queues /\ queues[1] = Head(queues)
         /\ \A k \in DOMAIN queues' : k + 1 \in DOMAIN queues /\ queues'[k] = queues[k + 1]
         /\ \A j, k \in DOMAIN queues' : queues'[j] = queues'[k] => j = k
         /\ \A q : q \in ToSet(queues) => q = queues[1] \/ q \in ToSet(queues')
<1>1. /\ queues \in Seq(Queues) /\ DOMAIN queues = 1..Len(queues) /\ Len(queues) \in Nat \ {0}
      /\ \A j, k \in DOMAIN queues : queues[j] = queues[k] => j = k
  BY DEF Shape, ProcessTypeOK
<1>2. /\ queues' \in Seq(Queues) /\ DOMAIN queues' = 1..(Len(queues) - 1)
      /\ \A k \in 1..(Len(queues) - 1) : queues'[k] = queues[k + 1]
  BY <1>1
<1>3. \A k \in DOMAIN queues' : k + 1 \in DOMAIN queues /\ queues'[k] = queues[k + 1]
  BY <1>1, <1>2
<1>4. \A j, k \in DOMAIN queues' : queues'[j] = queues'[k] => j = k
  <2> TAKE j, k \in DOMAIN queues'
  <2>1. j \in Int /\ k \in Int
    BY <1>1, <1>2
  <2>2. queues'[j] = queues'[k] => j + 1 = k + 1
    BY <1>1, <1>3
  <2> QED BY <2>1, <2>2
<1>5. ASSUME NEW q, q \in ToSet(queues), q # queues[1]
      PROVE  q \in ToSet(queues')
  <2>1. PICK k \in 1..Len(queues) : queues[k] = q /\ k # 1
    BY <1>1, <1>5 DEF ToSet
  <2>2. k - 1 \in 1..(Len(queues) - 1) /\ (k - 1) + 1 = k
    BY <1>1, <2>1
  <2>3. queues'[k - 1] = q
    BY <1>2, <2>1, <2>2
  <2> QED BY <1>2, <2>2, <2>3 DEF ToSet
<1>6. queues[1] \in Queues /\ queues[1] = Head(queues)
  BY <1>1
<1> QED BY <1>2, <1>3, <1>4, <1>5, <1>6

LEMMA DrainedKeeps ==
  ASSUME PassInv, Drained
  PROVE  PassInv'
<1>1. /\ phase = "fetching" /\ queues # << >> /\ Ready = {}
      /\ queues' = Tail(queues) /\ processed' = 0
      /\ UNCHANGED <<jobs, last, columns, inMemory, now, phase, moves, batch, op, tries, results,
                     outcome, due, helped, adrift, failed>>
  BY DEF Drained
<1>2. Shape /\ Claimed /\ Counted /\ Ordered /\ Complete
  BY DEF PassInv
<1>3. /\ queues' \in Seq(Queues) /\ queues[1] \in Queues /\ queues[1] = Head(queues)
      /\ \A k \in DOMAIN queues' : k + 1 \in DOMAIN queues /\ queues'[k] = queues[k + 1]
      /\ \A j, k \in DOMAIN queues' : queues'[j] = queues'[k] => j = k
      /\ \A q : q \in ToSet(queues) => q = queues[1] \/ q \in ToSet(queues')
  BY <1>1, <1>2, TailOfQueues
<1>4. batch = << >> /\ outcome # "nil" /\ processed <= PerQueueJobBudget
  BY <1>1, <1>2 DEF Shape, ProcessTypeOK, Counted
<1>5. Shape'
  BY <1>1, <1>2, <1>3, <1>4, Constants DEF Shape, ProcessTypeOK
<1>6. Claimed'
  BY <1>1, <1>2 DEF Claimed, Held
<1>7. Counted'
  <2>1. /\ Cardinality(RanIn(queues[1])) = processed
        /\ \A k \in DOMAIN queues : k > 1 => RanIn(queues[k]) = {}
        /\ \A q \in Queues \ ToSet(queues) : Cardinality(RanIn(q)) <= PerQueueJobBudget
    BY <1>1, <1>2 DEF Counted
  <2>2. \A q : RanIn(q)' = RanIn(q)
    BY <1>1 DEF RanIn
  <2>3. ASSUME NEW k \in DOMAIN queues' PROVE RanIn(queues'[k]) = {}
    <3>1. k \in Nat \ {0}
      BY <1>3
    <3>2. k + 1 \in DOMAIN queues /\ queues'[k] = queues[k + 1]
      BY <1>3
    <3>3. k + 1 > 1
      BY <3>1
    <3> QED BY <2>1, <3>2, <3>3
  <2>4. ASSUME queues' # << >> PROVE Cardinality(RanIn(queues'[1])) = 0
    <3>1. 1 \in DOMAIN queues'
      BY <1>3, <2>4
    <3> QED BY <2>3, <3>1, FS_EmptySet
  <2>5. \A q \in Queues \ ToSet(queues') : Cardinality(RanIn(q)) <= PerQueueJobBudget
    BY <1>3, <1>4, <2>1
  <2>6. processed' + Len(batch') <= PerQueueJobBudget + FetchLimit /\ processed' <= PerQueueJobBudget
    BY <1>1, <1>4, Constants
  <2>7. WithinBudget'
    BY <1>1, <1>2 DEF Counted, WithinBudget
  <2>8. (queues # << >> => Cardinality(RanIn(queues[1])) = processed)'
    BY <1>1, <2>4 DEF RanIn
  <2>9. (\A k \in DOMAIN queues : k > 1 => RanIn(queues[k]) = {})'
    BY <1>1, <2>3 DEF RanIn
  <2>10. (\A q \in Queues \ ToSet(queues) : Cardinality(RanIn(q)) <= PerQueueJobBudget)'
    BY <2>2, <2>5
  <2> QED BY <2>6, <2>7, <2>8, <2>9, <2>10 DEF Counted
<1>8. Line' = Line /\ Lined' = Lined /\ Own' = Own
  BY <1>1 DEF Line, Lined, Own
<1>9. Ordered'
  BY <1>1, <1>2, <1>8 DEF Ordered, Waits
<1>10. Complete'
  <2> SUFFICES ASSUME Roomy PROVE Complete'
    BY DEF Complete
  <2>1. ASSUME NEW i \in Own \ Lined
        PROVE  jobs[i].state = Available /\ due[i].queue \in ToSet(queues')
    <3>1. jobs[i].state = Available /\ due[i].queue \in ToSet(queues)
      BY <1>1, <1>2, <2>1 DEF Complete
    <3>2. /\ i \in DOMAIN jobs /\ Waits(i) /\ jobs[i].queue = due[i].queue
      BY <1>1, <1>2, <2>1 DEF Ordered
    <3>3. Claimable(jobs, Head(queues), now) = {}
      BY <1>1, <1>2, ReadyOK
    <3>4. jobs[i].queue # queues[1]
      BY <1>3, <3>1, <3>2, <3>3 DEF Claimable, Waits
    <3> QED BY <1>3, <3>1, <3>2, <3>4
  <2> QED BY <1>1, <1>4, <1>8, <2>1 DEF Complete
<1> QED BY <1>5, <1>6, <1>7, <1>9, <1>10 DEF PassInv

LEMMA ReturnResultsKeeps ==
  ASSUME PassInv, ReturnResults
  PROVE  PassInv'
<1>1. /\ phase = "fetching" /\ queues = << >> /\ phase' = "idle" /\ outcome' = "nil"
      /\ batch' = << >>
      /\ UNCHANGED <<jobs, last, columns, inMemory, now, queues, moves, processed, op, tries,
                     results, due, helped, adrift, failed>>
  BY DEF ReturnResults, Return
<1>2. Shape /\ Claimed /\ Counted /\ Ordered /\ Complete
  BY DEF PassInv
<1>3. batch = << >>
  BY <1>1, <1>2 DEF Shape, ProcessTypeOK
<1>4. Shape'
  BY <1>1, <1>2, <1>3 DEF Shape, ProcessTypeOK
<1>5. Claimed'
  BY <1>1, <1>2, <1>3 DEF Claimed, Held
<1>6. ToSet(queues) = {}
  BY <1>1 DEF ToSet
<1>7. Counted'
  <2>1. \A q \in Queues : Cardinality(RanIn(q)) <= PerQueueJobBudget
    BY <1>1, <1>2, <1>6 DEF Counted
  <2> QED BY <1>1, <1>2, <2>1 DEF Counted, WithinBudget, RanIn
<1>8. Line' = Line /\ Lined' = Lined /\ Own' = Own
  BY <1>1, <1>3 DEF Line, Lined, Own
<1>9. Ordered'
  BY <1>1, <1>2, <1>8 DEF Ordered
<1>10. Complete'
  BY <1>1, <1>2, <1>6, <1>8 DEF Complete
<1> QED BY <1>4, <1>5, <1>7, <1>9, <1>10 DEF PassInv

LEMMA StopAtFetchKeeps ==
  ASSUME PassInv, StopAtFetch
  PROVE  PassInv'
<1>1. /\ phase = "fetching" /\ phase' = "idle" /\ outcome' = "error" /\ batch' = << >>
      /\ UNCHANGED <<jobs, last, columns, inMemory, now, queues, moves, processed, op, tries,
                     results, due, helped, adrift, failed>>
  BY DEF StopAtFetch, Return
<1>2. Shape /\ Claimed
  BY DEF PassInv
<1>3. batch = << >>
  BY <1>1, <1>2 DEF Shape, ProcessTypeOK
<1>4. Shape'
  BY <1>1, <1>2, <1>3 DEF Shape, ProcessTypeOK
<1>5. Claimed'
  BY <1>1, <1>2, <1>3 DEF Claimed, Held
<1> QED BY <1>1, <1>4, <1>5, ErrorKeeps

LEMMA FetchFailsKeeps ==
  ASSUME PassInv, FetchFails
  PROVE  PassInv'
<1>1. PICK ids \in {{}, Ready} : jobs' = Claim(jobs, ids, now) /\ adrift' = adrift \union ids
  BY DEF FetchFails
<1>2. /\ phase = "fetching" /\ queues # << >>
      /\ phase' = "idle" /\ outcome' = "error" /\ batch' = << >>
      /\ UNCHANGED <<last, columns, inMemory, now, queues, moves, processed, op, tries,
                     results, due, helped, failed>>
  BY DEF FetchFails, Return
<1>3. Shape /\ Claimed
  BY DEF PassInv
<1>4. batch = << >>
  BY <1>2, <1>3 DEF Shape, ProcessTypeOK
<1>5. ids \subseteq DOMAIN jobs /\ ids \subseteq 1..last
  BY <1>2, <1>3, ReadyOK, StoreOK DEF Claimable
<1>6. /\ DOMAIN jobs' = DOMAIN jobs
      /\ \A i \in DOMAIN jobs : jobs'[i] \in JobRow /\ (i \notin ids => jobs'[i] = jobs[i])
  BY <1>1, <1>3, ClaimOK
<1>7. Shape'
  <2>1. \A i \in DOMAIN jobs' : jobs'[i] \in JobRow
    BY <1>6
  <2>2. helped' \union adrift' \union DOMAIN failed' \subseteq 1..last'
    BY <1>1, <1>2, <1>3, <1>5, StoreOK
  <2> QED BY <1>2, <1>3, <1>4, <1>6, <2>1, <2>2 DEF Shape, ProcessTypeOK
<1>8. Claimed'
  BY <1>1, <1>2, <1>3, <1>4, <1>6 DEF Claimed, Held
<1> QED BY <1>2, <1>7, <1>8, ErrorKeeps

-----------------------------------------------------------------------------
(* The worker, and the recording of its outcome.                           *)

\* What a step changes that only takes the current job further.
LEMMA SameLineKeeps ==
  ASSUME PassInv, Shape', phase \notin {"idle", "moving"}, phase' \notin {"idle", "moving"},
         UNCHANGED <<jobs, now, queues, batch, processed, results, outcome, due, helped, adrift>>
  PROVE  PassInv'
<1>1. Shape /\ Claimed /\ Counted /\ Ordered /\ Complete
  BY DEF PassInv
<1>2. Claimed'
  BY <1>1 DEF Claimed, Held
<1>3. Counted'
  BY <1>1 DEF Counted, WithinBudget, RanIn
<1>4. Line' = Line /\ Lined' = Lined /\ Own' = Own
  BY DEF Line, Lined, Own
<1>5. Ordered'
  BY <1>1, <1>4 DEF Ordered, Waits
<1>6. Complete'
  BY <1>1, <1>4 DEF Complete
<1> QED BY <1>2, <1>3, <1>5, <1>6 DEF PassInv

LEMMA RunJobKeeps ==
  ASSUME PassInv, RunJob
  PROVE  PassInv'
<1>1. /\ phase = "between" /\ phase' = "working"
      /\ UNCHANGED <<jobs, last, columns, inMemory, now, queues, moves, batch, processed, op,
                     tries, results, outcome, due, helped, adrift, failed>>
  BY DEF RunJob
<1>2. Shape'
  BY <1>1 DEF PassInv, Shape, ProcessTypeOK
<1> QED BY <1>1, <1>2, SameLineKeeps

LEMMA HeadOfBatch ==
  ASSUME Shape, batch # << >>
  PROVE  /\ batch \in Seq(ClaimRecord) /\ Len(batch) \in Nat \ {0}
         /\ DOMAIN batch = 1..Len(batch)
         /\ Head(batch) = batch[1] /\ batch[1] \in ClaimRecord /\ 1 \in DOMAIN batch
         /\ Tail(batch) \in Seq(ClaimRecord) /\ Len(Tail(batch)) = Len(batch) - 1
         /\ DOMAIN Tail(batch) = 1..(Len(batch) - 1)
         /\ \A k \in 1..(Len(batch) - 1) : k + 1 \in DOMAIN batch /\ Tail(batch)[k] = batch[k + 1]
<1>1. batch \in Seq(ClaimRecord) /\ Len(batch) \in Nat \ {0}
  BY DEF Shape
<1> QED BY <1>1

LEMMA WorkerReturnsKeeps ==
  ASSUME PassInv, NEW result \in Results, WorkerReturns(result)
  PROVE  PassInv'
<1>1. /\ phase = "working" /\ phase' = "recording" /\ tries' = 0
      /\ UNCHANGED <<jobs, last, columns, inMemory, now, queues, moves, batch, processed,
                     results, outcome, due, helped, adrift, failed>>
  BY DEF WorkerReturns
<1>2. Shape
  BY DEF PassInv
<1>3. batch # << >>
  BY <1>1, <1>2 DEF Shape, ProcessTypeOK
<1>4. Head(batch) = batch[1] /\ batch[1] \in ClaimRecord
  BY <1>2, <1>3, HeadOfBatch
<1>5. PICK at : op' = [kind       |-> Kind(batch[1], result),
                       id         |-> batch[1].id,
                       generation |-> batch[1].generation,
                       attempt    |-> batch[1].attempt,
                       snoozes    |-> IF result = "snooze" THEN batch[1].snoozes + 1
                                                           ELSE batch[1].snoozes,
                       at         |-> at,
                       message    |-> TRUE,
                       byPolicy   |-> result = "error",
                       made       |-> now]
  BY <1>4 DEF WorkerReturns
<1>6. Kind(batch[1], result) \in Outcomes
  BY DEF Kind, Outcomes
<1>7. batch[1].attempt \in Int /\ batch[1].snoozes \in Nat /\ batch[1].snoozes + 1 \in Nat
  BY <1>4 DEF ClaimRecord
<1>8. /\ op'.kind \in Outcomes /\ op'.attempt \in Int /\ op'.snoozes \in Nat
      /\ op'.id = batch[1].id /\ op'.generation = batch[1].generation
  BY <1>5, <1>6, <1>7
<1>9. Shape'
  BY <1>1, <1>2, <1>3, <1>8, Constants DEF Shape, ProcessTypeOK
<1> QED BY <1>1, <1>9, SameLineKeeps

\* What the recording of the current outcome does to the rows, if anything.
RowStep ==
    /\ DOMAIN jobs' = DOMAIN jobs
    /\ \A i \in DOMAIN jobs :
          /\ jobs'[i] \in JobRow /\ jobs'[i].generation = jobs[i].generation
          /\ jobs'[i].queue = jobs[i].queue
          /\ jobs'[i].state = Running => jobs[i].state = Running
          /\ \/ jobs'[i] = jobs[i]
             \/ i = op.id /\ jobs[i].state = Running /\ jobs'[i].state # Available
    /\ DOMAIN failed' \subseteq DOMAIN failed \union {op.id}

LEMMA CurrentJob ==
  ASSUME Shape, Claimed, phase = "recording"
  PROVE  /\ batch # << >> /\ queues # << >> /\ outcome # "nil"
         /\ op.id = batch[1].id /\ op.id \in DOMAIN jobs
         /\ op.generation = jobs[op.id].generation
         /\ op.id \in 1..last /\ op.id \in Nat
<1>1. batch # << >> /\ queues # << >> /\ outcome # "nil"
  BY DEF Shape, ProcessTypeOK
<1>2. op.id = batch[1].id /\ op.generation = batch[1].generation /\ 1 \in DOMAIN batch
  BY <1>1, HeadOfBatch DEF Shape
<1>3. op.id \in DOMAIN jobs /\ op.generation = jobs[op.id].generation
  BY <1>2 DEF Claimed
<1>4. op.id \in 1..last /\ op.id \in Nat
  BY <1>3, StoreOK
<1> QED BY <1>1, <1>2, <1>3, <1>4

\* What recording an outcome does to the store: it is applied to its own job, if
\* that job is still held.
LEMMA RecordedChange ==
  ASSUME op.id \in DOMAIN jobs, Recorded
  PROVE  /\ DOMAIN jobs' = DOMAIN jobs
         /\ \A i \in DOMAIN jobs : ~(i = op.id /\ Live(jobs, op)) => jobs'[i] = jobs[i]
         /\ Live(jobs, op) => jobs'[op.id] = Apply(jobs[op.id], op)
<1>1. Winners(jobs, <<op>>) = IF Live(jobs, op) THEN {1} ELSE {}
  <2>1. DOMAIN <<op>> = {1} /\ <<op>>[1] = op
    OBVIOUS
  <2> QED BY <2>1 DEF Winners
<1>2. jobs' = [i \in DOMAIN jobs |-> IF Won(jobs, <<op>>, i)
                                     THEN Apply(jobs[i], WinnerOf(jobs, <<op>>, i))
                                     ELSE jobs[i]]
  BY DEF Recorded, Finalize
<1>3. ASSUME NEW i \in DOMAIN jobs, ~(i = op.id /\ Live(jobs, op))
      PROVE  jobs'[i] = jobs[i]
  <2>1. ~Won(jobs, <<op>>, i)
    BY <1>1, <1>3 DEF Won
  <2> QED BY <1>2, <2>1
<1>4. ASSUME Live(jobs, op) PROVE jobs'[op.id] = Apply(jobs[op.id], op)
  <2>1. Won(jobs, <<op>>, op.id)
    BY <1>1, <1>4 DEF Won
  <2>2. WinnerOf(jobs, <<op>>, op.id) = op
    BY <1>1, <1>4 DEF WinnerOf
  <2> QED BY <1>2, <2>1, <2>2
<1> QED BY <1>2, <1>3, <1>4

LEMMA RecordedRows ==
  ASSUME Shape, Claimed, phase = "recording", Storable, Recorded
  PROVE  RowStep /\ jobs'[op.id].state # Running
<1>1. op.id \in DOMAIN jobs /\ op.generation = jobs[op.id].generation
  BY CurrentJob
<1>2. OutcomeOK(op)
  BY DEF OutcomeOK, Storable, ValidateInstant, Shape
<1>3. /\ DOMAIN jobs' = DOMAIN jobs
      /\ \A i \in DOMAIN jobs : ~(i = op.id /\ Live(jobs, op)) => jobs'[i] = jobs[i]
      /\ Live(jobs, op) => jobs'[op.id] = Apply(jobs[op.id], op)
  BY <1>1, RecordedChange
<1>5. DOMAIN jobs' = DOMAIN jobs
  BY <1>3
<1>6. \A i \in DOMAIN jobs : ~(i = op.id /\ Live(jobs, op)) => jobs'[i] = jobs[i]
  BY <1>3
<1>7. ASSUME Live(jobs, op)
      PROVE  /\ jobs[op.id].state = Running
             /\ jobs'[op.id] \in JobRow /\ jobs'[op.id].state \in TerminalStates \union {Retryable}
             /\ jobs'[op.id].generation = jobs[op.id].generation
             /\ jobs'[op.id].queue = jobs[op.id].queue
  <2>1. jobs[op.id] \in JobRow /\ now \in Instant
    BY <1>1, StoreOK
  <2>2. jobs[op.id].state = Running
    BY <1>7 DEF Live
  <2> QED BY <1>2, <1>3, <1>7, <2>1, <2>2, AppliedRow
<1>8. jobs'[op.id].state # Running
  BY <1>1, <1>6, <1>7 DEF Live
<1>9. DOMAIN failed' \subseteq DOMAIN failed \union {op.id}
  BY DEF Recorded
<1>10. ASSUME NEW i \in DOMAIN jobs
       PROVE  /\ jobs'[i] \in JobRow /\ jobs'[i].generation = jobs[i].generation
              /\ jobs'[i].queue = jobs[i].queue
              /\ jobs'[i].state = Running => jobs[i].state = Running
              /\ \/ jobs'[i] = jobs[i]
                 \/ i = op.id /\ jobs[i].state = Running /\ jobs'[i].state # Available
  <2>1. CASE i = op.id /\ Live(jobs, op)
    BY <1>7, <2>1
  <2>2. CASE ~(i = op.id /\ Live(jobs, op))
    BY <1>6, <2>2, StoreOK
  <2> QED BY <2>1, <2>2
<1> QED BY <1>5, <1>8, <1>9, <1>10 DEF RowStep

LEMMA UntouchedRows ==
  ASSUME Shape, UNCHANGED <<jobs, failed>>
  PROVE  RowStep
BY StoreOK DEF RowStep

\* The current job stands in the line already.
LEMMA CurrentIsLined ==
  ASSUME Shape, Claimed, phase = "recording"
  PROVE  op.id \in Lined
<1> DEFINE n == Len(results)
           m == Len(batch)
<1>1. n \in Nat /\ m \in Nat \ {0} /\ op.id = batch[1].id
  BY CurrentJob, HeadOfBatch DEF Shape
<1> HIDE DEF n, m
<1>2. Line = [k \in 1..(n + m) |-> IF k <= n THEN results[k].id ELSE batch[k - n].id]
  BY DEF Line, n, m
<1>3. n + 1 \in 1..(n + m) /\ ~(n + 1 <= n) /\ (n + 1) - n = 1
  BY <1>1
<1>4. n + 1 \in DOMAIN Line /\ Line[n + 1] = op.id
  BY <1>1, <1>2, <1>3
<1> QED BY <1>4 DEF Lined, ToSet

LEMMA RowStepKeepsLine ==
  ASSUME PassInv, phase = "recording", RowStep, Line' = Line, phase' # "moving", outcome' # "nil",
         UNCHANGED <<now, queues, due, helped>>
  PROVE  Ordered' /\ Complete'
<1>1. Shape /\ Claimed /\ Ordered /\ Complete
  BY DEF PassInv
<1>2. Lined' = Lined /\ Own' = Own
  BY DEF Lined, Own
<1>3. op.id \in Lined
  BY <1>1, CurrentIsLined
<1>4. /\ DOMAIN jobs' = DOMAIN jobs
      /\ \A i \in DOMAIN jobs : i # op.id => jobs'[i] = jobs[i]
      /\ \A i \in DOMAIN jobs : jobs'[i].state = Available => jobs[i].state = Available
  BY DEF RowStep
<1>5. /\ \A i \in Lined : i \in DOMAIN jobs
      /\ \A i \in Lined \ helped : jobs[i].state # Available
      /\ \A i \in Own \ Lined : /\ i \in DOMAIN jobs /\ Waits(i)
                                /\ jobs[i].queue = due[i].queue
                                /\ jobs[i].priorityAt = due[i].priorityAt
      /\ \A i \in Own \intersect Lined, j \in Own \ Lined :
            jobs[j].state = Available /\ due[i].queue = due[j].queue => Precedes(due, i, j)
  BY <1>1 DEF Ordered
<1>6. \A i \in Own \ Lined : i \in DOMAIN jobs' /\ jobs'[i] = jobs[i]
  BY <1>3, <1>4, <1>5
<1>7. Ordered'
  <2>1. \A i \in Lined : i \in DOMAIN jobs' /\ (i \notin helped => jobs'[i].state # Available)
    BY <1>4, <1>5
  <2>2. \A j, k \in DOMAIN Line : j < k /\ Line[j] = Line[k] => Line[j] \in helped
    BY <1>1 DEF Ordered
  <2>3. \A j, k \in DOMAIN Line :
          j < k /\ {Line[j], Line[k]} \subseteq Own /\ due[Line[j]].queue = due[Line[k]].queue
             => Precedes(due, Line[j], Line[k])
    BY <1>1 DEF Ordered
  <2>4. \A i \in Own \ Lined : Waits(i)'
    BY <1>5, <1>6 DEF Waits
  <2>5. \A i \in Own \intersect Lined, j \in Own \ Lined :
            jobs'[j].state = Available /\ due[i].queue = due[j].queue => Precedes(due, i, j)
    BY <1>5, <1>6
  <2> QED BY <1>2, <1>5, <1>6, <2>1, <2>2, <2>3, <2>4, <2>5 DEF Ordered
<1>8. Complete'
  <2>1. Roomy => \A i \in Own \ Lined : jobs[i].state = Available /\ due[i].queue \in ToSet(queues)
    BY <1>1 DEF Complete
  <2> QED BY <1>2, <1>6, <2>1 DEF Complete
<1> QED BY <1>7, <1>8

\* The job that is done with leaves the batch for the results.
LEMMA NextJobLine ==
  ASSUME Shape, phase = "recording", NextJob, batch # << >>, queues # << >>,
         op.id = batch[1].id, op.id \in Nat, UNCHANGED queues
  PROVE  /\ batch' = Tail(batch) /\ Line' = Line
         /\ results' \in Seq(RanRecord) /\ Len(results) \in Nat
         /\ DOMAIN results' = 1..(Len(results) + 1) /\ DOMAIN results = 1..Len(results)
         /\ \A k \in 1..Len(results) : results'[k] = results[k]
         /\ results'[Len(results) + 1].queue = queues[1]
<1> DEFINE n == Len(results)
           m == Len(batch)
<1>1. /\ m \in Nat \ {0} /\ DOMAIN Tail(batch) = 1..(m - 1) /\ Len(Tail(batch)) = m - 1
      /\ \A k \in 1..(m - 1) : Tail(batch)[k] = batch[k + 1]
      /\ Tail(batch) \in Seq(ClaimRecord)
  BY HeadOfBatch
<1>2. results \in Seq(RanRecord) /\ n \in Nat /\ DOMAIN results = 1..n
  BY DEF Shape
<1>3. queues \in Seq(Queues) /\ Head(queues) = queues[1] /\ queues[1] \in Queues
  BY DEF Shape, ProcessTypeOK
<1>4. Result \in RanRecord /\ Result.id = op.id /\ Result.queue = queues[1]
  BY <1>3 DEF Result, RanRecord
<1>5. /\ results' = Append(results, Result) /\ results' \in Seq(RanRecord)
      /\ DOMAIN results' = 1..(n + 1) /\ Len(results') = n + 1
      /\ \A k \in 1..n : results'[k] = results[k]
      /\ results'[n + 1] = Result
  BY <1>2, <1>4 DEF NextJob
<1>6. batch' = Tail(batch)
  <2>1. CASE m = 1
    <3>1. Tail(batch) = << >>
      BY <1>1, <2>1
    <3> QED BY <3>1 DEF NextJob, Return
  <2>2. CASE m # 1
    BY <2>2 DEF NextJob
  <2> QED BY <2>1, <2>2
<1> HIDE DEF n, m
<1>7. Line = [k \in 1..(n + m) |-> IF k <= n THEN results[k].id ELSE batch[k - n].id]
  BY DEF Line, n, m
<1>8. Line' = [k \in 1..(n + m) |-> IF k <= n + 1 THEN results'[k].id ELSE batch'[k - (n + 1)].id]
  <2>1. Len(results') = n + 1 /\ Len(batch') = m - 1
    BY <1>1, <1>5, <1>6
  <2>2. (n + 1) + (m - 1) = n + m
    BY <1>1, <1>2
  <2> QED BY <2>1, <2>2 DEF Line
<1>9. ASSUME NEW k \in 1..(n + m)
      PROVE  (IF k <= n THEN results[k].id ELSE batch[k - n].id)
               = (IF k <= n + 1 THEN results'[k].id ELSE batch'[k - (n + 1)].id)
  <2>1. CASE k <= n
    <3>1. k \in 1..n /\ k <= n + 1
      BY <1>1, <1>2, <2>1
    <3> QED BY <1>5, <2>1, <3>1
  <2>2. CASE k = n + 1
    <3>1. ~(k <= n) /\ k - n = 1 /\ k <= n + 1
      BY <1>2, <2>2
    <3> QED BY <1>4, <1>5, <2>2, <3>1
  <2>3. CASE k > n + 1
    <3>1. /\ ~(k <= n) /\ ~(k <= n + 1) /\ k - (n + 1) \in 1..(m - 1)
          /\ (k - (n + 1)) + 1 = k - n
      BY <1>1, <1>2, <2>3
    <3>2. batch'[k - (n + 1)] = batch[k - n]
      BY <1>1, <1>6, <3>1
    <3> QED BY <3>1, <3>2
  <2> QED BY <1>1, <1>2, <2>1, <2>2, <2>3
<1>10. Line' = Line
  BY <1>7, <1>8, <1>9
<1> QED BY <1>2, <1>4, <1>5, <1>6, <1>10 DEF n

\* One more job ran in the current queue, and none in another.
LEMMA NextJobCount ==
  ASSUME Shape, DOMAIN results' = 1..(Len(results) + 1), DOMAIN results = 1..Len(results),
         Len(results) \in Nat, \A k \in 1..Len(results) : results'[k] = results[k],
         NEW p, results'[Len(results) + 1].queue = p
  PROVE  /\ \A q : q # p => RanIn(q)' = RanIn(q)
         /\ Cardinality(RanIn(p)) \in Nat
         /\ Cardinality(RanIn(p)') = Cardinality(RanIn(p)) + 1
<1> DEFINE n == Len(results)
<1>0. n \in Nat
  OBVIOUS
<1> HIDE DEF n
<1>1. /\ DOMAIN results' = 1..(n + 1) /\ DOMAIN results = 1..n
      /\ \A k \in 1..n : results'[k] = results[k]
      /\ results'[n + 1].queue = p
  BY DEF n
<1>2. 1..(n + 1) = (1..n) \union {n + 1} /\ n + 1 \notin 1..n
  BY <1>0
<1>3. \A q : q # p => RanIn(q)' = RanIn(q)
  BY <1>1, <1>2 DEF RanIn
<1>4. RanIn(p)' = RanIn(p) \union {n + 1} /\ n + 1 \notin RanIn(p)
  BY <1>1, <1>2 DEF RanIn
<1>5. IsFiniteSet(RanIn(p)) /\ Cardinality(RanIn(p)) \in Nat
  <2>1. RanIn(p) \subseteq 1..n
    BY <1>1 DEF RanIn
  <2>2. IsFiniteSet(1..n)
    BY <1>0, FS_Interval
  <2> QED BY <2>1, <2>2, FS_Subset, FS_CardinalityType
<1>6. Cardinality(RanIn(p) \union {n + 1}) = Cardinality(RanIn(p)) + 1
  BY <1>4, <1>5, FS_AddElement
<1> QED BY <1>3, <1>4, <1>5, <1>6

LEMMA NextJobKeeps ==
  ASSUME PassInv, phase = "recording", NextJob, RowStep,
         adrift' \in {adrift, adrift \union {op.id}},
         op.id \in adrift' \/ jobs'[op.id].state # Running,
         UNCHANGED <<last, columns, inMemory, now, queues, moves, due, helped>>
  PROVE  PassInv'
<1>1. Shape /\ Claimed /\ Counted /\ Ordered /\ Complete
  BY DEF PassInv
<1>2. /\ batch # << >> /\ queues # << >> /\ outcome # "nil"
      /\ op.id = batch[1].id /\ op.id \in DOMAIN jobs /\ op.id \in 1..last /\ op.id \in Nat
  BY <1>1, CurrentJob
<1>3. /\ batch' = Tail(batch) /\ Line' = Line
      /\ results' \in Seq(RanRecord) /\ Len(results) \in Nat
      /\ DOMAIN results' = 1..(Len(results) + 1) /\ DOMAIN results = 1..Len(results)
      /\ \A k \in 1..Len(results) : results'[k] = results[k]
      /\ results'[Len(results) + 1].queue = queues[1]
  BY <1>1, <1>2, NextJobLine
<1>4. /\ Len(batch) \in Nat \ {0} /\ batch' \in Seq(ClaimRecord) /\ Len(batch') = Len(batch) - 1
      /\ DOMAIN batch' = 1..(Len(batch) - 1) /\ DOMAIN batch = 1..Len(batch)
      /\ \A k \in 1..(Len(batch) - 1) : k + 1 \in DOMAIN batch /\ batch'[k] = batch[k + 1]
  BY <1>1, <1>2, <1>3, HeadOfBatch
<1>5. /\ processed' = processed + 1 /\ op' = NoOp /\ tries' = 0
      /\ \/ /\ Len(batch) = 1 /\ processed + 1 > PerQueueJobBudget
            /\ phase' = "idle" /\ outcome' = "error"
         \/ /\ ~(Len(batch) = 1 /\ processed + 1 > PerQueueJobBudget)
            /\ phase' = IF Len(batch) = 1 THEN "fetching" ELSE "between"
            /\ outcome' = outcome
  BY DEF NextJob, Return
<1>6. /\ processed \in Nat /\ processed + Len(batch) <= PerQueueJobBudget + FetchLimit
      /\ Len(batch) <= FetchLimit
      /\ Cardinality(RanIn(queues[1])) = processed
      /\ \A k \in DOMAIN queues : k > 1 => RanIn(queues[k]) = {}
      /\ \A q \in Queues \ ToSet(queues) : Cardinality(RanIn(q)) <= PerQueueJobBudget
  BY <1>1, <1>2 DEF Shape, ProcessTypeOK, Counted
<1>7. Len(batch) = 1 <=> batch' = << >>
  BY <1>4
<1>8. DOMAIN jobs' = DOMAIN jobs /\ \A i \in DOMAIN jobs : jobs'[i] \in JobRow
  BY DEF RowStep
<1>9. Shape'
  <2>1. /\ phase' \in Phases /\ phase' \notin {"moving", "recording", "working"}
        /\ (batch' = << >>) <=> (phase' \in {"idle", "moving", "fetching"})
        /\ outcome' \in {"none", "error"} /\ (phase' # "idle" => outcome' = "none")
    BY <1>1, <1>2, <1>5, <1>7 DEF Shape, ProcessTypeOK
  <2>2. processed' \in 0..(PerQueueJobBudget + FetchLimit) /\ Len(batch') <= FetchLimit
    BY <1>4, <1>5, <1>6, Constants
  <2>3. tries' \in 0..(MaxTries - 1)
    BY <1>5, Constants
  <2>4. helped' \union adrift' \union DOMAIN failed' \subseteq 1..last'
    <3>1. DOMAIN failed' \subseteq DOMAIN failed \union {op.id}
      BY DEF RowStep
    <3> QED BY <1>1, <1>2, <3>1, StoreOK
  <2> QED BY <1>1, <1>2, <1>3, <1>4, <1>8, <2>1, <2>2, <2>3, <2>4 DEF Shape, ProcessTypeOK
<1>10. Claimed'
  <2>1. ASSUME NEW k \in DOMAIN batch'
        PROVE  /\ batch'[k].id \in DOMAIN jobs'
               /\ jobs'[batch'[k].id].generation = batch'[k].generation
    <3>1. k + 1 \in DOMAIN batch /\ batch'[k] = batch[k + 1]
      BY <1>4, <2>1
    <3>2. /\ batch[k + 1].id \in DOMAIN jobs
          /\ jobs[batch[k + 1].id].generation = batch[k + 1].generation
      BY <1>1, <3>1 DEF Claimed
    <3> QED BY <3>1, <3>2 DEF RowStep
  <2>2. ASSUME NEW i \in DOMAIN jobs', jobs'[i].state = Running
        PROVE  i \in adrift' \union Held'
    <3>1. i \in DOMAIN jobs /\ jobs[i].state = Running
      BY <1>8, <2>2 DEF RowStep
    <3>2. i \in adrift \/ \E k \in DOMAIN batch : batch[k].id = i
      BY <1>1, <3>1 DEF Claimed, Held
    <3>3. CASE i = op.id
      BY <2>2, <3>3
    <3>4. ASSUME i # op.id, NEW k \in DOMAIN batch, batch[k].id = i
          PROVE  i \in Held'
      <4>1. k # 1
        BY <1>2, <3>4
      <4>2. k - 1 \in 1..(Len(batch) - 1) /\ (k - 1) + 1 = k
        BY <1>4, <4>1
      <4>3. batch'[k - 1].id = i /\ k - 1 \in DOMAIN batch'
        BY <1>4, <3>4, <4>2
      <4> QED BY <4>3 DEF Held
    <3> QED BY <3>2, <3>3, <3>4
  <2> QED BY <2>1, <2>2 DEF Claimed
<1>11. /\ \A q : q # queues[1] => RanIn(q)' = RanIn(q)
       /\ Cardinality(RanIn(queues[1])') = processed + 1
  BY <1>1, <1>3, <1>6, NextJobCount
<1>12. queues \in Seq(Queues) /\ queues[1] \in ToSet(queues) /\ 1 \in DOMAIN queues
       /\ \A k \in DOMAIN queues : k > 1 => queues[k] # queues[1]
  BY <1>1, <1>2 DEF Shape, ProcessTypeOK, ToSet
<1>13. Counted'
  <2>1. (queues # << >> => Cardinality(RanIn(queues[1])) = processed)'
    BY <1>5, <1>11
  <2>2. (\A k \in DOMAIN queues : k > 1 => RanIn(queues[k]) = {})'
    BY <1>6, <1>11, <1>12
  <2>3. (\A q \in Queues \ ToSet(queues) : Cardinality(RanIn(q)) <= PerQueueJobBudget)'
    BY <1>6, <1>11, <1>12
  <2>4. (processed + Len(batch) <= PerQueueJobBudget + FetchLimit)'
    BY <1>4, <1>5, <1>6, Constants
  <2>5. phase' # "idle" => (batch = << >> => processed <= PerQueueJobBudget)'
    BY <1>5, <1>6, <1>7, Constants
  <2>6. WithinBudget'
    <3>1. outcome' # "nil"
      BY <1>2, <1>5
    <3>2. \A q \in Queues : Cardinality(RanIn(q)) <= PerQueueJobBudget + FetchLimit
      BY <1>1 DEF Counted, WithinBudget, RanIn
    <3>3. processed + 1 <= PerQueueJobBudget + FetchLimit
      BY <1>4, <1>6, Constants
    <3>4. \A q \in Queues : Cardinality(RanIn(q)') <= PerQueueJobBudget + FetchLimit
      BY <1>11, <3>2, <3>3
    <3> QED BY <3>1, <3>4 DEF WithinBudget, RanIn
  <2> QED BY <2>1, <2>2, <2>3, <2>4, <2>5, <2>6 DEF Counted
<1>14. phase' # "moving" /\ outcome' # "nil"
  BY <1>2, <1>5
<1>15. Ordered' /\ Complete'
  BY <1>3, <1>14, RowStepKeepsLine
<1> QED BY <1>9, <1>10, <1>13, <1>15 DEF PassInv

LEMMA RecordSucceedsKeeps ==
  ASSUME PassInv, RecordSucceeds
  PROVE  PassInv'
<1>1. /\ phase = "recording" /\ Storable /\ Recorded /\ NextJob
      /\ UNCHANGED <<last, columns, inMemory, now, queues, moves, due, helped, adrift>>
  BY DEF RecordSucceeds
<1>2. RowStep /\ jobs'[op.id].state # Running
  BY <1>1, RecordedRows DEF PassInv
<1> QED BY <1>1, <1>2, NextJobKeeps

LEMMA RecordRefusedKeeps ==
  ASSUME PassInv, RecordRefused
  PROVE  PassInv'
<1>1. /\ phase = "recording" /\ NextJob /\ adrift' = adrift \union {op.id}
      /\ UNCHANGED <<jobs, last, columns, inMemory, now, queues, moves, due, helped, failed>>
  BY DEF RecordRefused, Dropped
<1>2. RowStep
  BY <1>1, UntouchedRows DEF PassInv
<1> QED BY <1>1, <1>2, NextJobKeeps

LEMMA RecordFailsKeeps ==
  ASSUME PassInv, RecordFails
  PROVE  PassInv'
<1>1. /\ phase = "recording" /\ Storable
      /\ Recorded \/ UNCHANGED <<jobs, failed>>
      /\ UNCHANGED <<last, columns, inMemory, now, queues, moves, due, helped>>
  BY DEF RecordFails
<1>2. Shape /\ Claimed /\ Counted
  BY DEF PassInv
<1>3. RowStep
  BY <1>1, <1>2, RecordedRows, UntouchedRows
<1>4. CASE tries + 1 >= MaxTries
  <2>1. NextJob /\ adrift' = adrift \union {op.id}
    BY <1>4 DEF RecordFails, Dropped
  <2> QED BY <1>1, <1>3, <2>1, NextJobKeeps
<1>5. CASE ~(tries + 1 >= MaxTries)
  <2>1. tries' = tries + 1 /\ UNCHANGED <<phase, batch, processed, op, results, outcome, adrift>>
    BY <1>5 DEF RecordFails
  <2>2. tries' \in 0..(MaxTries - 1)
    BY <1>2, <1>5, <2>1, Constants DEF Shape, ProcessTypeOK
  <2>3. /\ DOMAIN jobs' = DOMAIN jobs
        /\ \A i \in DOMAIN jobs : /\ jobs'[i] \in JobRow
                                  /\ jobs'[i].generation = jobs[i].generation
                                  /\ jobs'[i].state = Running => jobs[i].state = Running
        /\ DOMAIN failed' \subseteq DOMAIN failed \union {op.id}
    BY <1>3 DEF RowStep
  <2>4. helped' \union adrift' \union DOMAIN failed' \subseteq 1..last'
    BY <1>1, <1>2, <2>1, <2>3, CurrentJob, StoreOK
  <2>5. Shape'
    BY <1>1, <1>2, <2>1, <2>2, <2>3, <2>4 DEF Shape, ProcessTypeOK
  <2>6. Claimed'
    BY <1>2, <2>1, <2>3 DEF Claimed, Held
  <2>7. Counted'
    BY <1>1, <1>2, <2>1 DEF Counted, WithinBudget, RanIn
  <2>8. Line' = Line
    BY <2>1 DEF Line
  <2>9. phase' # "moving" /\ outcome' # "nil"
    BY <1>1, <1>2, <2>1, CurrentJob
  <2>10. Ordered' /\ Complete'
    BY <1>1, <1>3, <2>8, <2>9, RowStepKeepsLine
  <2> QED BY <2>5, <2>6, <2>7, <2>10 DEF PassInv
<1> QED BY <1>4, <1>5

\* Every step of the pass keeps the invariant.
LEMMA PassKeeps ==
  ASSUME PassInv, PassStep
  PROVE  PassInv'
BY MoveKeeps, MoveFailsKeeps, FetchKeeps, DrainedKeeps, StopAtFetchKeeps, FetchFailsKeeps,
   ReturnResultsKeeps, RunJobKeeps, WorkerReturnsKeeps, RecordSucceedsKeeps, RecordRefusedKeeps,
   RecordFailsKeeps DEF PassStep

-----------------------------------------------------------------------------
(* The client of a test.                                                   *)

USE DEF fakeVars

FakeShape ==
    /\ faked \in BOOLEAN /\ tracked \subseteq Queues
    /\ run \in {"none", "ready", "untilIdle"} /\ round \in 0..MaxRounds
    /\ verdict \in {"none", "ran", "idle", "fatal"}
    /\ faked => inMemory
    /\ run # "none" => faked

Quiet == \A i \in DOMAIN jobs \ foreign : ~Waits(i)

\* Every queue a job of the client landed in is tracked; a round works for all
\* that waited when it began as long as it has claimed nothing; and nothing
\* waits behind a run that ended idle.
Idle ==
    /\ faked => \A i \in DOMAIN jobs \ foreign : jobs[i].queue \in tracked
    /\ run # "none" => helped = {}
    /\ run # "none" /\ Line = << >> /\ outcome # "error" =>
          \A i \in DOMAIN jobs \ foreign : Waits(i) => i \in DOMAIN due
    /\ Roomy /\ verdict = "idle" => faked /\ run = "none" /\ phase = "idle" /\ Quiet

FakeInv == PassInv /\ FakeShape /\ Idle

\* A pass that has claimed nothing yet has changed no more than states, and
\* waits for nothing it was not called for.
LEMMA PassLine ==
  ASSUME PassInv, PassStep
  PROVE  /\ phase # "idle"
         /\ UNCHANGED <<inMemory, due, helped>>
         /\ DOMAIN jobs' = DOMAIN jobs
         /\ \A i \in DOMAIN jobs : jobs'[i].queue = jobs[i].queue
         /\ Line' = << >> /\ outcome' # "error" =>
               /\ Line = << >> /\ outcome # "error"
               /\ \A i \in DOMAIN jobs : Waits(i)' => Waits(i)
<1> DEFINE Goal ==
             /\ phase # "idle"
             /\ UNCHANGED <<inMemory, due, helped>>
             /\ DOMAIN jobs' = DOMAIN jobs
             /\ \A i \in DOMAIN jobs : jobs'[i].queue = jobs[i].queue
             /\ Line' = << >> /\ outcome' # "error" =>
                   /\ Line = << >> /\ outcome # "error"
                   /\ \A i \in DOMAIN jobs : Waits(i)' => Waits(i)
<1> SUFFICES Goal
  OBVIOUS
<1>1. Shape /\ Claimed /\ PassInv'
  BY PassKeeps DEF PassInv
<1>2. ASSUME UNCHANGED jobs, phase # "idle", UNCHANGED <<inMemory, now, due, helped>>,
             Line' = << >> /\ outcome' # "error" => Line = << >>
      PROVE  Goal
  BY <1>1, <1>2 DEF Shape, Waits
<1>3. CASE Move
  <2>1. PICK ids \in UpTo(MoveDueBatch, Due(jobs, now)) : jobs' = MakeAvailable(jobs, ids)
    BY <1>3 DEF Move
  <2>2. ids \in SUBSET Due(jobs, now)
    BY DEF UpTo
  <2>3. /\ phase = "moving"
        /\ UNCHANGED <<inMemory, now, batch, results, outcome, due, helped>>
    BY <1>3 DEF Move
  <2>4. Line' = Line
    BY <2>3 DEF Line
  <2>5. /\ DOMAIN jobs' = DOMAIN jobs
        /\ \A i \in DOMAIN jobs : /\ jobs'[i].queue = jobs[i].queue
                                  /\ i \notin ids => jobs'[i] = jobs[i]
    BY <1>1, <2>1, <2>2, PromotedOK
  <2>6. \A i \in ids : Waits(i)
    BY <2>2 DEF Due, Waits
  <2>7. \A i \in DOMAIN jobs : Waits(i)' => Waits(i)
    BY <2>3, <2>5, <2>6 DEF Waits
  <2> QED BY <1>1, <2>3, <2>4, <2>5, <2>7 DEF Shape
<1>4. CASE MoveFails
  <2>1. PICK ids \in {{}} \union UpTo(MoveDueBatch, Due(jobs, now)) : jobs' = MakeAvailable(jobs, ids)
    BY <1>4 DEF MoveFails
  <2>2. ids \in SUBSET Due(jobs, now)
    BY DEF UpTo
  <2>3. DOMAIN jobs' = DOMAIN jobs /\ \A i \in DOMAIN jobs : jobs'[i].queue = jobs[i].queue
    BY <1>1, <2>1, <2>2, PromotedOK
  <2> QED BY <1>4, <2>3 DEF MoveFails, Return
<1>5. CASE Fetch
  <2>1. DOMAIN jobs' = DOMAIN jobs /\ \A i \in DOMAIN jobs : jobs'[i].queue = jobs[i].queue
    BY <1>1, <1>5, ClaimOK DEF Fetch
  <2>2. Line' # << >>
    <3>1. batch' # << >> /\ batch' \in Seq(ClaimRecord) /\ results' \in Seq(RanRecord)
      BY <1>1, <1>5 DEF PassInv, Shape, ProcessTypeOK, Fetch
    <3>2. Len(results') \in Nat /\ Len(batch') \in Nat \ {0}
      BY <3>1
    <3>3. 1 \in DOMAIN Line'
      BY <3>2 DEF Line
    <3> QED BY <3>3
  <2> QED BY <1>5, <2>1, <2>2 DEF Fetch
<1>6. CASE Drained
  <2>1. Line' = Line
    BY <1>6 DEF Drained, Line
  <2> QED BY <1>2, <1>6, <2>1 DEF Drained
<1>7. CASE StopAtFetch
  BY <1>2, <1>7 DEF StopAtFetch, Return
<1>8. CASE FetchFails
  <2>1. PICK ids \in {{}, Ready} : jobs' = Claim(jobs, ids, now)
    BY <1>8 DEF FetchFails
  <2>2. DOMAIN jobs' = DOMAIN jobs /\ \A i \in DOMAIN jobs : jobs'[i].queue = jobs[i].queue
    BY <1>1, <2>1, ClaimOK
  <2> QED BY <1>8, <2>2 DEF FetchFails, Return
<1>9. CASE ReturnResults
  <2>1. batch = << >> /\ batch' = << >>
    BY <1>1, <1>9 DEF ReturnResults, Return, Shape, ProcessTypeOK
  <2>2. Line' = Line
    BY <1>9, <2>1 DEF ReturnResults, Line
  <2> QED BY <1>2, <1>9, <2>2 DEF ReturnResults
<1>10. CASE RunJob
  <2>1. Line' = Line
    BY <1>10 DEF RunJob, Line
  <2> QED BY <1>2, <1>10, <2>1 DEF RunJob
<1>11. CASE \E result \in Results : WorkerReturns(result)
  <2>1. Line' = Line
    BY <1>11 DEF WorkerReturns, Line
  <2> QED BY <1>2, <1>11, <2>1 DEF WorkerReturns
<1>12. ASSUME phase = "recording", RowStep, NextJob \/ UNCHANGED <<batch, results>>,
              UNCHANGED <<inMemory, queues, due, helped>>
       PROVE  Goal
  <2>1. op.id \in Lined
    BY <1>1, <1>12, CurrentIsLined
  <2>2. Line' = Line
    <3>1. CASE NextJob
      BY <1>1, <1>12, <3>1, CurrentJob, NextJobLine
    <3>2. CASE UNCHANGED <<batch, results>>
      BY <3>2 DEF Line
    <3> QED BY <1>12, <3>1, <3>2
  <2>3. Line # << >>
    BY <2>1, EmptyLine
  <2>4. \A i \in DOMAIN jobs : jobs'[i].queue = jobs[i].queue
    BY <1>12 DEF RowStep
  <2> QED BY <1>12, <2>2, <2>3, <2>4 DEF RowStep
<1>13. CASE RecordSucceeds
  BY <1>1, <1>12, <1>13, RecordedRows DEF RecordSucceeds
<1>14. CASE RecordRefused
  BY <1>1, <1>12, <1>14, UntouchedRows DEF RecordRefused, Dropped
<1>15. CASE RecordFails
  <2>1. RowStep
    BY <1>1, <1>15, RecordedRows, UntouchedRows DEF RecordFails
  <2>2. NextJob \/ UNCHANGED <<batch, results>>
    BY <1>15 DEF RecordFails, Dropped
  <2> QED BY <1>12, <1>15, <2>1, <2>2 DEF RecordFails
<1> QED BY <1>3, <1>4, <1>5, <1>6, <1>7, <1>8, <1>9, <1>10, <1>11, <1>13, <1>14, <1>15 DEF PassStep

\* The arrangements a pass is called with.
LEMMA TrackedOK ==
  ASSUME tracked \subseteq Queues, NEW qs \in TrackedQueues
  PROVE  /\ qs \in Seq(Queues) /\ \A j, k \in DOMAIN qs : qs[j] = qs[k] => j = k
         /\ \A q \in tracked : q \in ToSet(qs)
<1> DEFINE n == Len(QueueOrder)
<1>1. n \in Nat /\ QueueOrder \in [1..n -> Queues] /\ \A q \in Queues : \E k \in 1..n : QueueOrder[k] = q
  BY QueuesAssumption DEF ToSet
<1> HIDE DEF n
<1>2. QueueOrder \in Surjection(1..n, Queues) /\ IsFiniteSet(1..n)
  BY <1>1, FS_Interval DEF Surjection
<1>3. IsFiniteSet(Queues)
  BY <1>2, FS_Surjection
<1>4. IsFiniteSet(tracked)
  BY <1>3, FS_Subset
<1>5. qs \in SetToSeqs(tracked)
  BY DEF TrackedQueues
<1>6. /\ qs \in Seq(tracked) /\ \A j, k \in DOMAIN qs : qs[j] = qs[k] => j = k
      /\ \A q \in tracked : \E k \in DOMAIN qs : qs[k] = q
  BY <1>4, <1>5, Arrangement
<1>7. qs \in Seq(Queues)
  BY <1>6
<1> QED BY <1>6, <1>7 DEF ToSet

\* Nothing of the client changes the line.
LEMMA RestKeepsLine ==
  UNCHANGED <<batch, results>> => Line' = Line
BY DEF Line

\* Steps around a pass: what waits later waited before or is foreign.
LEMMA UnfakedKeeps ==
  ASSUME FakeInv, Unfaked
  PROVE  FakeInv'
<1>1. PassInv /\ FakeShape /\ Idle /\ ~faked /\ run = "none"
  BY DEF FakeInv, Unfaked, FakeShape
<1>2. UNCHANGED fakeVars
  BY DEF Unfaked
<1>3. CASE Pass
  <2>1. /\ QueueOrder \in Seq(Queues) /\ \A j, k \in DOMAIN QueueOrder : QueueOrder[j] = QueueOrder[k] => j = k
    BY QueuesAssumption DEF IsInjective
  <2>2. /\ <<Head(QueueOrder)>> \in Seq(Queues)
        /\ \A j, k \in DOMAIN <<Head(QueueOrder)>> : j = k
    <3>1. QueueOrder # << >>
      <4>1. ClientDefaults.queue \in ToSet(QueueOrder)
        BY QueuesAssumption, OptionsAssumption
      <4>2. PICK k \in DOMAIN QueueOrder : TRUE
        BY <4>1 DEF ToSet
      <4> QED BY <2>1, <4>2
    <3>2. Head(QueueOrder) \in Queues
      BY <2>1, <3>1
    <3> QED BY <3>2
  <2>3. PassInv'
    <3>1. CASE Call(QueueOrder, FALSE) \/ Call(QueueOrder, TRUE)
      BY <1>1, <2>1, <3>1, CallKeeps
    <3>2. CASE Call(<<Head(QueueOrder)>>, FALSE)
      BY <1>1, <2>2, <3>2, CallKeeps
    <3> QED BY <1>3, <3>1, <3>2 DEF Pass
  <2>4. UNCHANGED inMemory
    BY <1>3 DEF Pass, Call
  <2> QED BY <1>1, <1>2, <2>3, <2>4 DEF FakeInv, FakeShape, Idle
<1>4. CASE Tick \/ Others
  <2>1. WorldStep
    BY <1>1, <1>4, TickStep, OthersStep
  <2> QED BY <1>1, <1>2, <2>1, WorldKeeps DEF FakeInv, FakeShape, Idle, WorldStep
<1> QED BY <1>3, <1>4 DEF Unfaked

\* The pass at work, or its context ended.
LEMMA PassStepKeeps ==
  ASSUME FakeInv, PassStep, UNCHANGED fakeVars
  PROVE  FakeInv'
<1>1. PassInv /\ FakeShape /\ Idle
  BY DEF FakeInv
<1>2. PassInv'
  BY <1>1, PassKeeps
<1>3. /\ phase # "idle"
      /\ UNCHANGED <<inMemory, due, helped>>
      /\ DOMAIN jobs' = DOMAIN jobs
      /\ \A i \in DOMAIN jobs : jobs'[i].queue = jobs[i].queue
      /\ Line' = << >> /\ outcome' # "error" =>
            /\ Line = << >> /\ outcome # "error"
            /\ \A i \in DOMAIN jobs : Waits(i)' => Waits(i)
  BY <1>1, PassLine
<1>4. FakeShape'
  BY <1>1, <1>3 DEF FakeShape
<1>5. Idle'
  BY <1>1, <1>3 DEF Idle
<1> QED BY <1>2, <1>4, <1>5 DEF FakeInv

LEMMA CancelKeeps ==
  ASSUME FakeInv, Cancel, UNCHANGED fakeVars
  PROVE  FakeInv'
<1>1. PassInv /\ FakeShape /\ Idle
  BY DEF FakeInv
<1>2. PassInv'
  BY <1>1, CancelStep, WorldKeeps
<1>3. /\ phase # "idle"
      /\ UNCHANGED <<jobs, inMemory, now, phase, batch, results, outcome, due, helped>>
  BY DEF Cancel
<1>4. Line' = Line
  BY <1>3, RestKeepsLine
<1>5. FakeShape'
  BY <1>1, <1>3 DEF FakeShape
<1>6. Idle'
  BY <1>1, <1>3, <1>4 DEF Idle, Waits
<1> QED BY <1>2, <1>5, <1>6 DEF FakeInv

LEMMA FakeKeeps ==
  ASSUME FakeInv, Fake
  PROVE  FakeInv'
<1>1. Shape /\ Claimed /\ FakeShape /\ Idle
  BY DEF FakeInv, PassInv
<1>2. /\ ~faked /\ inMemory /\ phase = "idle" /\ faked' = TRUE /\ foreign' = {}
      /\ tracked' = Configured \union QueuesOf(jobs)
      /\ results' = << >> /\ outcome' = "none" /\ queues' = << >> /\ processed' = 0
      /\ due' = EmptyStore /\ helped' = {}
      /\ UNCHANGED <<jobs, last, columns, inMemory, now, phase, moves, batch, op, tries, adrift,
                     failed, run, round, verdict>>
  BY DEF Fake, ForgetPass
<1>3. batch = << >> /\ run = "none"
  BY <1>1, <1>2 DEF Shape, ProcessTypeOK, FakeShape
<1>4. Shape'
  BY <1>1, <1>2, <1>3, Constants DEF Shape, ProcessTypeOK
<1>5. Claimed'
  BY <1>1, <1>2 DEF Claimed, Held
<1>6. Counted'
  BY <1>2, Constants, NobodyRanNext DEF Counted, WithinBudget, RanIn
<1>7. Line' = << >> /\ Lined' = {} /\ Own' = {}
  BY <1>2, <1>3, EmptyLineNext DEF Own, EmptyStore
<1>8. Ordered' /\ Complete'
  BY <1>2, <1>7 DEF Ordered, Complete
<1>9. QueuesOf(jobs) \subseteq Queues
  BY <1>1, StoreOK DEF QueuesOf, JobRow
<1>10. FakeShape'
  BY <1>1, <1>2, <1>3, <1>9, QueuesAssumption DEF FakeShape
<1>11. Idle'
  BY <1>1, <1>2, <1>3 DEF Idle, QueuesOf
<1> QED BY <1>4, <1>5, <1>6, <1>8, <1>10, <1>11 DEF FakeInv, PassInv

\* Rows arrive from the client or past it.
LEMMA EnqueueKeeps ==
  ASSUME FakeInv, NEW inserts \in Arrivals, EnqueueByClient(inserts) \/ EnqueueElsewhere(inserts)
  PROVE  FakeInv'
<1>1. PassInv /\ Shape /\ FakeShape /\ Idle
  BY DEF FakeInv, PassInv
<1>2. /\ phase = "working" \/ AtRest
      /\ verdict' = "none"
      /\ UNCHANGED <<faked, run, round>>
  BY DEF EnqueueByClient, EnqueueElsewhere
<1>3. EnqueueMany(inserts)
  BY DEF EnqueueByClient, EnqueueElsewhere
<1>4. /\ WorldStep /\ UNCHANGED helped
      /\ \A i \in DOMAIN jobs : jobs'[i] = jobs[i]
      /\ \A i \in DOMAIN jobs' \ DOMAIN jobs :
            /\ i \in (last + 1)..last'
            /\ \E k \in DOMAIN Stored(inserts) : jobs'[i].queue = Stored(inserts)[k].queue
  BY <1>1, <1>3, EnqueueStep
<1>5. PassInv'
  BY <1>1, <1>4, WorldKeeps
<1>6. \A k \in DOMAIN Stored(inserts) :
         /\ Stored(inserts)[k].queue \in Queues
         /\ Stored(inserts)[k].queue \in {req.queue : req \in ToSet(Stored(inserts))}
  BY <1>1, StoredOK DEF ToSet
<1>7. tracked \subseteq tracked' /\ tracked' \subseteq Queues
  <2>1. CASE tracked' = tracked \union {req.queue : req \in ToSet(Stored(inserts))}
    BY <1>1, <1>6, <2>1 DEF FakeShape, ToSet
  <2>2. CASE tracked' = tracked
    BY <1>1, <2>2 DEF FakeShape
  <2> QED BY <2>1, <2>2 DEF EnqueueByClient, EnqueueElsewhere
<1>8. foreign \subseteq foreign'
  BY DEF EnqueueByClient, EnqueueElsewhere
<1>9. ASSUME faked, NEW i \in DOMAIN jobs' \ foreign'
      PROVE  jobs'[i].queue \in tracked'
  <2>1. CASE i \in DOMAIN jobs
    BY <1>1, <1>4, <1>7, <1>8, <1>9, <2>1 DEF Idle
  <2>2. CASE i \notin DOMAIN jobs
    <3>1. i \in (last + 1)..last'
      BY <1>4, <1>9, <2>2
    <3>2. CASE EnqueueByClient(inserts)
      BY <1>4, <1>6, <1>9, <2>2, <3>2 DEF EnqueueByClient
    <3>3. CASE EnqueueElsewhere(inserts)
      BY <1>9, <3>1, <3>3 DEF EnqueueElsewhere
    <3> QED BY <3>2, <3>3
  <2> QED BY <2>1, <2>2
<1>10. run # "none" => Line' # << >>
  <2> SUFFICES ASSUME run # "none" PROVE Line' # << >>
    OBVIOUS
  <2>1. phase = "working"
    BY <1>2 DEF AtRest
  <2>2. batch \in Seq(ClaimRecord) /\ batch # << >> /\ results \in Seq(RanRecord)
    BY <1>1, <2>1 DEF Shape, ProcessTypeOK
  <2>3. Len(results) \in Nat /\ Len(batch) \in Nat \ {0} /\ UNCHANGED <<batch, results>>
    BY <1>4, <2>2 DEF WorldStep
  <2>4. 1 \in DOMAIN Line'
    BY <2>3 DEF Line
  <2> QED BY <2>4
<1>11. FakeShape'
  BY <1>1, <1>2, <1>4, <1>7 DEF FakeShape, WorldStep
<1>12. Idle'
  BY <1>1, <1>2, <1>4, <1>9, <1>10 DEF Idle
<1> QED BY <1>5, <1>11, <1>12 DEF FakeInv

\* A test that moves the clock or names a queue gives the last verdict up.
LEMMA TestKeeps ==
  ASSUME FakeInv, Advance \/ \E q \in Queues : TrackQueue(q)
  PROVE  FakeInv'
<1>1. PassInv /\ Shape /\ FakeShape /\ Idle
  BY DEF FakeInv, PassInv
<1>2. /\ run = "none" /\ verdict' = "none"
      /\ UNCHANGED <<faked, run, round, foreign>>
      /\ tracked \subseteq tracked' /\ tracked' \subseteq Queues
  BY <1>1 DEF Advance, TrackQueue, AtRest, FakeShape
<1>3. PassInv' /\ UNCHANGED <<jobs, inMemory>>
  <2>1. CASE Advance
    BY <1>1, <2>1, TickStep, WorldKeeps DEF Advance, Tick
  <2>2. CASE \E q \in Queues : TrackQueue(q)
    <3>1. UNCHANGED passVars
      BY <2>2 DEF TrackQueue
    <3>2. WorldStep
      BY <1>1, <3>1, StoreOK, Constants DEF passVars, WorldStep
    <3> QED BY <1>1, <3>1, <3>2, WorldKeeps DEF passVars
  <2> QED BY <2>1, <2>2
<1>4. FakeShape'
  BY <1>1, <1>2, <1>3 DEF FakeShape
<1>5. Idle'
  BY <1>1, <1>2, <1>3 DEF Idle
<1> QED BY <1>3, <1>4, <1>5 DEF FakeInv

LEMMA ResetKeeps ==
  ASSUME FakeInv, Reset
  PROVE  FakeInv'
<1>1. Shape /\ Claimed /\ Counted /\ Ordered /\ Complete /\ FakeShape /\ Idle
  BY DEF FakeInv, PassInv
<1>2. /\ phase = "idle" /\ run = "none" /\ verdict' = "none" /\ foreign' = {}
      /\ jobs' = EmptyStore /\ columns' = EmptyStore /\ tracked' = Configured
      /\ UNCHANGED <<last, inMemory, now, phase, queues, moves, batch, processed, op, tries, results,
                     outcome, due, helped, adrift, failed, faked, run, round>>
  BY DEF Reset, AtRest
<1>3. DOMAIN jobs' = {} /\ DOMAIN columns' = {}
  BY <1>2 DEF EmptyStore
<1>4. Shape'
  BY <1>1, <1>2, <1>3 DEF Shape, ProcessTypeOK
<1>5. batch' = << >>
  BY <1>1, <1>2 DEF Shape, ProcessTypeOK
<1>6. Claimed'
  BY <1>3, <1>5 DEF Claimed
<1>7. Counted'
  BY <1>1, <1>2 DEF Counted, WithinBudget
<1>8. Line' = Line /\ Lined' = Lined /\ Own' = Own
  BY <1>2 DEF Line, Lined, Own
<1>9. Ordered' /\ Complete'
  BY <1>1, <1>2, <1>8 DEF Ordered, Complete
<1>10. FakeShape' /\ Idle'
  BY <1>1, <1>2, <1>3, QueuesAssumption DEF FakeShape, Idle
<1> QED BY <1>4, <1>6, <1>7, <1>9, <1>10 DEF FakeInv, PassInv

\* A round is called with every tracked queue.
LEMMA RoundKeeps ==
  ASSUME FakeInv, faked, NEW qs \in TrackedQueues, NEW ended, Call(qs, ended),
         run' \in {"ready", "untilIdle"}, round' \in 0..MaxRounds,
         verdict' \in {verdict, "none"}, Roomy => verdict' # "idle",
         UNCHANGED <<faked, tracked, foreign>>
  PROVE  FakeInv'
<1>1. PassInv /\ Shape /\ FakeShape /\ Idle
  BY DEF FakeInv, PassInv
<1>2. /\ qs \in Seq(Queues) /\ \A j, k \in DOMAIN qs : qs[j] = qs[k] => j = k
      /\ \A q \in tracked : q \in ToSet(qs)
  BY <1>1, TrackedOK DEF FakeShape
<1>3. PassInv'
  BY <1>1, <1>2, CallKeeps
<1>4. /\ helped' = {} /\ DOMAIN due' = DueNow(qs)
      /\ UNCHANGED <<jobs, inMemory, now>>
  BY DEF Call
<1>5. FakeShape'
  BY <1>1, <1>4 DEF FakeShape
<1>6. \A i \in DOMAIN jobs \ foreign : Waits(i) => i \in DueNow(qs)
  BY <1>1, <1>2 DEF Idle, Waits, DueNow
<1>7. Idle'
  BY <1>1, <1>4, <1>6 DEF Idle, Waits
<1> QED BY <1>3, <1>5, <1>7 DEF FakeInv

LEMMA RunBeginsKeeps ==
  ASSUME FakeInv, NEW kind \in {"ready", "untilIdle"}, NEW ended,
         RunBegins(kind, ended)
  PROVE  FakeInv'
<1>1. faked /\ run' = kind /\ round' = 1 /\ verdict' = "none" /\ UNCHANGED <<faked, tracked, foreign>>
  BY DEF RunBegins
<1>2. PICK qs \in TrackedQueues : Call(qs, ended)
  BY DEF RunBegins
<1>3. round' \in 0..MaxRounds
  BY <1>1, RoundsAssumption
<1> QED BY <1>1, <1>2, <1>3, RoundKeeps

LEMMA AtRestKeeps ==
  ASSUME PassInv, UNCHANGED passVars
  PROVE  PassInv' /\ Line' = Line
<1>1. WorldStep
  BY StoreOK, Constants DEF PassInv, passVars, WorldStep
<1>2. Line' = Line
  BY RestKeepsLine DEF passVars
<1> QED BY <1>1, <1>2, WorldKeeps

LEMMA RunEndsKeeps ==
  ASSUME FakeInv, RunEnds
  PROVE  FakeInv'
<1>1. PassInv /\ Shape /\ Complete /\ FakeShape /\ Idle
  BY DEF FakeInv, PassInv
<1>2. /\ faked /\ run # "none" /\ phase = "idle" /\ outcome = "nil"
      /\ run = "ready" \/ results = << >>
      /\ run' = "none" /\ verdict' = IF run = "ready" THEN "ran" ELSE "idle"
      /\ UNCHANGED <<passVars, faked, tracked, round, foreign>>
  BY DEF RunEnds, RoundOver
<1>3. PassInv'
  BY <1>1, <1>2, AtRestKeeps
<1>4. FakeShape'
  BY <1>1, <1>2 DEF FakeShape, passVars
<1>5. ASSUME Roomy, verdict' = "idle" PROVE Quiet
  <2>1. results = << >> /\ batch = << >>
    BY <1>1, <1>2, <1>5 DEF Shape, ProcessTypeOK
  <2>2. Line = << >> /\ Lined = {}
    BY <2>1, EmptyLine
  <2>3. Own = {} /\ helped = {}
    BY <1>1, <1>2, <1>5, <2>2 DEF Complete, Idle
  <2>4. DOMAIN due = {}
    BY <2>3 DEF Own
  <2> QED BY <1>1, <1>2, <2>2, <2>4 DEF Idle, Quiet
<1>6. Idle'
  <2>1. Quiet => Quiet'
    BY <1>2 DEF Quiet, Waits, passVars
  <2> QED BY <1>1, <1>2, <1>5, <2>1 DEF Idle, passVars
<1> QED BY <1>3, <1>4, <1>6 DEF FakeInv

\* A run that fails its test.
LEMMA FatalKeeps ==
  ASSUME FakeInv, run' = "none", verdict' = "fatal",
         UNCHANGED <<passVars, faked, tracked, round, foreign>>
  PROVE  FakeInv'
<1>1. PassInv /\ FakeShape /\ Idle
  BY DEF FakeInv
<1>2. PassInv'
  BY <1>1, AtRestKeeps
<1>3. FakeShape'
  BY <1>1 DEF FakeShape, passVars
<1>4. Idle'
  BY <1>1 DEF Idle, passVars
<1> QED BY <1>2, <1>3, <1>4 DEF FakeInv

LEMMA RunFailsKeeps ==
  ASSUME FakeInv, RunFails
  PROVE  FakeInv'
BY FatalKeeps DEF RunFails

LEMMA NextRoundKeeps ==
  ASSUME FakeInv, NextRound
  PROVE  FakeInv'
<1>1. /\ faked /\ run = "untilIdle" /\ UNCHANGED <<faked, tracked, foreign>>
  BY DEF NextRound, RoundOver
<1>2. CASE round < MaxRounds
  <2>1. PICK qs \in TrackedQueues : Call(qs, cancelled)
    BY <1>2 DEF NextRound
  <2>2. round' = round + 1 /\ UNCHANGED <<run, verdict>>
    BY <1>2 DEF NextRound
  <2>3. round' \in 0..MaxRounds
    BY <1>2, <2>2, RoundsAssumption DEF FakeInv, FakeShape
  <2>4. Roomy => verdict' # "idle"
    BY <1>1, <2>2 DEF FakeInv, Idle
  <2> QED BY <1>1, <2>1, <2>2, <2>3, <2>4, RoundKeeps
<1>3. CASE ~(round < MaxRounds)
  BY <1>1, <1>3, FatalKeeps DEF NextRound
<1> QED BY <1>2, <1>3

-----------------------------------------------------------------------------
(* The theorems.                                                           *)

LEMMA InvHoldsFirst ==
  ASSUME Init
  PROVE  FakeInv
<1>1. /\ jobs = EmptyStore /\ columns = EmptyStore /\ last = 0 /\ inMemory \in BOOLEAN /\ now = 0
      /\ phase = "idle" /\ queues = << >> /\ moves = 0 /\ batch = << >> /\ processed = 0
      /\ tries = 0 /\ results = << >> /\ outcome = "none"
      /\ due = EmptyStore /\ helped = {} /\ adrift = {} /\ failed = EmptyStore
      /\ faked = FALSE /\ tracked = {} /\ run = "none" /\ round = 0 /\ verdict = "none"
  BY DEF Init, ProcessInit
<1>2. DOMAIN jobs = {} /\ DOMAIN columns = {} /\ DOMAIN failed = {} /\ DOMAIN due = {}
  BY <1>1 DEF EmptyStore
<1>3. Shape
  <2>1. 0 \in Instant
    BY InstantRange DEF Instant
  <2> QED BY <1>1, <1>2, <2>1, Constants DEF Shape, ProcessTypeOK
<1>4. Claimed
  BY <1>1, <1>2 DEF Claimed
<1>5. Counted
  BY <1>1, Constants, NobodyRan DEF Counted, WithinBudget, RanIn
<1>6. Line = << >> /\ Lined = {} /\ Own = {}
  BY <1>1, <1>2, EmptyLine DEF Own
<1>7. Ordered /\ Complete
  BY <1>1, <1>6 DEF Ordered, Complete
<1>8. FakeShape
  <2>1. faked = FALSE /\ tracked = {} /\ run = "none" /\ round = 0 /\ verdict = "none"
    BY <1>1
  <2>2. 0 \in 0..MaxRounds
    BY RoundsAssumption
  <2> QED BY <2>1, <2>2 DEF FakeShape
<1>9. Idle
  BY <1>1 DEF Idle
<1> QED BY <1>3, <1>4, <1>5, <1>7, <1>8, <1>9 DEF FakeInv, PassInv

LEMMA InvIsKept ==
  ASSUME FakeInv, [Next]_vars
  PROVE  FakeInv'
<1>1. CASE (PassStep \/ Cancel) /\ UNCHANGED fakeVars
  BY <1>1, PassStepKeeps, CancelKeeps
<1>2. CASE Unfaked
  BY <1>2, UnfakedKeeps
<1>3. CASE Fake
  BY <1>3, FakeKeeps
<1>4. ASSUME NEW inserts \in Arrivals, EnqueueByClient(inserts) \/ EnqueueElsewhere(inserts)
      PROVE  FakeInv'
  BY <1>4, EnqueueKeeps
<1>5. CASE Advance \/ \E q \in Queues : TrackQueue(q)
  BY <1>5, TestKeeps
<1>6. CASE Reset
  BY <1>6, ResetKeeps
<1>7. ASSUME NEW kind \in {"ready", "untilIdle"}, NEW ended \in BOOLEAN, RunBegins(kind, ended)
      PROVE  FakeInv'
  BY <1>7, RunBeginsKeeps
<1>8. CASE RunFails
  BY <1>8, RunFailsKeeps
<1>9. CASE RunEnds
  BY <1>9, RunEndsKeeps
<1>10. CASE NextRound
  BY <1>10, NextRoundKeeps
<1>11. CASE UNCHANGED vars
  <2>1. UNCHANGED passVars /\ UNCHANGED fakeVars
    BY <1>11 DEF vars
  <2>2. PassInv' /\ Line' = Line
    BY <2>1, AtRestKeeps DEF FakeInv
  <2> QED BY <2>1, <2>2 DEF FakeInv, FakeShape, Idle, Quiet, Waits, passVars
<1> QED BY <1>1, <1>2, <1>3, <1>4, <1>5, <1>6, <1>7, <1>8, <1>9, <1>10, <1>11 DEF Next

LEMMA InvHolds == Spec => []FakeInv
BY InvHoldsFirst, InvIsKept, PTL DEF Spec

\* What the pass has run stands first in the line.
LEMMA ResultsInLine ==
  ASSUME Shape
  PROVE  /\ Len(results) \in Nat /\ DOMAIN results = 1..Len(results)
         /\ \A k \in DOMAIN results : k \in DOMAIN Line /\ Line[k] = results[k].id
         /\ phase = "idle" => DOMAIN Line = DOMAIN results
<1>1. results \in Seq(RanRecord) /\ batch \in Seq(ClaimRecord)
  BY DEF Shape
<1>2. /\ Len(results) \in Nat /\ Len(batch) \in Nat /\ DOMAIN results = 1..Len(results)
      /\ DOMAIN Line = 1..(Len(results) + Len(batch))
  BY <1>1 DEF Line
<1>3. \A k \in 1..Len(results) : /\ k \in 1..(Len(results) + Len(batch))
                                 /\ Line[k] = results[k].id
  BY <1>2 DEF Line
<1>4. ASSUME phase = "idle" PROVE DOMAIN Line = DOMAIN results
  <2>1. batch = << >>
    BY <1>4 DEF Shape, ProcessTypeOK
  <2>2. Len(batch) = 0 /\ Len(results) + 0 = Len(results)
    BY <1>2, <2>1
  <2> QED BY <1>2, <2>2
<1>5. \A k \in DOMAIN results : k \in DOMAIN Line
  BY <1>2, <1>3
<1> QED BY <1>2, <1>3, <1>4, <1>5

\* The variables keep their types: the passes stay within their limits and a run
\* is only made on a client that was faked (process.go, fake.go).
THEOREM TypeCorrect == Spec => []TypeOK
<1>1. FakeInv => TypeOK
  BY DEF FakeInv, PassInv, Shape, FakeShape, TypeOK
<1> QED BY <1>1, InvHolds, PTL

\* Whenever the call has returned, in whatever way, no job it claimed is still
\* running but those whose outcome was dropped or whose claim was lost.
THEOREM NothingIsLeftInFlight == Spec => []NothingInFlight
<1>1. ASSUME FakeInv PROVE NothingInFlight
  <2>1. phase = "idle" => Held = {}
    BY <1>1, NoneHeld DEF FakeInv, PassInv, Shape, ProcessTypeOK
  <2> QED BY <1>1, <2>1 DEF FakeInv, PassInv, Claimed, NothingInFlight
<1> QED BY <1>1, InvHolds, PTL

\* No queue gets more runs out of one pass than the budget and a batch, nor more
\* than the budget out of one that returns no error.
THEOREM BudgetIsKept == Spec => []WithinBudget
<1>1. FakeInv => WithinBudget
  BY DEF FakeInv, PassInv, Counted
<1> QED BY <1>1, InvHolds, PTL

\* The jobs of a queue that were due at the call run in the order of their
\* PriorityAt, batch after batch.
THEOREM DueJobsRunInOrder == Spec => []DueOrder
<1>1. ASSUME FakeInv PROVE DueOrder
  <2>1. Shape /\ Ordered
    BY <1>1 DEF FakeInv, PassInv
  <2>2. \A j, k \in DOMAIN results :
          j < k /\ {results[j].id, results[k].id} \subseteq Own
          /\ due[results[j].id].queue = due[results[k].id].queue
             => Precedes(due, results[j].id, results[k].id)
    BY <2>1, ResultsInLine DEF Ordered
  <2> QED BY <2>2 DEF DueOrder, Own
<1> QED BY <1>1, InvHolds, PTL

\* A pass that returns no error has run every job due at its call, and no pass
\* runs a job twice, as long as one promotion can reach every job there may be.
THEOREM DueJobsRunOnce ==
  ASSUME Roomy
  PROVE  Spec => []EachDueJobOnce
<1>1. ASSUME FakeInv PROVE EachDueJobOnce
  <2>1. Shape /\ Ordered /\ Complete
    BY <1>1 DEF FakeInv, PassInv
  <2>2. ASSUME outcome = "nil", NEW i \in DOMAIN due \ helped
        PROVE  \E k \in DOMAIN results : results[k].id = i
    <3>1. phase = "idle"
      BY <2>1, <2>2 DEF Shape
    <3>2. i \in Lined
      BY <2>1, <2>2 DEF Complete, Own
    <3>3. PICK k \in DOMAIN Line : Line[k] = i
      BY <3>2 DEF Lined, ToSet
    <3> QED BY <2>1, <3>1, <3>3, ResultsInLine
  <2>3. \A k, m \in DOMAIN results :
          k < m /\ results[k].id = results[m].id => results[k].id \in helped
    BY <2>1, ResultsInLine DEF Ordered
  <2> QED BY <2>2, <2>3 DEF EachDueJobOnce
<1> QED BY <1>1, InvHolds, PTL

\* A run that came to rest has left nothing of its client's to run.
THEOREM IdleIsIdle ==
  ASSUME Roomy
  PROVE  Spec => []IdleMeansIdle
<1>1. FakeInv => IdleMeansIdle
  BY DEF FakeInv, Idle, Quiet, Waits, IdleMeansIdle
<1> QED BY <1>1, InvHolds, PTL

-----------------------------------------------------------------------------
(* Waiting between attempts.                                               *)

\* A policy keeps its promise after failed attempt n.
KeepsPromise(p, n) ==
    /\ ShortestWait(p, n) \in Int
    /\ \A d \in Delay(p, n) : d \in Int /\ d >= ShortestWait(p, n)

\* The columns an enqueue may store with a job.
StoredColumns(column) ==
    \E id \in 1..MaxID : \E inserts \in InsertsFor[id] : \E k \in DOMAIN inserts :
        column = Columns(Resolved(inserts)[k])

\* So do those of the jobs that may be enqueued, after each attempt that may fail
\* and not be the last.
PromisesKept ==
    \A column : StoredColumns(column) =>
        \A n \in Nat \ {0} : ~(n >= column.maxAttempts)
                                => KeepsPromise(PolicyOr(column.policy), n)

\* The instant before which failed job i may not be claimed again.
Earliest(i) == failed[i].at + ShortestWait(PolicyOr(columns[i].policy), failed[i].attempt)

Waiting == {Scheduled, Retryable, Available}

\* Attempts are counted up by a claim and down by a snooze of the claimed.
Attempted ==
    /\ \A i \in DOMAIN jobs : /\ jobs[i].attempt >= 0
                              /\ jobs[i].state = Running => jobs[i].attempt >= 1
                              /\ StoredColumns(columns[i])
    /\ \A k \in DOMAIN batch : batch[k].attempt >= 1

\* A failed job that waits does so until its instant, one that runs has done so.
FailedWait ==
    \A i \in DOMAIN jobs \intersect DOMAIN failed :
        /\ Earliest(i) \in Int
        /\ jobs[i].state \in Waiting => jobs[i].scheduledAt >= Earliest(i)
        /\ jobs[i].state = Running => now >= Earliest(i)

\* The outcome being recorded will let its job wait, if it is taken at all.
OpWaits ==
    phase = "recording" /\ Live(jobs, op) =>
        LET wait == ShortestWait(PolicyOr(columns[op.id].policy), op.attempt)
        IN  /\ op.kind = "retry" /\ op.byPolicy =>
                  op.made \in Int /\ wait \in Int /\ op.at >= op.made + wait
            /\ op.kind \in {"retry", "snooze"} /\ ~(op.kind = "retry" /\ op.byPolicy)
                  /\ op.id \in DOMAIN failed => op.at >= Earliest(op.id)

WaitInv == Attempted /\ FailedWait /\ OpWaits

\* Steps that neither claim a job nor decide on one.
Placid ==
    /\ now' \in Int /\ now' >= now
    /\ \A i \in DOMAIN jobs' \ DOMAIN jobs :
          /\ i \notin DOMAIN failed' /\ StoredColumns(columns'[i])
          /\ jobs'[i].attempt = 0 /\ jobs'[i].state # Running
    /\ \A i \in DOMAIN jobs' \intersect DOMAIN jobs :
          /\ columns'[i] = columns[i]
          /\ jobs'[i].attempt = jobs[i].attempt /\ jobs'[i].generation = jobs[i].generation
          /\ jobs'[i].state = Running => jobs[i].state = Running
          /\ i \in DOMAIN failed' =>
                /\ i \in DOMAIN failed /\ failed'[i] = failed[i]
                /\ jobs'[i].scheduledAt = jobs[i].scheduledAt
                /\ jobs'[i].state \in Waiting => jobs[i].state \in Waiting
    /\ phase' = "recording" => phase = "recording" /\ op' = op /\ DOMAIN jobs' \subseteq DOMAIN jobs
    /\ \A k \in DOMAIN batch' : \E m \in DOMAIN batch : batch'[k] = batch[m]

LEMMA PlacidKeeps ==
  ASSUME Shape, WaitInv, Placid
  PROVE  WaitInv'
<1>1. Attempted /\ FailedWait /\ OpWaits /\ now \in Int
  BY StoreOK DEF WaitInv
<1>2. Attempted'
  <2>1. ASSUME NEW i \in DOMAIN jobs'
        PROVE  /\ jobs'[i].attempt >= 0
               /\ jobs'[i].state = Running => jobs'[i].attempt >= 1
               /\ StoredColumns(columns'[i])
    <3>1. CASE i \in DOMAIN jobs
      BY <1>1, <2>1, <3>1 DEF Placid, Attempted
    <3>2. CASE i \notin DOMAIN jobs
      BY <2>1, <3>2 DEF Placid
    <3> QED BY <3>1, <3>2
  <2>2. \A k \in DOMAIN batch' : batch'[k].attempt >= 1
    BY <1>1 DEF Placid, Attempted
  <2>3. (\A i \in DOMAIN jobs : /\ jobs[i].attempt >= 0
                                /\ jobs[i].state = Running => jobs[i].attempt >= 1
                                /\ StoredColumns(columns[i]))'
    BY <2>1 DEF StoredColumns, Resolved
  <2> QED BY <2>2, <2>3 DEF Attempted
<1>3. ASSUME NEW i \in DOMAIN jobs' \intersect DOMAIN failed'
      PROVE  /\ i \in DOMAIN jobs \intersect DOMAIN failed /\ Earliest(i)' = Earliest(i)
             /\ jobs'[i].state \in Waiting => jobs[i].state \in Waiting
             /\ jobs'[i].state = Running => jobs[i].state = Running
             /\ jobs'[i].scheduledAt = jobs[i].scheduledAt
  BY <1>3 DEF Placid, Earliest
<1>4. FailedWait'
  <2>1. ASSUME NEW i \in DOMAIN jobs' \intersect DOMAIN failed'
        PROVE  /\ Earliest(i)' \in Int
               /\ jobs'[i].state \in Waiting => jobs'[i].scheduledAt >= Earliest(i)'
               /\ jobs'[i].state = Running => now' >= Earliest(i)'
    <3>1. /\ Earliest(i) \in Int
          /\ jobs[i].state \in Waiting => jobs[i].scheduledAt >= Earliest(i)
          /\ jobs[i].state = Running => now >= Earliest(i)
      BY <1>1, <1>3 DEF FailedWait
    <3>2. now' \in Int /\ now' >= now
      BY DEF Placid
    <3> QED BY <1>1, <1>3, <3>1, <3>2
  <2> QED BY <2>1 DEF FailedWait
<1>5. OpWaits'
  <2> SUFFICES ASSUME phase' = "recording", Live(jobs, op)' PROVE OpWaits'
    BY DEF OpWaits
  <2>1. phase = "recording" /\ op' = op /\ op.id \in DOMAIN jobs /\ op.id \in DOMAIN jobs'
    BY DEF Placid, Live
  <2>2. Live(jobs, op) /\ columns'[op.id] = columns[op.id]
    BY <2>1 DEF Placid, Live
  <2>3. op.id \in DOMAIN failed' => op.id \in DOMAIN failed /\ Earliest(op.id)' = Earliest(op.id)
    BY <1>3, <2>1
  <2> QED BY <1>1, <2>1, <2>2, <2>3 DEF OpWaits
<1> QED BY <1>2, <1>4, <1>5 DEF WaitInv

\* Steps that leave the rows, and what is known of them, alone.
LEMMA RowsAlone ==
  ASSUME Shape, UNCHANGED <<jobs, columns, now, failed>>,
         phase' = "recording" => phase = "recording" /\ op' = op,
         batch' = batch \/ batch' = << >> \/ (batch # << >> /\ batch' = Tail(batch))
  PROVE  Placid
<1>1. now' \in Int /\ now' >= now
  BY StoreOK
<1>2. \A k \in DOMAIN batch' : \E m \in DOMAIN batch : batch'[k] = batch[m]
  <2>1. CASE batch # << >> /\ batch' = Tail(batch)
    BY <2>1, HeadOfBatch
  <2>2. CASE batch' = batch \/ batch' = << >>
    BY <2>2
  <2> QED BY <2>1, <2>2
<1> QED BY <1>1, <1>2 DEF Placid

LEMMA EnqueueIsPlacid ==
  ASSUME PassInv, NEW inserts \in Arrivals, EnqueueMany(inserts), phase # "recording"
  PROVE  Placid
<1> DEFINE reqs == Stored(inserts)
           new  == (last + 1)..(last + Len(reqs))
<1>1. Shape /\ last \in Nat /\ MaxID \in Nat
  BY StoreOK, Constants DEF PassInv
<1>2. /\ Len(reqs) \in Nat /\ DOMAIN reqs = 1..Len(reqs)
  BY <1>1, StoredOK
<1>3. /\ last + Len(reqs) <= MaxID
      /\ jobs' = Insert(jobs, last, reqs, now)
      /\ columns' = [i \in DOMAIN jobs \union new |->
                        IF i \in new THEN Columns(Resolved(inserts)[i - last]) ELSE columns[i]]
      /\ UNCHANGED <<now, phase, batch, op, failed>>
  BY DEF EnqueueMany
<1>4. DOMAIN reqs \subseteq DOMAIN Resolved(inserts) /\ DOMAIN Resolved(inserts) = DOMAIN inserts
  BY DEF Stored, Resolved
<1> HIDE DEF reqs
<1>5. \A i \in DOMAIN jobs : i \notin new /\ jobs'[i] = jobs[i] /\ columns'[i] = columns[i]
  BY <1>1, <1>2, <1>3, StoreOK DEF Insert
<1>6. ASSUME NEW i \in DOMAIN jobs' \ DOMAIN jobs
      PROVE  /\ i \notin DOMAIN failed' /\ StoredColumns(columns'[i])
             /\ jobs'[i].attempt = 0 /\ jobs'[i].state # Running
  <2>1. i \in new /\ i - last \in DOMAIN reqs
    BY <1>1, <1>2, <1>3 DEF Insert
  <2>2. i \notin DOMAIN failed'
    BY <1>1, <1>2, <1>3, <2>1, StoreOK
  <2>3. jobs'[i] = NewRow(reqs[i - last], now)
    BY <1>3, <1>6, <2>1 DEF Insert
  <2>4. columns'[i] = Columns(Resolved(inserts)[i - last]) /\ i - last \in DOMAIN inserts
    BY <1>3, <1>4, <2>1
  <2>5. inserts \in InsertsFor[last + 1] /\ last + 1 \in 1..MaxID
    BY <1>1 DEF Arrivals
  <2>6. StoredColumns(columns'[i])
    BY <2>4, <2>5 DEF StoredColumns
  <2> QED BY <2>2, <2>3, <2>6 DEF NewRow, Running, Scheduled, Available
<1>7. now' \in Int /\ now' >= now
  BY <1>1, <1>3, StoreOK
<1> QED BY <1>3, <1>5, <1>6, <1>7 DEF Placid

\* Promoting jobs changes none of their instants.
LEMMA PromotionIsPlacid ==
  ASSUME Shape, NEW ids \in SUBSET Due(jobs, now), jobs' = MakeAvailable(jobs, ids),
         UNCHANGED <<columns, now, failed>>,
         phase' = "recording" => phase = "recording" /\ op' = op,
         batch' = batch \/ batch' = << >>
  PROVE  Placid
<1>1. /\ now \in Int /\ now' = now /\ DOMAIN jobs' = DOMAIN jobs
      /\ \A i \in DOMAIN jobs : jobs[i] \in JobRow
  BY StoreOK DEF MakeAvailable
<1>2. ASSUME NEW i \in DOMAIN jobs
      PROVE  /\ jobs'[i].attempt = jobs[i].attempt /\ jobs'[i].generation = jobs[i].generation
             /\ jobs'[i].scheduledAt = jobs[i].scheduledAt
             /\ jobs'[i].state = Running => jobs[i].state = Running
             /\ jobs'[i].state \in Waiting => jobs[i].state \in Waiting
  <2>1. CASE i \in ids
    <3>1. jobs'[i] = [jobs[i] EXCEPT !.state = Available] /\ jobs[i].state \in {Scheduled, Retryable}
      BY <2>1 DEF MakeAvailable, Due
    <3>2. DOMAIN jobs[i] = {"queue", "boost", "state", "scheduledAt", "priorityAt", "attempt",
             "generation", "heartbeatAt", "finalizedAt", "cancelRequested", "snoozes", "errors"}
      BY <1>1 DEF JobRow
    <3> QED BY <3>1, <3>2 DEF Waiting, Available, Running
  <2>2. CASE i \notin ids
    BY <2>2 DEF MakeAvailable
  <2> QED BY <2>1, <2>2
<1>3. \A k \in DOMAIN batch' : \E m \in DOMAIN batch : batch'[k] = batch[m]
  OBVIOUS
<1> QED BY <1>1, <1>2, <1>3 DEF Placid

LEMMA OthersArePlacid ==
  ASSUME Shape, Others
  PROVE  Placid
<1>1. now \in Int
  BY StoreOK
<1>2. PICK i \in DOMAIN jobs : OthersRescue(i) \/ OthersMove(i)
  BY DEF Others
<1>3. jobs[i] \in JobRow
  BY StoreOK
<1>4. CASE OthersRescue(i)
  <2>1. /\ jobs' = Rescue(jobs, {i}, now) /\ failed' = Delete(failed, {i})
        /\ UNCHANGED <<columns, now, phase, batch, op>>
        /\ jobs[i].state = Running
    BY <1>4 DEF OthersRescue, Stale
  <2>2. /\ DOMAIN jobs' = DOMAIN jobs /\ jobs'[i] = RescueRow(jobs[i], now)
        /\ \A j \in DOMAIN jobs \ {i} : jobs'[j] = jobs[j]
    BY <1>2, <2>1 DEF Rescue
  <2>3. /\ jobs'[i].attempt = jobs[i].attempt /\ jobs'[i].generation = jobs[i].generation
        /\ jobs'[i].state = Retryable
    <3>1. DOMAIN jobs[i] = {"queue", "boost", "state", "scheduledAt", "priorityAt", "attempt",
             "generation", "heartbeatAt", "finalizedAt", "cancelRequested", "snoozes", "errors"}
      BY <1>3 DEF JobRow
    <3> QED BY <2>2, <3>1 DEF RescueRow
  <2>4. DOMAIN failed' = DOMAIN failed \ {i} /\ \A j \in DOMAIN failed' : failed'[j] = failed[j]
    BY <2>1 DEF Delete
  <2> QED BY <1>1, <2>1, <2>2, <2>3, <2>4 DEF Placid, Retryable, Running
<1>5. CASE OthersMove(i)
  <2>1. /\ jobs' = MakeAvailable(jobs, {i})
        /\ UNCHANGED <<columns, now, phase, batch, op, failed>>
        /\ jobs[i].state \in {Scheduled, Retryable}
    BY <1>5 DEF OthersMove, Due
  <2>2. {i} \in SUBSET Due(jobs, now)
    BY <1>5 DEF OthersMove
  <2> QED BY <2>1, <2>2, PromotionIsPlacid
<1> QED BY <1>2, <1>4, <1>5

\* Only what is due is claimed.
LEMMA ClaimKeepsWaits ==
  ASSUME Shape, WaitInv, NEW queue, NEW ids \in SUBSET Claimable(jobs, queue, now),
         jobs' = Claim(jobs, ids, now), UNCHANGED <<columns, now, failed>>, phase' # "recording",
         \A k \in DOMAIN batch' : \E i \in ids : batch'[k].attempt = jobs'[i].attempt
  PROVE  /\ WaitInv' /\ DOMAIN jobs' = DOMAIN jobs
         /\ \A i \in DOMAIN jobs \intersect DOMAIN failed :
               jobs'[i].generation > jobs[i].generation => now >= Earliest(i)
<1>1. Attempted /\ FailedWait /\ now \in Int
  BY StoreOK DEF WaitInv
<1>2. /\ DOMAIN jobs' = DOMAIN jobs
      /\ \A i \in DOMAIN jobs : jobs'[i] = IF i \in ids THEN ClaimRow(jobs[i], now) ELSE jobs[i]
  BY DEF Claim
<1>3. ASSUME NEW i \in ids
      PROVE  /\ i \in DOMAIN jobs /\ jobs[i].state = Available /\ jobs[i].scheduledAt <= now
             /\ jobs'[i].state = Running /\ jobs'[i].attempt = jobs[i].attempt + 1
             /\ jobs[i].attempt \in Int /\ jobs[i].scheduledAt \in Int
  <2>1. i \in DOMAIN jobs /\ jobs[i].state = Available /\ jobs[i].scheduledAt <= now
    BY DEF Claimable
  <2>2. jobs[i] \in JobRow /\ now \in Instant
    BY <2>1, StoreOK
  <2>3. jobs[i].attempt \in Int /\ jobs[i].scheduledAt \in Int
    BY <2>2, Words DEF JobRow
  <2> QED BY <1>2, <2>1, <2>2, <2>3, ClaimedRow
<1>4. \A i \in DOMAIN jobs : jobs[i].generation \in Nat
  BY StoreOK DEF JobRow
<1>5. \A i \in ids \intersect DOMAIN failed : Earliest(i) \in Int /\ now >= Earliest(i)
  <2>1. \A i \in ids \intersect DOMAIN failed :
           Earliest(i) \in Int /\ jobs[i].scheduledAt >= Earliest(i)
    BY <1>1, <1>3 DEF FailedWait, Waiting
  <2> QED BY <1>1, <1>3, <2>1
<1>6. Attempted'
  <2>1. ASSUME NEW i \in DOMAIN jobs
        PROVE  /\ jobs'[i].attempt >= 0
               /\ jobs'[i].state = Running => jobs'[i].attempt >= 1
               /\ StoredColumns(columns[i])
    <3>1. /\ jobs[i].attempt >= 0 /\ StoredColumns(columns[i])
          /\ jobs[i].state = Running => jobs[i].attempt >= 1
      BY <1>1 DEF Attempted
    <3>2. CASE i \in ids
      BY <1>3, <3>1, <3>2
    <3>3. CASE i \notin ids
      BY <1>2, <3>1, <3>3
    <3> QED BY <3>2, <3>3
  <2>2. \A k \in DOMAIN batch' : batch'[k].attempt >= 1
    <3>1. \A i \in ids : jobs'[i].attempt >= 1
      BY <1>3, <2>1
    <3> QED BY <3>1
  <2>3. (\A i \in DOMAIN jobs : /\ jobs[i].attempt >= 0
                                /\ jobs[i].state = Running => jobs[i].attempt >= 1
                                /\ StoredColumns(columns[i]))'
    BY <1>2, <2>1 DEF StoredColumns, Resolved
  <2> QED BY <2>2, <2>3 DEF Attempted
<1>7. FailedWait'
  <2>1. ASSUME NEW i \in DOMAIN jobs \intersect DOMAIN failed
        PROVE  /\ Earliest(i) \in Int /\ Earliest(i)' = Earliest(i)
               /\ jobs'[i].state \in Waiting => jobs'[i].scheduledAt >= Earliest(i)
               /\ jobs'[i].state = Running => now >= Earliest(i)
    <3>1. Earliest(i)' = Earliest(i)
      BY DEF Earliest
    <3>2. CASE i \in ids
      BY <1>3, <1>5, <3>1, <3>2 DEF Waiting, Running, Scheduled, Retryable, Available
    <3>3. CASE i \notin ids
      BY <1>1, <1>2, <3>1, <3>3 DEF FailedWait
    <3> QED BY <3>2, <3>3
  <2> QED BY <1>2, <2>1 DEF FailedWait
<1>8. OpWaits'
  BY DEF OpWaits
<1>9. \A i \in DOMAIN jobs \intersect DOMAIN failed :
         jobs'[i].generation > jobs[i].generation => now >= Earliest(i)
  BY <1>2, <1>4, <1>5
<1> QED BY <1>2, <1>6, <1>7, <1>8, <1>9 DEF WaitInv

\* A worker that returns lets its job wait from now.
LEMMA WorkerReturnsKeepsWaits ==
  ASSUME PromisesKept, Shape, Claimed, WaitInv, NEW result \in Results, WorkerReturns(result)
  PROVE  WaitInv'
<1>1. Attempted /\ FailedWait /\ now \in Int
  BY StoreOK DEF WaitInv
<1>2. /\ phase = "working"
      /\ UNCHANGED <<jobs, columns, now, batch, failed>>
  BY DEF WorkerReturns
<1>3. batch # << >>
  BY <1>2 DEF Shape, ProcessTypeOK
<1>4. /\ Head(batch) = batch[1] /\ 1 \in DOMAIN batch /\ batch[1] \in ClaimRecord
  BY <1>3, HeadOfBatch
<1> DEFINE claim == batch[1]
           column == columns[claim.id]
           wait == ShortestWait(PolicyOr(column.policy), claim.attempt)
<1>5. PICK at \in Instants(claim, result) :
         op' = [kind       |-> Kind(claim, result),
                id         |-> claim.id,
                generation |-> claim.generation,
                attempt    |-> claim.attempt,
                snoozes    |-> IF result = "snooze" THEN claim.snoozes + 1 ELSE claim.snoozes,
                at         |-> at,
                message    |-> TRUE,
                byPolicy   |-> result = "error",
                made       |-> now]
  BY <1>4 DEF WorkerReturns
<1>6. /\ op'.kind = Kind(claim, result) /\ op'.id = claim.id /\ op'.attempt = claim.attempt
      /\ op'.at = at /\ op'.byPolicy = (result = "error") /\ op'.made = now
  BY <1>5
<1>7. /\ claim.attempt \in Nat \ {0} /\ claim.id \in DOMAIN jobs /\ StoredColumns(column)
  <2>1. claim.id \in DOMAIN jobs
    BY <1>4 DEF Claimed
  <2>2. claim.attempt >= 1 /\ claim.attempt \in Int
    BY <1>1, <1>4 DEF Attempted, ClaimRecord
  <2> QED BY <1>1, <2>1, <2>2 DEF Attempted
<1> HIDE DEF claim, column, wait
<1>8. ASSUME Kind(claim, result) = "retry", result = "error"
      PROVE  wait \in Int /\ at >= now + wait
  <2>1. ~(claim.attempt >= column.maxAttempts)
    BY <1>8 DEF Kind, column
  <2>2. KeepsPromise(PolicyOr(column.policy), claim.attempt)
    BY <1>7, <2>1 DEF PromisesKept
  <2>3. PICK d \in PolicyDelay(column.policy, claim.attempt) : at = now + d
    BY <1>5, <1>8 DEF Instants, column
  <2>4. d \in Int /\ d >= wait /\ wait \in Int
    BY <2>2, <2>3 DEF KeepsPromise, PolicyDelay, wait
  <2> QED BY <1>1, <2>3, <2>4
<1>9. ASSUME result # "error", Kind(claim, result) \in {"retry", "snooze"}
      PROVE  at \in Int /\ at >= now
  <2>1. result \in {"snooze", "retryAt"}
    BY <1>9 DEF Kind, Results
  <2>2. PICK d \in Delays : at = now + d
    BY <1>5, <2>1 DEF Instants
  <2> QED BY <1>1, <2>2, PassAssumption
<1>10. Kind(claim, result) = "snooze" => result # "error"
  BY DEF Kind
<1>11. Attempted' /\ FailedWait'
  <2>1. (\A i \in DOMAIN jobs : /\ jobs[i].attempt >= 0
                                /\ jobs[i].state = Running => jobs[i].attempt >= 1
                                /\ StoredColumns(columns[i]))'
    BY <1>1, <1>2 DEF Attempted, StoredColumns, Resolved
  <2>2. \A i : Earliest(i)' = Earliest(i)
    BY <1>2 DEF Earliest
  <2> QED BY <1>1, <1>2, <2>1, <2>2 DEF Attempted, FailedWait
<1>12. OpWaits'
  <2> SUFFICES ASSUME Live(jobs, op)' PROVE OpWaits'
    BY DEF OpWaits
  <2>1. jobs[claim.id].state = Running
    BY <1>2, <1>6 DEF Live
  <2>2. claim.id \in DOMAIN failed => Earliest(claim.id) \in Int /\ now >= Earliest(claim.id)
    BY <1>1, <1>7, <2>1 DEF FailedWait
  <2>3. Earliest(op.id)' = Earliest(claim.id)
    BY <1>2, <1>6 DEF Earliest
  <2>4. ShortestWait(PolicyOr(columns[op.id].policy), op.attempt)' = wait
    BY <1>2, <1>6 DEF wait, column
  <2>5. op'.kind = "retry" /\ op'.byPolicy => op'.made \in Int /\ wait \in Int /\ op'.at >= op'.made + wait
    BY <1>1, <1>6, <1>8
  <2>6. op'.kind \in {"retry", "snooze"} /\ ~(op'.kind = "retry" /\ op'.byPolicy)
          /\ claim.id \in DOMAIN failed => op'.at >= Earliest(claim.id)
    <3>1. op'.kind \in {"retry", "snooze"} /\ ~(op'.kind = "retry" /\ op'.byPolicy)
             => result # "error" /\ Kind(claim, result) \in {"retry", "snooze"}
      BY <1>6, <1>10
    <3>2. result # "error" /\ Kind(claim, result) \in {"retry", "snooze"} /\ claim.id \in DOMAIN failed
             => at >= Earliest(claim.id)
      BY <1>1, <1>9, <2>2
    <3> QED BY <1>6, <3>1, <3>2
  <2> QED BY <1>2, <1>6, <2>3, <2>4, <2>5, <2>6 DEF OpWaits
<1> QED BY <1>11, <1>12 DEF WaitInv

\* What a recorded outcome leaves of the attempt and the instants.
LEMMA AppliedWait ==
  ASSUME NEW row \in JobRow, NEW o, o.kind \in Outcomes, NEW new, new = Apply(row, o)
  PROVE  /\ new.state \in Waiting => new.state = Retryable /\ o.kind \in {"retry", "snooze"}
                                     /\ new.scheduledAt = o.at
         /\ new.state # Running
         /\ new.attempt = row.attempt \/ new.attempt = row.attempt - 1
<1>1. DOMAIN row = {"queue", "boost", "state", "scheduledAt", "priorityAt", "attempt",
             "generation", "heartbeatAt", "finalizedAt", "cancelRequested", "snoozes", "errors"}
  BY DEF JobRow
<1>2. CASE o.kind = "complete"
  BY <1>1, <1>2 DEF Apply, CompleteRow, Waiting, Scheduled, Retryable, Available, Running, Completed
<1>3. CASE o.kind = "cancel"
  BY <1>1, <1>3 DEF Apply, CancelRow, Waiting, Scheduled, Retryable, Available, Running, Cancelled
<1>4. CASE o.kind = "kill"
  BY <1>1, <1>4 DEF Apply, KillRow, Waiting, Scheduled, Retryable, Available, Running, Dead
<1>5. CASE o.kind = "retry"
  BY <1>1, <1>5 DEF Apply, RetryRow, Retryable, Running
<1>6. CASE o.kind = "snooze"
  BY <1>1, <1>6 DEF Apply, SnoozeRow, Retryable, Running
<1> QED BY <1>2, <1>3, <1>4, <1>5, <1>6 DEF Outcomes

\* A recorded outcome lets its job wait.
LEMMA RecordedKeepsWaits ==
  ASSUME Shape, Claimed, WaitInv, phase = "recording", Recorded,
         UNCHANGED <<columns, now>>, phase' = "recording" => op' = op,
         \A k \in DOMAIN batch' : \E m \in DOMAIN batch : batch'[k] = batch[m]
  PROVE  WaitInv'
<1>1. Attempted /\ FailedWait /\ OpWaits /\ now \in Int
  BY StoreOK DEF WaitInv
<1>2. op.id \in DOMAIN jobs
  BY CurrentJob
<1>3. /\ DOMAIN jobs' = DOMAIN jobs
      /\ \A i \in DOMAIN jobs : ~(i = op.id /\ Live(jobs, op)) => jobs'[i] = jobs[i]
      /\ Live(jobs, op) => jobs'[op.id] = Apply(jobs[op.id], op)
  BY <1>2, RecordedChange
<1>4. /\ jobs[op.id] \in JobRow /\ jobs[op.id].attempt \in Int
      /\ op.kind \in Outcomes /\ op.attempt \in Int
  BY <1>2, StoreOK DEF Shape, JobRow
<1>5. CASE ~Live(jobs, op)
  <2>1. UNCHANGED failed /\ \A i \in DOMAIN jobs : jobs'[i] = jobs[i]
    BY <1>3, <1>5 DEF Recorded
  <2>2. now' \in Int /\ now' >= now
    BY <1>1
  <2>3. Placid
    BY <1>3, <2>1, <2>2 DEF Placid
  <2> QED BY <2>3, PlacidKeeps
<1>6. CASE Live(jobs, op)
  <2>1. /\ jobs[op.id].state = Running /\ jobs[op.id].attempt >= 1
        /\ \A i \in DOMAIN jobs : i # op.id => jobs'[i] = jobs[i]
    BY <1>1, <1>2, <1>3, <1>6 DEF Live, Attempted
  <2>2. /\ jobs'[op.id].state \in Waiting =>
              op.kind \in {"retry", "snooze"} /\ jobs'[op.id].scheduledAt = op.at
        /\ jobs'[op.id].state # Running
        /\ jobs'[op.id].attempt = jobs[op.id].attempt \/ jobs'[op.id].attempt = jobs[op.id].attempt - 1
    BY <1>3, <1>4, <1>6, AppliedWait
  <2>3. Attempted'
    <3>1. ASSUME NEW i \in DOMAIN jobs
          PROVE  /\ jobs'[i].attempt >= 0
                 /\ jobs'[i].state = Running => jobs'[i].attempt >= 1
                 /\ StoredColumns(columns[i])
      <4>1. StoredColumns(columns[i])
        BY <1>1 DEF Attempted
      <4>2. CASE i = op.id
        BY <1>4, <2>1, <2>2, <4>1, <4>2
      <4>3. CASE i # op.id
        BY <1>1, <2>1, <4>1, <4>3 DEF Attempted
      <4> QED BY <4>2, <4>3
    <3>2. (\A i \in DOMAIN jobs : /\ jobs[i].attempt >= 0
                                  /\ jobs[i].state = Running => jobs[i].attempt >= 1
                                  /\ StoredColumns(columns[i]))'
      BY <1>3, <3>1 DEF StoredColumns, Resolved
    <3>3. \A k \in DOMAIN batch' : batch'[k].attempt >= 1
      BY <1>1 DEF Attempted
    <3> QED BY <3>2, <3>3 DEF Attempted
  <2>4. PICK id : id = op.id
    OBVIOUS
  <2>5. ASSUME NEW i \in DOMAIN failed', i # id
        PROVE  i \in DOMAIN failed /\ Earliest(i)' = Earliest(i)
    BY <1>6, <2>4, <2>5 DEF Recorded, Earliest
  <2>6. id \in DOMAIN failed' =>
          /\ Earliest(id)' \in Int
          /\ jobs'[id].state \in Waiting => jobs'[id].scheduledAt >= Earliest(id)'
    <3>1. CASE op.kind = "retry" /\ op.byPolicy
      <4> DEFINE wait == ShortestWait(PolicyOr(columns[op.id].policy), op.attempt)
      <4>1. failed'[id].at = op.made /\ failed'[id].attempt = op.attempt
        BY <1>6, <2>4, <3>1 DEF Recorded
      <4>2. Earliest(id)' = op.made + wait
        BY <2>4, <4>1 DEF Earliest
      <4>3. op.made \in Int /\ wait \in Int /\ op.at >= op.made + wait
        BY <1>1, <1>6, <3>1 DEF OpWaits
      <4> HIDE DEF wait
      <4> QED BY <2>2, <2>4, <4>2, <4>3
    <3>2. CASE ~(op.kind = "retry" /\ op.byPolicy)
      <4>1. UNCHANGED failed
        BY <3>2 DEF Recorded
      <4>2. Earliest(id)' = Earliest(id)
        BY <4>1 DEF Earliest
      <4>3. id \in DOMAIN failed =>
              /\ Earliest(id) \in Int
              /\ op.kind \in {"retry", "snooze"} => op.at >= Earliest(id)
        BY <1>1, <1>2, <1>6, <2>4, <3>2 DEF FailedWait, OpWaits
      <4> QED BY <2>2, <2>4, <4>1, <4>2, <4>3
    <3> QED BY <3>1, <3>2
  <2>7. FailedWait'
    <3>1. ASSUME NEW i \in DOMAIN jobs \intersect DOMAIN failed'
          PROVE  /\ Earliest(i)' \in Int
                 /\ jobs'[i].state \in Waiting => jobs'[i].scheduledAt >= Earliest(i)'
                 /\ jobs'[i].state = Running => now >= Earliest(i)'
      <4>1. CASE i = id
        BY <2>2, <2>4, <2>6, <3>1, <4>1
      <4>2. CASE i # id
        <5>1. i \in DOMAIN failed /\ Earliest(i)' = Earliest(i) /\ jobs'[i] = jobs[i]
          BY <2>1, <2>4, <2>5, <3>1, <4>2
        <5> QED BY <1>1, <3>1, <5>1 DEF FailedWait
      <4> QED BY <4>1, <4>2
    <3> QED BY <1>3, <3>1 DEF FailedWait
  <2>8. OpWaits'
    <3>1. phase' = "recording" => ~Live(jobs, op)'
      BY <2>2 DEF Live
    <3> QED BY <3>1 DEF OpWaits
  <2> QED BY <2>3, <2>7, <2>8 DEF WaitInv
<1> QED BY <1>5, <1>6

\* A step claims no failed job before its instant.
ClaimsInTime ==
    \A i \in DOMAIN jobs \intersect DOMAIN failed \intersect DOMAIN jobs' :
        jobs'[i].generation > jobs[i].generation => now >= Earliest(i)

LEMMA SameGenerations ==
  ASSUME Shape, \A i \in DOMAIN jobs \intersect DOMAIN jobs' :
                   jobs'[i].generation = jobs[i].generation
  PROVE  ClaimsInTime
<1>1. \A i \in DOMAIN jobs : jobs[i].generation \in Nat
  BY StoreOK DEF JobRow
<1> QED BY <1>1 DEF ClaimsInTime

LEMMA PlacidInTime ==
  ASSUME Shape, WaitInv, Placid
  PROVE  WaitInv' /\ ClaimsInTime
<1>1. \A i \in DOMAIN jobs \intersect DOMAIN jobs' : jobs'[i].generation = jobs[i].generation
  BY DEF Placid
<1> QED BY <1>1, PlacidKeeps, SameGenerations

LEMMA FetchInTime ==
  ASSUME Shape, WaitInv, Fetch \/ FetchFails
  PROVE  WaitInv' /\ ClaimsInTime
<1>1. queues # << >> /\ UNCHANGED <<columns, now, failed>>
  BY DEF Fetch, FetchFails
<1>2. Ready \subseteq Claimable(jobs, Head(queues), now) /\ IsFiniteSet(Ready)
  BY <1>1, ReadyOK
<1>3. ASSUME NEW ids \in SUBSET Claimable(jobs, Head(queues), now),
             jobs' = Claim(jobs, ids, now), phase' # "recording",
             \A k \in DOMAIN batch' : \E i \in ids : batch'[k].attempt = jobs'[i].attempt
      PROVE  WaitInv' /\ ClaimsInTime
  <2>1. /\ WaitInv' /\ DOMAIN jobs' = DOMAIN jobs
        /\ \A i \in DOMAIN jobs \intersect DOMAIN failed :
              jobs'[i].generation > jobs[i].generation => now >= Earliest(i)
    BY <1>1, <1>3, ClaimKeepsWaits
  <2> QED BY <2>1 DEF ClaimsInTime
<1>4. CASE Fetch
  <2>1. /\ jobs' = Claim(jobs, Ready, now) /\ phase' = "between"
        /\ batch' \in Claims(jobs', Ready)
    BY <1>4 DEF Fetch
  <2>2. PICK s \in SetToSeqs(Ready) : batch' = [k \in DOMAIN s |-> ClaimOf(jobs', s[k])]
    BY <2>1 DEF Claims
  <2>3. \A k \in DOMAIN s : s[k] \in Ready
    BY <1>2, Arrangement
  <2>4. \A k \in DOMAIN batch' : \E i \in Ready : batch'[k].attempt = jobs'[i].attempt
    BY <2>2, <2>3 DEF ClaimOf
  <2> QED BY <1>2, <1>3, <2>1, <2>4
<1>5. CASE FetchFails
  <2>1. PICK ids \in {{}, Ready} : jobs' = Claim(jobs, ids, now)
    BY <1>5 DEF FetchFails
  <2>2. phase' = "idle" /\ batch' = << >> /\ ids \subseteq Claimable(jobs, Head(queues), now)
    BY <1>2, <1>5 DEF FetchFails, Return
  <2> QED BY <1>3, <2>1, <2>2
<1> QED BY <1>4, <1>5

LEMMA RecordInTime ==
  ASSUME Shape, Claimed, WaitInv, RecordSucceeds \/ RecordRefused \/ RecordFails
  PROVE  WaitInv' /\ ClaimsInTime
<1>1. /\ phase = "recording" /\ batch # << >> /\ queues # << >>
      /\ op.id = batch[1].id /\ op.id \in Nat
  BY CurrentJob DEF RecordSucceeds, RecordRefused, RecordFails
<1>2. UNCHANGED <<columns, now, queues>>
  BY DEF RecordSucceeds, RecordRefused, RecordFails
<1>3. NextJob => phase' # "recording" /\ batch' = Tail(batch)
  <2>1. NextJob => batch' = Tail(batch)
    BY <1>1, <1>2, NextJobLine
  <2> QED BY <2>1 DEF NextJob, Return
<1>4. \/ NextJob
      \/ UNCHANGED <<phase, batch, op>>
  BY DEF RecordSucceeds, RecordRefused, RecordFails, Dropped
<1>5. CASE UNCHANGED <<jobs, failed>>
  <2>1. Placid
    BY <1>1, <1>2, <1>3, <1>4, <1>5, RowsAlone
  <2> QED BY <2>1, PlacidInTime
<1>6. CASE Recorded /\ Storable
  <2>1. \A k \in DOMAIN batch' : \E m \in DOMAIN batch : batch'[k] = batch[m]
    BY <1>1, <1>3, <1>4, HeadOfBatch
  <2>2. WaitInv'
    BY <1>1, <1>2, <1>3, <1>4, <1>6, <2>1, RecordedKeepsWaits
  <2>3. \A i \in DOMAIN jobs : jobs'[i].generation = jobs[i].generation
    BY <1>1, <1>6, RecordedRows DEF RowStep
  <2> QED BY <2>2, <2>3, SameGenerations
<1> QED BY <1>5, <1>6 DEF RecordSucceeds, RecordRefused, RecordFails

LEMMA PassStepInTime ==
  ASSUME PromisesKept, Shape, Claimed, WaitInv, PassStep
  PROVE  WaitInv' /\ ClaimsInTime
<1>1. CASE Move \/ MoveFails
  <2>1. PICK ids \in {{}} \union UpTo(MoveDueBatch, Due(jobs, now)) : jobs' = MakeAvailable(jobs, ids)
    BY <1>1 DEF Move, MoveFails
  <2>2. ids \in SUBSET Due(jobs, now)
    BY DEF UpTo
  <2>3. /\ UNCHANGED <<columns, now, failed>> /\ phase' # "recording"
        /\ batch' = batch \/ batch' = << >>
    BY <1>1 DEF Move, MoveFails, Return
  <2> QED BY <2>1, <2>2, <2>3, PromotionIsPlacid, PlacidInTime
<1>2. CASE Fetch \/ FetchFails
  BY <1>2, FetchInTime
<1>3. CASE Drained \/ StopAtFetch \/ ReturnResults \/ RunJob
  <2>1. /\ UNCHANGED <<jobs, columns, now, failed>> /\ phase' # "recording"
        /\ batch' = batch \/ batch' = << >>
    BY <1>3 DEF Drained, StopAtFetch, ReturnResults, RunJob, Return
  <2> QED BY <2>1, RowsAlone, PlacidInTime
<1>4. ASSUME NEW result \in Results, WorkerReturns(result)
      PROVE  WaitInv' /\ ClaimsInTime
  <2>1. UNCHANGED jobs
    BY <1>4 DEF WorkerReturns
  <2> QED BY <1>4, <2>1, WorkerReturnsKeepsWaits, SameGenerations
<1>5. CASE RecordSucceeds \/ RecordRefused \/ RecordFails
  BY <1>5, RecordInTime
<1> QED BY <1>1, <1>2, <1>3, <1>4, <1>5 DEF PassStep

LEMMA NextInTime ==
  ASSUME PromisesKept, FakeInv, WaitInv, [Next]_vars
  PROVE  WaitInv' /\ ClaimsInTime
<1>1. PassInv /\ Shape /\ Claimed
  BY DEF FakeInv, PassInv
<1>2. CASE PassStep
  BY <1>1, <1>2, PassStepInTime
<1>3. ASSUME \/ Cancel \/ Fake \/ RunFails \/ RunEnds \/ UNCHANGED vars
             \/ \E q \in Queues : TrackQueue(q)
             \/ \E qs, ended : Call(qs, ended)
      PROVE  WaitInv' /\ ClaimsInTime
  <2>1. /\ UNCHANGED <<jobs, columns, now, failed>>
        /\ phase' = "recording" => phase = "recording" /\ op' = op
        /\ batch' = batch \/ batch' = << >>
    BY <1>3 DEF Cancel, Fake, ForgetPass, RunFails, RunEnds, TrackQueue, Call, vars, passVars
  <2> QED BY <1>1, <2>1, RowsAlone, PlacidInTime
<1>4. CASE Tick
  <2>1. /\ now' \in Int /\ now' >= now /\ UNCHANGED <<jobs, columns, phase, batch, op, failed>>
    BY <1>1, <1>4, StoreOK DEF Tick
  <2>2. Placid
    BY <2>1 DEF Placid
  <2> QED BY <1>1, <2>2, PlacidInTime
<1>5. CASE Others
  BY <1>1, <1>5, OthersArePlacid, PlacidInTime
<1>6. ASSUME NEW inserts \in Arrivals, EnqueueByClient(inserts) \/ EnqueueElsewhere(inserts)
      PROVE  WaitInv' /\ ClaimsInTime
  <2>1. EnqueueMany(inserts) /\ phase # "recording"
    BY <1>6 DEF EnqueueByClient, EnqueueElsewhere, AtRest
  <2> QED BY <1>1, <2>1, EnqueueIsPlacid, PlacidInTime
<1>7. CASE Reset
  <2>1. /\ DOMAIN jobs' = {} /\ phase' # "recording" /\ UNCHANGED <<now, batch, failed>>
    BY <1>7 DEF Reset, AtRest, EmptyStore
  <2>2. Placid
    BY <1>1, <2>1, StoreOK DEF Placid
  <2> QED BY <1>1, <2>2, PlacidInTime
<1>8. Unfaked => Tick \/ Others \/ \E qs, ended : Call(qs, ended)
  BY DEF Unfaked, Pass
<1>9. \A kind, ended : RunBegins(kind, ended) => \E qs : Call(qs, ended)
  BY DEF RunBegins
<1>10. NextRound => (\E qs, ended : Call(qs, ended)) \/ UNCHANGED passVars
  BY DEF NextRound
<1>11. CASE UNCHANGED passVars
  <2>1. /\ UNCHANGED <<jobs, columns, now, failed, phase, op, batch>>
    BY <1>11 DEF passVars
  <2> QED BY <1>1, <2>1, RowsAlone, PlacidInTime
<1> QED BY <1>2, <1>3, <1>4, <1>5, <1>6, <1>7, <1>8, <1>9, <1>10, <1>11 DEF Next, Advance

LEMMA WaitHoldsFirst ==
  ASSUME Init
  PROVE  WaitInv
<1>1. DOMAIN jobs = {} /\ batch = << >> /\ phase = "idle"
  BY DEF Init, ProcessInit, EmptyStore
<1> QED BY <1>1 DEF WaitInv, Attempted, FailedWait, OpWaits

\* From the failure of an attempt to the claim of the next, a job waits what its
\* policy promises, if the policies keep their promises one by one.
LEMMA WaitsOfPromises ==
  ASSUME PromisesKept
  PROVE  Spec => NoEarlyRetry
<1>1. FakeInv /\ WaitInv /\ [Next]_vars => WaitInv'
  BY NextInTime
<1>2. FakeInv /\ WaitInv /\ [Next]_vars =>
        [\A i \in DOMAIN jobs \intersect DOMAIN failed \intersect DOMAIN jobs' :
          jobs'[i].generation > jobs[i].generation
              => now >= failed[i].at
                          + ShortestWait(PolicyOr(columns[i].policy), failed[i].attempt)]_passVars
  BY NextInTime DEF ClaimsInTime, Earliest
<1> QED BY <1>1, <1>2, InvHolds, WaitHoldsFirst, PTL DEF Spec, NoEarlyRetry

-----------------------------------------------------------------------------
(* The policies keep their promises.  What a doubling loop computes is a    *)
(* recursive function of the numbers, so first: numbers have least elements *)
(* and a function can be defined step by step.                              *)

LEMMA LeastNatural ==
  ASSUME NEW T \in SUBSET Nat, T # {}
  PROVE  \E t \in T : \A u \in T : t <= u
<1> DEFINE R == OpToRel(<, Nat)
<1>1. \A m, n \in Nat : <<m, n>> \in R <=> m < n
  BY DEF OpToRel
<1>2. IsWellFoundedOn(R, Nat)
  BY NatLessThanWellFounded
<1> HIDE DEF R
<1>3. PICK t \in T : \A u \in T : ~(<<u, t>> \in R)
  BY <1>2, WFMin
<1>4. ASSUME NEW u \in T PROVE t <= u
  <2>1. t \in Nat /\ u \in Nat /\ ~(<<u, t>> \in R)
    BY <1>3
  <2> QED BY <1>1, <2>1
<1> QED BY <1>4

\* The values up to n of the function that is a at 0 and follows g from there.
FirstValues(a, g, n, f) ==
    /\ f \in [0..n -> Int] /\ f[0] = a
    /\ \A k \in 1..n : f[k] = g[<<k, f[k - 1]>>]

LEMMA FirstValuesExist ==
  ASSUME NEW a \in Int, NEW g \in [Nat \X Int -> Int]
  PROVE  \A n \in Nat : \E f : FirstValues(a, g, n, f)
<1> DEFINE T == {n \in Nat : ~\E f : FirstValues(a, g, n, f)}
<1> SUFFICES ASSUME T # {} PROVE FALSE
  OBVIOUS
<1>1. PICK n \in T : \A u \in T : n <= u
  <2>1. T \in SUBSET Nat
    OBVIOUS
  <2> HIDE DEF T
  <2> QED BY <2>1, LeastNatural
<1>2. n \in Nat /\ ~\E f : FirstValues(a, g, n, f)
  OBVIOUS
<1>3. CASE n = 0
  <2>1. FirstValues(a, g, 0, [k \in 0..0 |-> a])
    BY DEF FirstValues
  <2> QED BY <1>2, <1>3, <2>1
<1>4. CASE n # 0
  <2>1. n - 1 \in Nat /\ n - 1 \notin T
    BY <1>1, <1>2, <1>4
  <2>2. PICK f : FirstValues(a, g, n - 1, f)
    BY <2>1
  <2> DEFINE h == [k \in 0..n |-> IF k = n THEN g[<<n, f[n - 1]>>] ELSE f[k]]
  <2>3. f[n - 1] \in Int /\ g[<<n, f[n - 1]>>] \in Int
    BY <1>2, <2>1, <2>2 DEF FirstValues
  <2>4. h \in [0..n -> Int]
    <3>1. \A k \in 0..n : k # n => k \in 0..(n - 1)
      BY <1>2
    <3> QED BY <2>2, <2>3, <3>1 DEF FirstValues
  <2>5. h[0] = a
    BY <1>2, <1>4, <2>2 DEF FirstValues
  <2>6. ASSUME NEW k \in 1..n PROVE h[k] = g[<<k, h[k - 1]>>]
    <3>1. k - 1 \in 0..n /\ k - 1 # n /\ k \in 0..n /\ h[k - 1] = f[k - 1]
      BY <1>2
    <3>2. CASE k = n
      BY <3>1, <3>2
    <3>3. CASE k # n
      <4>1. k \in 1..(n - 1)
        BY <1>2, <3>3
      <4> QED BY <2>2, <3>1, <3>3, <4>1 DEF FirstValues
    <3> QED BY <3>2, <3>3
  <2>7. FirstValues(a, g, n, h)
    <3> HIDE DEF h
    <3> QED BY <2>4, <2>5, <2>6 DEF FirstValues
  <2> QED BY <1>2, <2>7
<1> QED BY <1>3, <1>4

LEMMA FirstValuesAgree ==
  ASSUME NEW a, NEW g, NEW n \in Nat, NEW m \in Nat, NEW f, NEW h,
         FirstValues(a, g, n, f), FirstValues(a, g, m, h)
  PROVE  \A k \in 0..n : k <= m => f[k] = h[k]
<1> DEFINE T == {k \in 0..n : k <= m /\ f[k] # h[k]}
<1> SUFFICES ASSUME T # {} PROVE FALSE
  OBVIOUS
<1>1. PICK k \in T : \A u \in T : k <= u
  <2>1. T \in SUBSET Nat
    OBVIOUS
  <2> HIDE DEF T
  <2> QED BY <2>1, LeastNatural
<1>2. k \in 0..n /\ k <= m /\ f[k] # h[k]
  OBVIOUS
<1>3. k # 0
  BY <1>2 DEF FirstValues
<1>4. k - 1 \in 0..n /\ k - 1 <= m /\ k \in 1..n /\ k \in 1..m /\ ~(k <= k - 1)
  BY <1>2, <1>3
<1>5. f[k - 1] = h[k - 1]
  BY <1>1, <1>4
<1>6. f[k] = g[<<k, f[k - 1]>>] /\ h[k] = g[<<k, h[k - 1]>>]
  BY <1>4 DEF FirstValues
<1> QED BY <1>2, <1>5, <1>6

LEMMA StepByStep ==
  ASSUME NEW a \in Int, NEW g \in [Nat \X Int -> Int]
  PROVE  \E d \in [Nat -> Int] : /\ d[0] = a
                                 /\ \A k \in Nat \ {0} : d[k] = g[<<k, d[k - 1]>>]
<1> DEFINE values(n) == CHOOSE f : FirstValues(a, g, n, f)
           d == [n \in Nat |-> values(n)[n]]
<1>1. \A n \in Nat : FirstValues(a, g, n, values(n))
  BY FirstValuesExist
<1> HIDE DEF values
<1>2. d \in [Nat -> Int] /\ d[0] = a
  <2>1. \A n \in Nat : values(n)[n] \in Int
    BY <1>1 DEF FirstValues
  <2> QED BY <1>1, <2>1 DEF FirstValues
<1>3. ASSUME NEW k \in Nat \ {0} PROVE d[k] = g[<<k, d[k - 1]>>]
  <2>1. k - 1 \in Nat /\ k - 1 \in 0..(k - 1) /\ k - 1 <= k /\ k \in 1..k
    OBVIOUS
  <2>2. values(k - 1)[k - 1] = values(k)[k - 1]
    BY <1>1, <2>1, FirstValuesAgree
  <2>3. values(k)[k] = g[<<k, values(k)[k - 1]>>]
    BY <1>1, <2>1 DEF FirstValues
  <2> QED BY <2>1, <2>2, <2>3
<1> QED BY <1>2, <1>3

LEMMA PowersOfTwo ==
  /\ PowerOfTwo \in [Nat -> Int] /\ PowerOfTwo[0] = 1
  /\ \A k \in Nat \ {0} : PowerOfTwo[k] = 2 * PowerOfTwo[k - 1]
<1> DEFINE Body(f) == [k \in Nat |-> IF k = 0 THEN 1 ELSE 2 * f[k - 1]]
           g == [x \in Nat \X Int |-> 2 * x[2]]
<1>1. PowerOfTwo = CHOOSE f : f = Body(f)
  BY DEF PowerOfTwo
<1>2. g \in [Nat \X Int -> Int]
  OBVIOUS
<1>3. PICK d \in [Nat -> Int] : /\ d[0] = 1
                                /\ \A k \in Nat \ {0} : d[k] = g[<<k, d[k - 1]>>]
  <2>1. 1 \in Int
    OBVIOUS
  <2> HIDE DEF g
  <2> QED BY ONLY <1>2, <2>1, StepByStep
<1>4. d = Body(d)
  <2>1. \A k \in Nat \ {0} : k - 1 \in Nat /\ d[k] = 2 * d[k - 1]
    <3>1. \A k \in Nat \ {0} : k - 1 \in Nat /\ d[k - 1] \in Int
      BY <1>3
    <3>2. \A k \in Nat, x \in Int : g[<<k, x>>] = 2 * x
      OBVIOUS
    <3> HIDE DEF g
    <3> QED BY <1>3, <3>1, <3>2
  <2> QED BY <1>3, <2>1
<1> HIDE DEF Body
<1>5. PowerOfTwo = Body(PowerOfTwo)
  BY <1>1, <1>4
<1>6. \A k \in Nat : PowerOfTwo[k] = IF k = 0 THEN 1 ELSE 2 * PowerOfTwo[k - 1]
  BY <1>5 DEF Body
<1>7. PowerOfTwo \in [Nat -> Int]
  <2>1. DOMAIN PowerOfTwo = Nat /\ PowerOfTwo = [k \in DOMAIN PowerOfTwo |-> PowerOfTwo[k]]
    BY <1>5 DEF Body
  <2> DEFINE T == {k \in Nat : PowerOfTwo[k] \notin Int}
  <2>2. T = {}
    <3> SUFFICES ASSUME T # {} PROVE FALSE
      OBVIOUS
    <3>1. PICK k \in T : \A u \in T : k <= u
      <4>1. T \in SUBSET Nat
        OBVIOUS
      <4> HIDE DEF T
      <4> QED BY <4>1, LeastNatural
    <3>2. k \in Nat /\ PowerOfTwo[k] \notin Int /\ k # 0
      BY <1>6
    <3>3. k - 1 \in Nat /\ ~(k <= k - 1)
      BY <3>2
    <3>4. PowerOfTwo[k - 1] \in Int
      BY <3>1, <3>3
    <3> QED BY <1>6, <3>2, <3>4
  <2> QED BY <2>1, <2>2
<1> QED BY <1>6, <1>7

LEMMA PowersGrow ==
  \A k \in Nat : /\ PowerOfTwo[k] >= 1
                 /\ \A m \in Nat : k <= m => PowerOfTwo[k] <= PowerOfTwo[m]
<1>1. /\ \A k \in Nat : PowerOfTwo[k] \in Int
      /\ PowerOfTwo[0] = 1
      /\ \A k \in Nat \ {0} : PowerOfTwo[k] = 2 * PowerOfTwo[k - 1]
  BY PowersOfTwo
<1>2. \A k \in Nat : PowerOfTwo[k] >= 1
  <2> DEFINE T == {k \in Nat : ~(PowerOfTwo[k] >= 1)}
  <2> SUFFICES ASSUME T # {} PROVE FALSE
    OBVIOUS
  <2>1. PICK k \in T : \A u \in T : k <= u
    <3>1. T \in SUBSET Nat
      OBVIOUS
    <3> HIDE DEF T
    <3> QED BY <3>1, LeastNatural
  <2>2. k \in Nat \ {0} /\ ~(PowerOfTwo[k] >= 1)
    BY <1>1
  <2>3. k - 1 \in Nat /\ ~(k <= k - 1)
    BY <2>2
  <2>4. PowerOfTwo[k - 1] >= 1
    BY <2>1, <2>3
  <2> QED BY <1>1, <2>2, <2>3, <2>4
<1>3. ASSUME NEW k \in Nat PROVE \A m \in Nat : k <= m => PowerOfTwo[k] <= PowerOfTwo[m]
  <2> DEFINE T == {m \in Nat : k <= m /\ ~(PowerOfTwo[k] <= PowerOfTwo[m])}
  <2> SUFFICES ASSUME T # {} PROVE FALSE
    OBVIOUS
  <2>1. PICK m \in T : \A u \in T : m <= u
    <3>1. T \in SUBSET Nat
      OBVIOUS
    <3> HIDE DEF T
    <3> QED BY <3>1, LeastNatural
  <2>2. m \in Nat /\ k <= m /\ ~(PowerOfTwo[k] <= PowerOfTwo[m])
    OBVIOUS
  <2>3. m # k
    BY <1>1, <2>2
  <2>4. m - 1 \in Nat /\ k <= m - 1 /\ ~(m <= m - 1) /\ m \in Nat \ {0}
    BY <2>2, <2>3
  <2>5. PowerOfTwo[k] <= PowerOfTwo[m - 1]
    BY <2>1, <2>4
  <2>6. PowerOfTwo[m] = 2 * PowerOfTwo[m - 1] /\ PowerOfTwo[m - 1] >= 1
    BY <1>1, <1>2, <2>4
  <2> HIDE DEF T
  <2> QED BY <1>1, <2>2, <2>4, <2>5, <2>6
<1> QED BY <1>2, <1>3

\* The loop computes what its steps say.
LEMMA DoubledUnfolds ==
  ASSUME NEW p, p.base \in Int, p.max \in Int
  PROVE  \A k \in Nat :
            Doubled(p)[k] = IF k = 0 THEN p.base
                            ELSE IF k > 1 /\ p.max > 0 /\ Doubled(p)[k - 1] = p.max THEN p.max
                            ELSE IF p.max > 0 /\ Wrap(2 * Doubled(p)[k - 1]) >= p.max THEN p.max
                            ELSE Wrap(2 * Doubled(p)[k - 1])
<1> DEFINE Body(f) == [k \in Nat |->
                          IF k = 0 THEN p.base
                          ELSE IF k > 1 /\ p.max > 0 /\ f[k - 1] = p.max THEN p.max
                          ELSE IF p.max > 0 /\ Wrap(2 * f[k - 1]) >= p.max THEN p.max
                          ELSE Wrap(2 * f[k - 1])]
           g == [x \in Nat \X Int |->
                          IF x[1] > 1 /\ p.max > 0 /\ x[2] = p.max THEN p.max
                          ELSE IF p.max > 0 /\ Wrap(2 * x[2]) >= p.max THEN p.max
                          ELSE Wrap(2 * x[2])]
<1>1. Doubled(p) = CHOOSE f : f = Body(f)
  BY DEF Doubled
<1>2. g \in [Nat \X Int -> Int]
  <2>1. \A x \in Nat \X Int : Wrap(2 * x[2]) \in Int
    BY InstantRange DEF Wrap, Span
  <2> QED BY <2>1
<1>3. PICK d \in [Nat -> Int] : /\ d[0] = p.base
                                /\ \A k \in Nat \ {0} : d[k] = g[<<k, d[k - 1]>>]
  <2> HIDE DEF g
  <2> QED BY <1>2, StepByStep
<1>4. d = Body(d)
  <2>1. \A k \in Nat \ {0} :
           /\ k - 1 \in Nat
           /\ d[k] = IF k > 1 /\ p.max > 0 /\ d[k - 1] = p.max THEN p.max
                     ELSE IF p.max > 0 /\ Wrap(2 * d[k - 1]) >= p.max THEN p.max
                     ELSE Wrap(2 * d[k - 1])
    <3>1. \A k \in Nat \ {0} : k - 1 \in Nat /\ d[k - 1] \in Int
      BY <1>3
    <3>2. \A k \in Nat, x \in Int :
             g[<<k, x>>] = IF k > 1 /\ p.max > 0 /\ x = p.max THEN p.max
                           ELSE IF p.max > 0 /\ Wrap(2 * x) >= p.max THEN p.max
                           ELSE Wrap(2 * x)
      OBVIOUS
    <3> HIDE DEF g
    <3> QED BY <1>3, <3>1, <3>2
  <2> QED BY <1>3, <2>1
<1> HIDE DEF Body
<1>5. Doubled(p) = Body(Doubled(p))
  BY <1>1, <1>4
<1> QED BY <1>5 DEF Body

LEMMA Multiples ==
  ASSUME NEW base \in Nat
  PROVE  /\ \A k \in Nat : base * PowerOfTwo[k] \in Nat
         /\ base * PowerOfTwo[0] = base
         /\ \A k \in Nat \ {0} : base * PowerOfTwo[k] = 2 * (base * PowerOfTwo[k - 1])
         /\ \A k, m \in Nat : k <= m => base * PowerOfTwo[k] <= base * PowerOfTwo[m]
<1>1. \A x, y \in Int : /\ y >= 1 => base * y \in Nat
                        /\ base * (2 * y) = 2 * (base * y)
                        /\ x <= y => base * x <= base * y
  OBVIOUS
<1>2. \A k \in Nat : PowerOfTwo[k] \in Int
  BY PowersOfTwo
<1>3. \A k \in Nat : base * PowerOfTwo[k] \in Nat
  BY <1>1, <1>2, PowersGrow
<1>4. base * PowerOfTwo[0] = base
  BY PowersOfTwo
<1>5. \A k \in Nat \ {0} : base * PowerOfTwo[k] = 2 * (base * PowerOfTwo[k - 1])
  <2>1. \A k \in Nat \ {0} : k - 1 \in Nat /\ PowerOfTwo[k] = 2 * PowerOfTwo[k - 1]
    BY PowersOfTwo
  <2> QED BY <1>1, <1>2, <2>1
<1>6. \A k, m \in Nat : k <= m => base * PowerOfTwo[k] <= base * PowerOfTwo[m]
  BY <1>1, <1>2, PowersGrow
<1> QED BY <1>3, <1>4, <1>5, <1>6

\* Within the range the loop doubles up to the cap.
LEMMA DoubledInRange ==
  ASSUME NEW p, p.type = "exponential", NEW n \in Nat \ {0}, InRange(p, n)
  PROVE  /\ Capped(p, Doubled(p)[n - 1]) = Cap(p, p.base * PowerOfTwo[n - 1])
         /\ Cap(p, p.base * PowerOfTwo[n - 1]) \in Nat
<1>1. /\ p.base \in Nat /\ p.max \in Int
      /\ \/ p.base * PowerOfTwo[n - 1] <= MaxInstant
         \/ p.max > 0 /\ 2 * p.base <= MaxInstant /\ 2 * p.max <= MaxInstant
  BY DEF InRange
<1> DEFINE B == [k \in Nat |-> p.base * PowerOfTwo[k]]
           D == Doubled(p)
           m == n - 1
<1>2. /\ \A k \in Nat : B[k] \in Nat
      /\ B[0] = p.base
      /\ \A k \in Nat \ {0} : B[k] = 2 * B[k - 1]
      /\ \A k, l \in Nat : k <= l => B[k] <= B[l]
      /\ B[m] = p.base * PowerOfTwo[n - 1] /\ m \in Nat
  <2>1. \A k \in Nat \ {0} : k - 1 \in Nat
    OBVIOUS
  <2> QED BY <1>1, <2>1, Multiples
<1>3. \A k \in Nat :
            D[k] = IF k = 0 THEN p.base
                   ELSE IF k > 1 /\ p.max > 0 /\ D[k - 1] = p.max THEN p.max
                   ELSE IF p.max > 0 /\ Wrap(2 * D[k - 1]) >= p.max THEN p.max
                   ELSE Wrap(2 * D[k - 1])
  BY <1>1, DoubledUnfolds
<1>4. B[m] <= MaxInstant \/ (p.max > 0 /\ 2 * p.base <= MaxInstant /\ 2 * p.max <= MaxInstant)
  BY <1>1, <1>2
<1> HIDE DEF B, D, m
<1>5. \A x \in Nat : x <= MaxInstant => Wrap(x) = x
  BY InstantRange DEF Wrap
<1> DEFINE T == {k \in 1..m : D[k] # Cap(p, B[k])}
<1>6. T = {}
  <2> SUFFICES ASSUME T # {} PROVE FALSE
    OBVIOUS
  <2>1. PICK k \in T : \A u \in T : k <= u
    <3>1. T \in SUBSET Nat
      OBVIOUS
    <3> HIDE DEF T
    <3> QED BY <3>1, LeastNatural
  <2>2. k \in 1..m /\ D[k] # Cap(p, B[k]) /\ k \in Nat \ {0} /\ k - 1 \in Nat /\ ~(k <= k - 1)
    BY <1>2
  <2>3. k > 1 => D[k - 1] = Cap(p, B[k - 1])
    <3>1. k > 1 => k - 1 \in 1..m
      BY <1>2, <2>2
    <3> QED BY <2>1, <2>2, <3>1
  <2> HIDE DEF T
  <2>4. B[k] = 2 * B[k - 1] /\ B[k] <= B[m] /\ B[k] \in Nat /\ B[k - 1] \in Nat /\ B[m] \in Nat
    BY <1>2, <2>2
  <2>5. CASE k = 1
    <3>1. D[k - 1] = p.base /\ B[k - 1] = p.base
      BY <1>2, <1>3, <2>5
    <3>2. Wrap(2 * D[k - 1]) = B[k]
      BY <1>1, <1>4, <1>5, <2>4, <3>1, InstantRange
    <3>3. D[k] = IF p.max > 0 /\ B[k] >= p.max THEN p.max ELSE B[k]
      BY <1>3, <2>2, <2>5, <3>2
    <3> QED BY <1>1, <2>2, <2>4, <3>3 DEF Cap, Least
  <2>6. CASE k > 1 /\ p.max > 0 /\ D[k - 1] = p.max
    <3>1. D[k] = p.max
      BY <1>3, <2>2, <2>6
    <3>2. Cap(p, B[k - 1]) = p.max
      BY <2>2, <2>3, <2>6
    <3>3. B[k - 1] >= p.max
      BY <1>1, <2>4, <2>6, <3>2 DEF Cap, Least
    <3> QED BY <1>1, <2>2, <2>4, <2>6, <3>1, <3>3 DEF Cap, Least
  <2>7. CASE k > 1 /\ ~(p.max > 0 /\ D[k - 1] = p.max)
    <3>1. D[k - 1] = B[k - 1] /\ (p.max > 0 => B[k - 1] < p.max)
      BY <1>1, <2>2, <2>3, <2>4, <2>7 DEF Cap, Least
    <3>2. Wrap(2 * D[k - 1]) = B[k]
      BY <1>1, <1>4, <1>5, <2>4, <3>1, InstantRange
    <3>3. D[k] = IF p.max > 0 /\ B[k] >= p.max THEN p.max ELSE B[k]
      BY <1>3, <2>2, <2>7, <3>2
    <3> QED BY <1>1, <2>2, <2>4, <3>3 DEF Cap, Least
  <2> QED BY <2>2, <2>5, <2>6, <2>7
<1>7. Capped(p, D[m]) = Cap(p, B[m]) /\ Cap(p, B[m]) \in Nat
  <2>1. CASE m = 0
    <3>1. D[m] = p.base /\ B[m] = p.base
      BY <1>2, <1>3, <2>1
    <3> QED BY <1>1, <3>1 DEF Capped, Cap, Least
  <2>2. CASE m # 0
    <3>1. m \in 1..m /\ B[m] \in Nat
      BY <1>2, <2>2
    <3>2. D[m] = Cap(p, B[m])
      BY <1>6, <3>1
    <3> HIDE DEF T
    <3> QED BY <1>1, <3>1, <3>2 DEF Capped, Cap, Least
  <2> QED BY <2>1, <2>2
<1> QED BY <1>2, <1>7 DEF D, m

\* A delay is never shorter than the documentation of its policy says, and without
\* jitter it is exactly that: the doubling does not wrap on its way to the cap, and
\* the attempts are counted from one (retry.go, the Delay methods).
THEOREM DelaysAsDocumented ==
  ASSUME NEW p, NEW n \in Nat \ {0}, InRange(p, n)
  PROVE  /\ KeepsPromise(p, n)
         /\ (p.type = "exponential" => p.jitter = 0) => Delay(p, n) = {ShortestWait(p, n)}
<1>1. CASE p.type = "exponential"
  <2> DEFINE d == Cap(p, p.base * PowerOfTwo[n - 1])
             part == (d * p.jitter) \div 100
  <2>1. Capped(p, Doubled(p)[n - 1]) = d /\ d \in Nat /\ p.jitter \in Nat
    BY <1>1, DoubledInRange DEF InRange
  <2>2. (IF n > 1 THEN n - 1 ELSE 0) = n - 1
    OBVIOUS
  <2>3. Delay(p, n) = Spread(Capped(p, Doubled(p)[n - 1]), p.jitter)
    BY <1>1, <2>2 DEF Delay
  <2>4. ShortestWait(p, n) = d - part
    BY <1>1 DEF ShortestWait
  <2> HIDE DEF d
  <2>5. Delay(p, n) = (d - part)..(d + part)
    BY <2>1, <2>3 DEF Spread
  <2>6. part \in Int /\ (p.jitter = 0 => part = 0)
    <3>1. d * p.jitter \in Int /\ (p.jitter = 0 => d * p.jitter = 0)
      BY <2>1
    <3> QED BY <3>1
  <2> HIDE DEF part
  <2> QED BY <1>1, <2>1, <2>4, <2>5, <2>6 DEF KeepsPromise
<1>2. ASSUME Delay(p, n) = {ShortestWait(p, n)}, ShortestWait(p, n) \in Int
      PROVE  KeepsPromise(p, n)
  BY <1>2 DEF KeepsPromise
<1>3. CASE p.type = "linear"
  <2> DEFINE x == n * p.step
  <2>1. x \in Instant /\ p.max \in Int /\ x \in Int
    BY <1>3 DEF InRange, Instant
  <2>2. Delay(p, n) = {Capped(p, WrapProduct(x))} /\ ShortestWait(p, n) = Cap(p, x)
    BY <1>3 DEF Delay, ShortestWait
  <2> HIDE DEF x
  <2>3. WrapProduct(x) = x
    BY <2>1, InstantRange DEF WrapProduct, Instant, Span
  <2>4. Delay(p, n) = {ShortestWait(p, n)} /\ ShortestWait(p, n) \in Int
    BY <2>1, <2>2, <2>3 DEF Capped, Cap, Least
  <2> QED BY <1>2, <2>4
<1>4. CASE p.type = "fixed"
  <2>1. Delay(p, n) = {ShortestWait(p, n)} /\ ShortestWait(p, n) \in Int
    BY <1>4 DEF InRange, Delay, ShortestWait
  <2> QED BY <1>2, <2>1
<1>5. CASE p.type = "intervals"
  <2>1. p.intervals \in Seq(Int)
    BY <1>5 DEF InRange
  <2>2. Delay(p, n) = {Nth(p.intervals, n)}
    BY <1>5 DEF Delay
  <2>3. ShortestWait(p, n) = IF p.intervals = << >> THEN 0
                             ELSE p.intervals[Least(n, Len(p.intervals))]
    BY <1>5 DEF ShortestWait
  <2> DEFINE list == p.intervals
  <2> HIDE DEF list
  <2>4. list \in Seq(Int) => Nth(list, n) = IF list = << >> THEN 0 ELSE list[Least(n, Len(list))]
    BY DEF Nth, Least
  <2>5. list \in Seq(Int) /\ list # << >> => list[Least(n, Len(list))] \in Int
    BY DEF Least
  <2>6. Delay(p, n) = {ShortestWait(p, n)} /\ ShortestWait(p, n) \in Int
    BY <2>1, <2>2, <2>3, <2>4, <2>5 DEF list
  <2> QED BY <1>2, <2>6
<1>6. CASE p.type = "named"
  <2>1. Delay(p, n) = {ShortestWait(p, n)} /\ ShortestWait(p, n) \in Int
    BY <1>6 DEF InRange, Delay, ShortestWait
  <2> QED BY <1>2, <2>1
<1> QED BY <1>1, <1>3, <1>4, <1>5, <1>6 DEF InRange

-----------------------------------------------------------------------------

\* From the failure of an attempt to the claim of the next, a job waits at least
\* what its policy promises, unless it was rescued in between, as long as the waits
\* of the policies stay within the range of instants (retry.go, executor.go:28-37).
THEOREM RetriesWait ==
  ASSUME PoliciesInRange
  PROVE  Spec => NoEarlyRetry
<1>1. ASSUME NEW column, StoredColumns(column), NEW n \in Nat \ {0}, ~(n >= column.maxAttempts)
      PROVE  KeepsPromise(PolicyOr(column.policy), n)
  <2>1. PICK id \in 1..MaxID : \E inserts \in InsertsFor[id] : \E k \in DOMAIN inserts :
                                  column = Columns(Resolved(inserts)[k])
    BY <1>1 DEF StoredColumns
  <2>2. PICK inserts \in InsertsFor[id] : \E k \in DOMAIN inserts :
                                  column = Columns(Resolved(inserts)[k])
    BY <2>1
  <2>3. PICK k \in DOMAIN inserts : column = Columns(Resolved(inserts)[k])
    BY <2>2
  <2>4. /\ column.maxAttempts \in Int
        /\ \A m \in 1..(column.maxAttempts - 1) : InRange(PolicyOr(column.policy), m)
    BY <2>3 DEF PoliciesInRange
  <2>5. n \in 1..(column.maxAttempts - 1)
    BY <1>1, <2>4
  <2> QED BY <2>4, <2>5, DelaysAsDocumented
<1>2. PromisesKept
  BY <1>1 DEF PromisesKept
<1> QED BY <1>2, WaitsOfPromises

-----------------------------------------------------------------------------
(* Options.                                                                *)

\* Laying the layers over one another, as an enqueue does, leaves every option to
\* the most specific layer that sets it, whichever layers those are: the options
\* of the call, the kind's with its priority, the client's defaults, the library's
\* (options.go:15, 146-182).
THEOREM MostSpecificDecides ==
  ASSUME NEW kind, NEW opts, NEW f \in DOMAIN Unset
  PROVE  Resolve(kind, opts)[f] = MostSpecific(f, Layers(kind, opts))
<1> DEFINE layers == Layers(kind, opts)
           deciding == {n \in DOMAIN layers : layers[n][f] # Unset[f]}
           first(n) == n \in deciding /\ \A m \in deciding : n <= m
<1>1. /\ DOMAIN layers = 1..4
      /\ layers[1] = Given(opts) /\ layers[2] = KindOptions(kind)
      /\ layers[3] = Defaults /\ layers[4] = Library
  BY DEF Layers
<1>2. DOMAIN Library = DOMAIN Unset
  BY DEF Library
<1>3. Resolve(kind, opts)[f] = IF layers[1][f] # Unset[f] THEN layers[1][f]
                               ELSE IF layers[2][f] # Unset[f] THEN layers[2][f]
                               ELSE IF layers[3][f] # Unset[f] THEN layers[3][f]
                               ELSE layers[4][f]
  <2>1. DOMAIN ClientDefaults = DOMAIN Unset
    BY <1>2 DEF ClientDefaults, Overlay
  <2>2. DOMAIN Overlay(ClientDefaults, KindOptions(kind)) = DOMAIN Unset
    BY <2>1 DEF Overlay
  <2> QED BY <1>1, <1>2, <2>1, <2>2 DEF Resolve, Overlay, ClientDefaults
<1> HIDE DEF layers
<1>4. CASE deciding = {}
  <2>1. \A n \in 1..4 : layers[n][f] = Unset[f]
    BY <1>1, <1>4
  <2> QED BY <1>3, <1>4, <2>1 DEF MostSpecific, layers
<1>5. CASE deciding # {}
  <2>1. \E n \in 1..4 : first(n)
    <3>1. \E n \in 1..4 : layers[n][f] # Unset[f]
      BY <1>1, <1>5
    <3> QED BY <1>1, <3>1
  <2>2. PICK n \in 1..4 : first(n)
    BY <2>1
  <2>3. n = CHOOSE k \in deciding : \A m \in deciding : k <= m
    <3>1. \A k \in deciding : (\A m \in deciding : k <= m) => k = n
      BY <1>1, <2>2
    <3> QED BY <2>2, <3>1
  <2>4. MostSpecific(f, Layers(kind, opts)) = layers[n][f]
    BY <1>5, <2>3 DEF MostSpecific, layers
  <2>5. layers[n][f] # Unset[f] /\ \A m \in 1..4 : m < n => layers[m][f] = Unset[f]
    BY <1>1, <2>2
  <2> HIDE DEF deciding
  <2>6. Resolve(kind, opts)[f] = layers[n][f]
    BY <1>3, <2>2, <2>5
  <2> QED BY <2>4, <2>6
<1> QED BY <1>4, <1>5

=============================================================================
