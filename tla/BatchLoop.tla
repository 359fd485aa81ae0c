------------------------------ MODULE BatchLoop ------------------------------
(***************************************************************************)
(* The loop of memory.go's finalize, entry by entry over the map, beside   *)
(* JobStore!Finalize, which gives its result at once (and is how           *)
(* PostgreSQL computes it, finalize.go).                                   *)
(***************************************************************************)
EXTENDS MemoryBackend

Kinds == {"complete", "kill", "cancel", "retry", "snooze"}

\* What a call of one kind makes of a row.
Outcome(kind, row, entry, now) ==
    CASE kind = "complete" -> CompleteRow(row, entry, now)
      [] kind = "kill"     -> KillRow(row, entry, now)
      [] kind = "cancel"   -> CancelRow(row, entry, now)
      [] kind = "retry"    -> RetryRow(row, entry)
      [] kind = "snooze"   -> SnoozeRow(row, entry)

\* The batches a call of one kind gets to its loop with.
Batches(kind) ==
    CASE kind \in {"complete", "kill"} -> BatchesOf(PlainEntries)
      [] kind = "cancel" -> BatchesOf(CancelEntries)
      [] kind = "retry"  -> {b \in BatchesOf(RetryEntries) : AllStorable(b)}
      [] kind = "snooze" -> {b \in BatchesOf(SnoozeEntries) : AllStorable(b)}

\* What the loop carries: the map and the IDs found stale so far.
LoopStart == [jobs |-> jobs, stale |-> {}]

LoopStep(kind, st, entry, now) ==
    IF Live(st.jobs, entry)
    THEN [st EXCEPT !.jobs[entry.id] = Outcome(kind, @, entry, now)]
    ELSE [st EXCEPT !.stale = @ \union {entry.id}]

Loop(kind, batch, now) ==
    LET after[k \in 0..Len(batch)] ==
            IF k = 0 THEN LoopStart ELSE LoopStep(kind, after[k - 1], batch[k], now)
    IN  after[Len(batch)]

\* Finalizing a batch all at once is finalizing its entries one after the
\* other, stale report included, in every reachable store and for every batch
\* of every kind, those with two entries for one job or generation among them
\* (memory.go:119-136; finalize.go:14-25, 178-189).
BatchIsLoop ==
    \A now \in Clock, kind \in Kinds : \A batch \in Batches(kind) :
        LET loop == Loop(kind, batch, now)
        IN  /\ loop.jobs = Finalize(jobs, batch, LAMBDA row, e : Outcome(kind, row, e, now))
            /\ loop.stale = StaleIds(jobs, batch)
=============================================================================
