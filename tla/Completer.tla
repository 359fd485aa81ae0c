------------------------------ MODULE Completer ------------------------------
(***************************************************************************)
(* completer.go: the channel that executions push their outcomes into, the *)
(* loop that batches them, and stop.                                       *)
(*                                                                         *)
(* A call to the backend may fail or lose its reply at any time, but it    *)
(* returns: its context ends after callTimeout or with the completer's     *)
(* lifetime, and a Backend has to honour that.  Timers fire at any time.   *)
(* What the backend makes of an outcome it gets twice, or gets and does not *)
(* confirm, is WorkerSystem's subject; here an outcome is recorded when    *)
(* the completer hears so.                                                 *)
(***************************************************************************)
EXTENDS Integers, FiniteSets, SequencesExt

CONSTANTS Ops,          \* the outcomes executions push, one each
          KindOf,       \* the kind of each
          Capacity,     \* of the channel: 4 * FlushSize in the code
          FlushSize,
          MaxTries      \* Len(completerBackoffs) + 1

Kinds == {"complete", "retry", "cancel", "kill", "snooze"}

ASSUME OpsAssumption   == IsFiniteSet(Ops)
ASSUME KindAssumption  == KindOf \in [Ops -> Kinds]
ASSUME SizesAssumption == Capacity \in Nat \ {0} /\ FlushSize \in Nat \ {0} /\ MaxTries \in Nat \ {0}

VARIABLES pushes,     \* how far each outcome's push is
          ch,         \* completer.ch
          closed,     \* whether ch is closed
          loop,       \* where the loop is
          buf,        \* what it has received since its last flush
          calls,      \* the batches its flush has yet to hand over
          tries,      \* the failed tries of the first of them
          lifetime,   \* whether the lifetime context is alive
          stopper,    \* how far stop is
          dropped,    \* the counter
          recorded,   \* history: the outcomes the backend confirmed
          lost,       \* history: the outcomes counted as dropped
          expired,    \* history: those whose push timed out
          fails       \* history: the failed calls each outcome was in

pushVars  == <<pushes, expired>>
loopVars  == <<loop, buf, calls, tries, recorded, fails>>
stopVars  == <<closed, lifetime, stopper>>
completerVars == <<pushes, ch, closed, loop, buf, calls, tries, lifetime, stopper,
                   dropped, recorded, lost, expired, fails>>

\* An outcome is idle until its job is claimed; pushing it ends runJob.
PushPhases == {"idle", "working", "blocked", "returned"}
LoopPhases == {"receiving", "calling", "backoff", "done"}
StopPhases == {"idle", "draining", "aborting", "stopped"}

CompleterInit ==
    /\ pushes = [op \in Ops |-> "idle"]
    /\ ch = << >> /\ buf = << >> /\ calls = << >>
    /\ closed = FALSE
    /\ loop = "receiving"
    /\ tries = 0
    /\ lifetime = TRUE
    /\ stopper = "idle"
    /\ dropped = 0
    /\ recorded = {} /\ lost = {} /\ expired = {}
    /\ fails = [op \in Ops |-> 0]

Drop(S) == /\ dropped' = dropped + Cardinality(S)
           /\ lost' = lost \union S

-----------------------------------------------------------------------------
(* push.                                                                   *)

Room == Len(ch) < Capacity

\* runJob is under way.
Claimed(op) ==
    /\ pushes[op] = "idle"
    /\ pushes' = [pushes EXCEPT ![op] = "working"]
    /\ UNCHANGED <<ch, loopVars, stopVars, dropped, lost, expired>>

\* The first select: into the channel, or on to the second select.  To send on
\* a closed channel panics, which SendsAreSafe of ClientLifecycle rules out.
Push(op) ==
    /\ pushes[op] = "working"
    /\ IF Room
       THEN /\ ch' = Append(ch, op)
            /\ pushes' = [pushes EXCEPT ![op] = "returned"]
       ELSE /\ pushes' = [pushes EXCEPT ![op] = "blocked"]
            /\ UNCHANGED ch
    /\ UNCHANGED <<loopVars, stopVars, dropped, lost, expired>>

\* The second select.  Its case for the end of the completer's lifetime is never
\* ready here: the lifetime ends in stop, and stop begins when no push is under
\* way (SendsAreSafe).
PushUnblocked(op) ==
    /\ pushes[op] = "blocked" /\ Room
    /\ ch' = Append(ch, op)
    /\ pushes' = [pushes EXCEPT ![op] = "returned"]
    /\ UNCHANGED <<loopVars, stopVars, dropped, lost, expired>>

PushTimesOut(op) ==
    /\ pushes[op] = "blocked"
    /\ pushes' = [pushes EXCEPT ![op] = "returned"]
    /\ expired' = expired \union {op}
    /\ Drop({op})
    /\ UNCHANGED <<ch, loopVars, stopVars>>

-----------------------------------------------------------------------------
(* loop and flush.                                                         *)

\* The ops of one kind, if there are any.
OfKind(ops, kind) == LET S == {op \in ToSet(ops) : KindOf[op] = kind}
                     IN  IF S = {} THEN << >> ELSE <<S>>

\* The batches flush makes, in the order of its calls.
Batches(ops) == OfKind(ops, "complete") \o OfKind(ops, "retry") \o OfKind(ops, "cancel")
                    \o OfKind(ops, "kill") \o OfKind(ops, "snooze")

Flush(ops) ==
    /\ calls' = Batches(ops)
    /\ loop' = "calling"
    /\ buf' = << >>
    /\ tries' = 0

\* Mutant: the buffer is flushed only past FlushSize.
ReceiveOneMore ==
    /\ loop = "receiving" /\ ch # << >>
    /\ ch' = Tail(ch)
    /\ LET got == Append(buf, Head(ch))
       IN  IF Len(got) > FlushSize
           THEN Flush(got)
           ELSE buf' = got /\ UNCHANGED <<loop, calls, tries>>
    /\ UNCHANGED <<pushVars, stopVars, dropped, lost, recorded, fails>>

Receive ==
    /\ loop = "receiving" /\ ch # << >>
    /\ ch' = Tail(ch)
    /\ LET got == Append(buf, Head(ch))
       IN  IF Len(got) >= FlushSize
           THEN Flush(got)
           ELSE buf' = got /\ UNCHANGED <<loop, calls, tries>>
    /\ UNCHANGED <<pushVars, stopVars, dropped, lost, recorded, fails>>

\* Mutant: the timer is not reset after it fired on an empty buffer.
TimerNeverFires == FALSE /\ UNCHANGED completerVars

TimerFires ==
    /\ loop = "receiving" /\ buf # << >>
    /\ Flush(buf)
    /\ UNCHANGED <<ch, pushVars, stopVars, dropped, lost, recorded, fails>>

\* Mutant: what is in the buffer is forgotten on the way out.
LeaveUnflushed ==
    /\ loop = "receiving" /\ closed /\ ch = << >>
    /\ loop' = "done" /\ buf' = << >>
    /\ UNCHANGED <<ch, calls, tries, pushVars, stopVars, dropped, lost, recorded, fails>>

\* Closed and drained.  After its last flush the loop is done; here it comes
\* back once more to find its buffer empty.
ReceiveClosed ==
    /\ loop = "receiving" /\ closed /\ ch = << >>
    /\ IF buf = << >>
       THEN loop' = "done" /\ UNCHANGED <<buf, calls, tries>>
       ELSE Flush(buf)
    /\ UNCHANGED <<ch, pushVars, stopVars, dropped, lost, recorded, fails>>

-----------------------------------------------------------------------------
(* call and attempt, on the first of the batches.                          *)

\* Mutant: the next batch starts with the tries of the one before.
NextCallSameTries ==
    /\ calls' = Tail(calls)
    /\ loop' = IF Len(calls) = 1 THEN "receiving" ELSE "calling"
    /\ UNCHANGED tries

NextCall ==
    /\ calls' = Tail(calls)
    /\ tries' = 0
    /\ loop' = IF Len(calls) = 1 THEN "receiving" ELSE "calling"

\* The backend applied the batch, or what of it was not stale.
CallSucceeds ==
    /\ loop = "calling"
    /\ recorded' = recorded \union Head(calls)
    /\ NextCall
    /\ UNCHANGED <<ch, buf, fails, pushVars, stopVars, dropped, lost>>

\* An error, whether or not the backend acted before the reply was lost.
CallFails ==
    /\ loop = "calling"
    /\ fails' = [op \in Ops |-> IF op \in Head(calls) THEN fails[op] + 1 ELSE fails[op]]
    /\ IF ~lifetime \/ tries + 1 >= MaxTries
       THEN NextCall /\ Drop(Head(calls))
       ELSE /\ loop' = "backoff"
            /\ tries' = tries + 1
            /\ UNCHANGED <<calls, dropped, lost>>
    /\ UNCHANGED <<ch, buf, recorded, pushVars, stopVars>>

BackoffEnds ==
    /\ loop = "backoff"
    /\ loop' = "calling"
    /\ UNCHANGED <<ch, buf, calls, tries, pushVars, stopVars, dropped, lost, recorded, fails>>

BackoffAborted ==
    /\ loop = "backoff" /\ ~lifetime
    /\ NextCall /\ Drop(Head(calls))
    /\ UNCHANGED <<ch, buf, pushVars, stopVars, recorded, fails>>

-----------------------------------------------------------------------------
(* stop.                                                                   *)

StopBegins ==
    /\ stopper = "idle"
    /\ closed' = TRUE
    /\ stopper' = "draining"
    /\ UNCHANGED <<ch, pushVars, loopVars, lifetime, dropped, lost>>

\* The context of stop ends before the loop does.
StopAborts ==
    /\ stopper = "draining"
    /\ lifetime' = FALSE
    /\ stopper' = "aborting"
    /\ UNCHANGED <<ch, pushVars, loopVars, closed, dropped, lost>>

StopEnds ==
    /\ stopper \in {"draining", "aborting"} /\ loop = "done"
    /\ lifetime' = FALSE
    /\ stopper' = "stopped"
    /\ UNCHANGED <<ch, pushVars, loopVars, closed, dropped, lost>>

-----------------------------------------------------------------------------

PushNext(op) == Push(op) \/ PushUnblocked(op) \/ PushTimesOut(op)

LoopNext == \/ Receive \/ TimerFires \/ ReceiveClosed
            \/ CallSucceeds \/ CallFails \/ BackoffEnds \/ BackoffAborted

\* The client's side of the contract: stop is called when no runJob is under
\* way and none will start (dispatcher.go:294-300; ClientLifecycle).
Quiet == \A op \in Ops : pushes[op] \notin {"working", "blocked"}

\* Nothing is left to do.
Finished == stopper = "stopped" /\ UNCHANGED completerVars

CompleterNext ==
    \/ \E op \in Ops : (~closed /\ Claimed(op)) \/ PushNext(op)
    \/ LoopNext
    \/ Quiet /\ StopBegins
    \/ StopAborts
    \/ StopEnds
    \/ Finished

\* Every select that can proceed does, timers fire and calls return; a backend
\* may go on failing and a drain may go on waiting for it.
CompleterSpec ==
    /\ CompleterInit /\ [][CompleterNext]_completerVars
    /\ WF_completerVars(LoopNext)
    /\ WF_completerVars(StopEnds)

-----------------------------------------------------------------------------
(* Properties.                                                             *)

InFlight == ToSet(ch) \union ToSet(buf) \union UNION ToSet(calls)

\* The types of the variables, the channel within its capacity and the buffer
\* short of a flush.
CompleterTypeOK ==
    /\ pushes \in [Ops -> PushPhases]
    /\ ch \in Seq(Ops) /\ Len(ch) <= Capacity
    /\ buf \in Seq(Ops) /\ Len(buf) < FlushSize
    /\ calls \in Seq(SUBSET Ops)
    /\ loop \in LoopPhases
    /\ tries \in 0..(MaxTries - 1)
    /\ stopper \in StopPhases
    /\ closed \in BOOLEAN /\ lifetime \in BOOLEAN
    /\ dropped \in Nat

\* Every outcome whose push has returned is in one place: under way in the
\* completer, recorded, or among the dropped that stop reports, and none of
\* them in two; and once stop has returned none is under way any more
\* (completer.go:73-106, 108-140, 207-212).
NothingForgotten ==
    /\ {op \in Ops : pushes[op] = "returned"} = InFlight \union recorded \union lost
    /\ InFlight \intersect (recorded \union lost) = {}
    /\ recorded \intersect lost = {}
    /\ ToSet(ch) \intersect ToSet(buf) = {}
    /\ (ToSet(ch) \union ToSet(buf)) \intersect UNION ToSet(calls) = {}
    /\ dropped = Cardinality(lost)
    /\ stopper = "stopped" => InFlight = {} /\ loop = "done"

\* Outside an aborted shutdown, an outcome is dropped only when its push timed
\* out on a full channel or when it was itself in MaxTries failed calls: what
\* befalls other batches does not cost it a try (completer.go:214-237).
LostOnlyWhenStuck ==
    \A op \in lost : \/ op \in expired
                     \/ fails[op] >= MaxTries
                     \/ ~lifetime
=============================================================================
