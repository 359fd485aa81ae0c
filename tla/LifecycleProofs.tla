--------------------------- MODULE LifecycleProofs ---------------------------
(***************************************************************************)
(* Proofs about Completer, for any number of outcomes of any kinds, any    *)
(* channel, flush size and number of tries, and any failures; and about    *)
(* ClientLifecycle, for any number of jobs, callers of Stop and restarts.  *)
(*                                                                         *)
(* First what flush makes of its buffer; then types and places, action by  *)
(* action; then the accounting of outcomes; and last the client around the *)
(* completer, for which what the completer's steps keep is cited.          *)
(***************************************************************************)
EXTENDS ClientLifecycle, FiniteSetTheorems, SequenceTheorems, TLAPS

-----------------------------------------------------------------------------
(* Sequences and the sets of their elements.                               *)

Distinct(s) == \A i, j \in DOMAIN s : s[i] = s[j] => i = j
Disjoint(s) == \A i, j \in DOMAIN s : i # j => s[i] \intersect s[j] = {}

\* Nothing is in the empty sequence.
LEMMA OfEmpty == ToSet(<< >>) = {} /\ Distinct(<< >>) /\ Disjoint(<< >>)
  BY DEF ToSet, Distinct, Disjoint

\* What is in a sequence over a set is in the set.
LEMMA Elements == ASSUME NEW S, NEW s \in Seq(S) PROVE ToSet(s) \subseteq S
  BY ElementOfSeq DEF ToSet

\* A sequence to which an element is appended has that element more.
LEMMA OfAppend ==
  ASSUME NEW S, NEW s \in Seq(S), NEW e \in S
  PROVE  /\ ToSet(Append(s, e)) = ToSet(s) \union {e}
         /\ Distinct(s) /\ e \notin ToSet(s) => Distinct(Append(s, e))
<1> DEFINE t == Append(s, e)
<1>1. /\ DOMAIN s = 1..Len(s) /\ DOMAIN t = 1..(Len(s) + 1) /\ Len(s) \in Nat
      /\ \A i \in 1..Len(s) : t[i] = s[i]
      /\ t[Len(s) + 1] = e
  BY AppendProperties, LenProperties
<1> HIDE DEF t
<1>2. ToSet(t) = ToSet(s) \union {e}
  <2>1. \A i \in DOMAIN t : i \in 1..Len(s) \/ i = Len(s) + 1
    BY <1>1
  <2>2. \A i \in DOMAIN s : i \in DOMAIN t
    BY <1>1
  <2>3. Len(s) + 1 \in DOMAIN t
    BY <1>1
  <2> QED BY <1>1, <2>1, <2>2, <2>3, Zenon DEF ToSet
<1>3. ASSUME Distinct(s), e \notin ToSet(s) PROVE Distinct(t)
  <2> SUFFICES ASSUME NEW i \in DOMAIN t, NEW j \in DOMAIN t, t[i] = t[j] PROVE i = j
    BY DEF Distinct
  <2>1. \A k \in 1..Len(s) : t[k] # e
    BY <1>1, <1>3 DEF ToSet
  <2>2. (i \in 1..Len(s) \/ i = Len(s) + 1) /\ (j \in 1..Len(s) \/ j = Len(s) + 1)
    BY <1>1
  <2> QED BY <1>1, <1>3, <2>1, <2>2 DEF Distinct
<1> QED BY <1>2, <1>3 DEF t

\* A sequence is its first element and the rest.
LEMMA OfTail ==
  ASSUME NEW S, NEW s \in Seq(S), s # << >>
  PROVE  /\ Head(s) \in S /\ Tail(s) \in Seq(S)
         /\ ToSet(s) = {Head(s)} \union ToSet(Tail(s))
         /\ Distinct(s) => Distinct(Tail(s)) /\ Head(s) \notin ToSet(Tail(s))
         /\ Disjoint(s) => Disjoint(Tail(s)) /\ Head(s) \intersect UNION ToSet(Tail(s)) = {}
<1> DEFINE t == Tail(s)
<1>1. /\ Head(s) \in S /\ t \in Seq(S) /\ Head(s) = s[1]
      /\ DOMAIN s = 1..Len(s) /\ DOMAIN t = 1..(Len(s) - 1) /\ Len(s) \in Nat \ {0}
      /\ \A i \in DOMAIN t : t[i] = s[i + 1] /\ i + 1 \in DOMAIN s /\ i \in Nat \ {0}
  BY HeadTailProperties, LenProperties, EmptySeq
<1> HIDE DEF t
<1>2. \A i \in DOMAIN s : i = 1 \/ (i - 1 \in DOMAIN t /\ s[i] = t[i - 1])
  BY <1>1
<1>3. 1 \in DOMAIN s
  BY <1>1
<1>4. ToSet(s) = {Head(s)} \union ToSet(t)
  <2>1. ASSUME NEW x \in ToSet(s) PROVE x \in {Head(s)} \union ToSet(t)
    BY <1>1, <1>2, <2>1 DEF ToSet
  <2>2. ASSUME NEW x \in ToSet(t) PROVE x \in ToSet(s)
    BY <1>1, <2>2 DEF ToSet
  <2>3. Head(s) \in ToSet(s)
    BY <1>1, <1>3 DEF ToSet
  <2> QED BY <2>1, <2>2, <2>3
<1>5. ASSUME Distinct(s) PROVE Distinct(t) /\ Head(s) \notin ToSet(t)
  <2>1. \A i \in DOMAIN t : s[i + 1] # s[1]
    BY <1>1, <1>3, <1>5 DEF Distinct
  <2>2. Distinct(t)
    BY <1>1, <1>5 DEF Distinct
  <2> QED BY <1>1, <2>1, <2>2 DEF ToSet
<1>6. ASSUME Disjoint(s) PROVE Disjoint(t) /\ Head(s) \intersect UNION ToSet(t) = {}
  <2>1. \A i \in DOMAIN t : s[1] \intersect t[i] = {}
    BY <1>1, <1>3, <1>6 DEF Disjoint
  <2>2. \A i, j \in DOMAIN t : i # j => i + 1 # j + 1
    BY <1>1
  <2>3. Disjoint(t)
    BY <1>1, <1>6, <2>2 DEF Disjoint
  <2>4. \A X \in ToSet(t) : s[1] \intersect X = {}
    BY <2>1 DEF ToSet
  <2> QED BY <1>1, <2>3, <2>4
<1> QED BY <1>1, <1>4, <1>5, <1>6 DEF t

-----------------------------------------------------------------------------
(* What flush makes of a sequence of outcomes.                             *)

\* A sequence of batches holds the outcomes of some kinds, each once.
Sorted(ops, kinds, s) ==
    /\ s \in Seq(SUBSET Ops)
    /\ Disjoint(s)
    /\ UNION ToSet(s) = {op \in ToSet(ops) : KindOf[op] \in kinds}

\* A union with one set more.
LEMMA UnionAdd == ASSUME NEW X, NEW B PROVE UNION (X \union {B}) = (UNION X) \union B
  OBVIOUS

\* One kind more.
LEMMA AddKind ==
  ASSUME NEW ops \in Seq(Ops), NEW kinds, NEW kind, kind \notin kinds, NEW s,
         Sorted(ops, kinds, s)
  PROVE  Sorted(ops, kinds \union {kind}, s \o OfKind(ops, kind))
<1> DEFINE B == {op \in ToSet(ops) : KindOf[op] = kind}
           U == UNION ToSet(s)
<1>0. U = {op \in ToSet(ops) : KindOf[op] \in kinds}
  BY DEF Sorted
<1> HIDE DEF U
<1>1. B \in SUBSET Ops /\ s \in Seq(SUBSET Ops)
  BY Elements DEF Sorted
<1>2. U \intersect B = {}
  BY <1>0
<1>3. {op \in ToSet(ops) : KindOf[op] \in kinds \union {kind}} = U \union B
  BY <1>0
<1>4. OfKind(ops, kind) = IF B = {} THEN << >> ELSE <<B>>
  BY DEF OfKind
<1> HIDE DEF B
<1>5. CASE B = {}
  BY <1>1, <1>3, <1>4, <1>5, ConcatEmptySeq DEF Sorted, U
<1>6. CASE B # {}
  <2> DEFINE t == Append(s, B)
  <2>1. s \o OfKind(ops, kind) = t
    BY <1>1, <1>4, <1>6, AppendIsConcat
  <2>2. /\ t \in Seq(SUBSET Ops) /\ DOMAIN t = 1..(Len(s) + 1) /\ Len(s) \in Nat
        /\ DOMAIN s = 1..Len(s)
        /\ \A i \in 1..Len(s) : t[i] = s[i]
        /\ t[Len(s) + 1] = B
    BY <1>1, AppendProperties, LenProperties
  <2>3. ToSet(t) = ToSet(s) \union {B}
    BY <1>1, OfAppend
  <2> HIDE DEF t
  <2>4. \A i \in DOMAIN s : s[i] \intersect B = {}
    <3>1. \A i \in DOMAIN s : s[i] \in ToSet(s)
      BY DEF ToSet
    <3>2. \A i \in DOMAIN s : s[i] \subseteq U
      BY <3>1 DEF U
    <3> QED BY <1>2, <3>2
  <2>5. Disjoint(t)
    <3> SUFFICES ASSUME NEW i \in DOMAIN t, NEW j \in DOMAIN t, i # j
                 PROVE  t[i] \intersect t[j] = {}
      BY DEF Disjoint
    <3>1. (i \in DOMAIN s \/ i = Len(s) + 1) /\ (j \in DOMAIN s \/ j = Len(s) + 1)
      BY <2>2
    <3>2. CASE i \in DOMAIN s /\ j \in DOMAIN s
      BY <2>2, <3>2 DEF Sorted, Disjoint
    <3>3. CASE i = Len(s) + 1 /\ j \in DOMAIN s
      BY <2>2, <2>4, <3>3
    <3>4. CASE j = Len(s) + 1 /\ i \in DOMAIN s
      BY <2>2, <2>4, <3>4
    <3> QED BY <3>1, <3>2, <3>3, <3>4
  <2>6. UNION ToSet(t) = U \union B
    BY <2>3, UnionAdd DEF U
  <2> QED BY <1>3, <2>1, <2>2, <2>5, <2>6 DEF Sorted
<1> QED BY <1>5, <1>6

\* A flush hands over each outcome of its buffer in exactly one batch.
LEMMA BatchesSort ==
  ASSUME NEW ops \in Seq(Ops)
  PROVE  /\ Batches(ops) \in Seq(SUBSET Ops)
         /\ Disjoint(Batches(ops))
         /\ UNION ToSet(Batches(ops)) = ToSet(ops)
         /\ ops # << >> => Batches(ops) # << >>
<1> DEFINE s1 == OfKind(ops, "complete")
           s2 == s1 \o OfKind(ops, "retry")
           s3 == s2 \o OfKind(ops, "cancel")
           s4 == s3 \o OfKind(ops, "kill")
           s5 == s4 \o OfKind(ops, "snooze")
<1>0. Sorted(ops, {}, << >>)
  BY OfEmpty, EmptySeq DEF Sorted
<1>1. Sorted(ops, {"complete"}, s1)
  <2>1. Sorted(ops, {} \union {"complete"}, << >> \o OfKind(ops, "complete"))
    BY <1>0, AddKind
  <2>2. {} \union {"complete"} = {"complete"}
    OBVIOUS
  <2>3. OfKind(ops, "complete") \in Seq(SUBSET ToSet(ops))
    <3>1. \A X \in SUBSET ToSet(ops) : <<X>> \in Seq(SUBSET ToSet(ops))
      OBVIOUS
    <3> QED BY <3>1, EmptySeq DEF OfKind
  <2>4. << >> \o OfKind(ops, "complete") = OfKind(ops, "complete")
    BY <2>3, ConcatEmptySeq
  <2> QED BY <2>1, <2>2, <2>4
<1> HIDE DEF s1
<1>2. Sorted(ops, {"complete"} \union {"retry"}, s2)
  BY <1>1, AddKind
<1> HIDE DEF s2
<1>3. Sorted(ops, {"complete"} \union {"retry"} \union {"cancel"}, s3)
  BY <1>2, AddKind
<1> HIDE DEF s3
<1>4. Sorted(ops, {"complete"} \union {"retry"} \union {"cancel"} \union {"kill"}, s4)
  BY <1>3, AddKind
<1> HIDE DEF s4
<1>5. Sorted(ops, {"complete"} \union {"retry"} \union {"cancel"} \union {"kill"} \union {"snooze"}, s5)
  BY <1>4, AddKind
<1>6. Batches(ops) = s5
  BY DEF Batches, s1, s2, s3, s4
<1> HIDE DEF s5
<1>7. \A op \in ToSet(ops) :
         KindOf[op] \in {"complete"} \union {"retry"} \union {"cancel"} \union {"kill"} \union {"snooze"}
  BY Elements, KindAssumption DEF Kinds
<1>8. UNION ToSet(s5) = ToSet(ops)
  BY <1>5, <1>7 DEF Sorted
<1>9. ASSUME ops # << >> PROVE s5 # << >>
  <2>1. ToSet(ops) # {}
    BY <1>9, OfTail
  <2> QED BY <1>8, <2>1, OfEmpty
<1> QED BY <1>5, <1>6, <1>8, <1>9 DEF Sorted

-----------------------------------------------------------------------------
(* Types, and where the loop is when it has batches and a buffer.          *)

Typed == /\ CompleterTypeOK
         /\ recorded \subseteq Ops /\ lost \subseteq Ops /\ expired \subseteq Ops
         /\ fails \in [Ops -> Nat]

Busy == /\ loop \in {"calling", "backoff"} <=> calls # << >>
        /\ loop # "receiving" => buf = << >>

\* The batches after a flush.
LEMMA Flushed ==
  ASSUME NEW ops \in Seq(Ops), ops # << >>, Flush(ops)
  PROVE  /\ calls' \in Seq(SUBSET Ops) /\ calls' # << >> /\ Disjoint(calls')
         /\ UNION ToSet(calls') = ToSet(ops)
         /\ loop' = "calling" /\ buf' = << >> /\ Len(buf') = 0 /\ tries' = 0
<1>1. Len(<< >>) = 0
  OBVIOUS
<1> QED BY <1>1, BatchesSort DEF Flush

\* The batches after one of them is done with.
LEMMA CallDone ==
  ASSUME calls \in Seq(SUBSET Ops), calls # << >>, NextCall
  PROVE  /\ Head(calls) \in SUBSET Ops
         /\ calls' = Tail(calls) /\ calls' \in Seq(SUBSET Ops)
         /\ loop' = IF calls' = << >> THEN "receiving" ELSE "calling"
         /\ tries' = 0
<1>1. /\ Head(calls) \in SUBSET Ops /\ Tail(calls) \in Seq(SUBSET Ops)
      /\ Len(Tail(calls)) = Len(calls) - 1 /\ Len(calls) \in Nat
  BY HeadTailProperties, LenProperties
<1> DEFINE T == Tail(calls)
<1>2. T \in Seq(SUBSET Ops) /\ Len(T) = Len(calls) - 1
  BY <1>1
<1> HIDE DEF T
<1>3. T = << >> <=> Len(T) = 0
  BY <1>2, EmptySeq
<1>4. T = << >> <=> Len(calls) = 1
  BY <1>1, <1>2, <1>3
<1> QED BY <1>1, <1>4 DEF NextCall, T

\* Drop counts what it is given.
LEMMA DropTyped ==
  ASSUME dropped \in Nat, lost \subseteq Ops, NEW S \in SUBSET Ops, Drop(S)
  PROVE  /\ dropped' \in Nat /\ lost' \subseteq Ops
         /\ IsFiniteSet(S) /\ Cardinality(S) \in Nat
<1>1. IsFiniteSet(S)
  BY OpsAssumption, FS_Subset
<1>2. Cardinality(S) \in Nat
  BY <1>1, FS_CardinalityType
<1> QED BY <1>1, <1>2 DEF Drop

\* A job is claimed, or its outcome pushed.
LEMMA PushTyped ==
  ASSUME Typed, Busy, NEW op \in Ops, Claimed(op) \/ PushNext(op)
  PROVE  Typed' /\ Busy'
<1> USE DEF Typed, Busy, CompleterTypeOK, PushPhases
<1>1. CASE Claimed(op)
  BY <1>1 DEF Claimed, loopVars, stopVars
<1>2. CASE Push(op)
  <2>1. CASE Room
    <3>1. ch' = Append(ch, op) /\ pushes' = [pushes EXCEPT ![op] = "returned"]
      BY <1>2, <2>1 DEF Push
    <3>2. ch' \in Seq(Ops) /\ Len(ch') = Len(ch) + 1 /\ Len(ch) \in Nat
      BY <3>1, AppendProperties, LenProperties
    <3> QED BY <1>2, <2>1, <3>1, <3>2, SizesAssumption DEF Push, Room, loopVars, stopVars
  <2>2. CASE ~Room
    BY <1>2, <2>2 DEF Push, loopVars, stopVars
  <2> QED BY <2>1, <2>2
<1>3. CASE PushUnblocked(op)
  BY <1>3, AppendProperties, SizesAssumption DEF PushUnblocked, Room, loopVars, stopVars
<1>4. CASE PushTimesOut(op)
  <2>1. Drop({op}) /\ {op} \in SUBSET Ops
    BY <1>4 DEF PushTimesOut
  <2>2. dropped' \in Nat /\ lost' \subseteq Ops
    BY <2>1, DropTyped
  <2> QED BY <1>4, <2>2 DEF PushTimesOut, loopVars, stopVars
<1> QED BY <1>1, <1>2, <1>3, <1>4 DEF PushNext

\* The loop takes a step.
LEMMA LoopTyped ==
  ASSUME Typed, Busy, LoopNext
  PROVE  Typed' /\ Busy'
<1> USE DEF Typed, Busy, CompleterTypeOK, LoopPhases
<1> USE SizesAssumption
<1>1. CASE Receive
  <2> DEFINE got == Append(buf, Head(ch))
  <2>1. Head(ch) \in Ops /\ Tail(ch) \in Seq(Ops) /\ Len(Tail(ch)) = Len(ch) - 1
    BY <1>1, HeadTailProperties DEF Receive
  <2>2. got \in Seq(Ops) /\ got # << >> /\ Len(got) = Len(buf) + 1
    <3>1. buf \in Seq(Ops) /\ Head(ch) \in Ops
      BY <2>1
    <3>2. ASSUME NEW s \in Seq(Ops), NEW op \in Ops
          PROVE  Append(s, op) \in Seq(Ops) /\ Append(s, op) # << >>
                 /\ Len(Append(s, op)) = Len(s) + 1
      BY ONLY AppendProperties
    <3> QED BY <3>1, <3>2
  <2>3. ch' \in Seq(Ops) /\ Len(ch') <= Capacity
    BY <1>1, <2>1, LenProperties DEF Receive
  <2> HIDE DEF got
  <2>4. CASE Len(got) >= FlushSize
    <3>1. Flush(got)
      BY <1>1, <2>4 DEF Receive, got
    <3>2. /\ calls' \in Seq(SUBSET Ops) /\ calls' # << >>
         /\ loop' = "calling" /\ buf' = << >> /\ buf' \in Seq(Ops) /\ Len(buf') = 0 /\ tries' = 0
      BY <2>2, <3>1, Flushed, EmptySeq
    <3> QED BY <1>1, <2>3, <3>2 DEF Receive, pushVars, stopVars
  <2>5. CASE ~(Len(got) >= FlushSize)
    <3>1. buf' = got /\ UNCHANGED <<loop, calls, tries>>
      BY <1>1, <2>5 DEF Receive, got
    <3>2. Len(buf') < FlushSize
      BY <2>2, <2>5, <3>1, LenProperties
    <3> QED BY <1>1, <2>2, <2>3, <3>1, <3>2 DEF Receive, pushVars, stopVars
  <2> QED BY <2>4, <2>5
<1>2. CASE TimerFires
  <2>1. /\ calls' \in Seq(SUBSET Ops) /\ calls' # << >>
       /\ loop' = "calling" /\ buf' = << >> /\ buf' \in Seq(Ops) /\ Len(buf') = 0 /\ tries' = 0
    BY <1>2, Flushed, EmptySeq DEF TimerFires
  <2> QED BY <1>2, <2>1 DEF TimerFires, pushVars, stopVars
<1>3. CASE ReceiveClosed
  <2>1. CASE buf = << >>
    BY <1>3, <2>1 DEF ReceiveClosed, pushVars, stopVars
  <2>2. CASE buf # << >>
    <3>1. /\ calls' \in Seq(SUBSET Ops) /\ calls' # << >>
         /\ loop' = "calling" /\ buf' = << >> /\ buf' \in Seq(Ops) /\ Len(buf') = 0 /\ tries' = 0
      BY <1>3, <2>2, Flushed, EmptySeq DEF ReceiveClosed
    <3> QED BY <1>3, <2>2, <3>1 DEF ReceiveClosed, pushVars, stopVars
  <2> QED BY <2>1, <2>2
<1>4. CASE CallSucceeds
  BY <1>4, CallDone DEF CallSucceeds, pushVars, stopVars
<1>5. CASE CallFails
  <2>1. fails' \in [Ops -> Nat]
    BY <1>5 DEF CallFails
  <2>2. CASE ~lifetime \/ tries + 1 >= MaxTries
    <3>1. NextCall /\ Drop(Head(calls))
      BY <1>5, <2>2 DEF CallFails
    <3>2. Head(calls) \in SUBSET Ops
      BY <1>5, <3>1, CallDone DEF CallFails
    <3>3. dropped' \in Nat /\ lost' \subseteq Ops
      BY <3>1, <3>2, DropTyped
    <3> QED BY <1>5, <2>1, <3>1, <3>3, CallDone DEF CallFails, pushVars, stopVars
  <2>3. CASE ~(~lifetime \/ tries + 1 >= MaxTries)
    BY <1>5, <2>1, <2>3 DEF CallFails, pushVars, stopVars
  <2> QED BY <2>2, <2>3
<1>6. CASE BackoffEnds
  BY <1>6 DEF BackoffEnds, pushVars, stopVars
<1>7. CASE BackoffAborted
  <2>1. NextCall /\ Drop(Head(calls))
    BY <1>7 DEF BackoffAborted
  <2>2. Head(calls) \in SUBSET Ops
    BY <1>7, <2>1, CallDone DEF BackoffAborted
  <2>3. dropped' \in Nat /\ lost' \subseteq Ops
    BY <2>1, <2>2, DropTyped
  <2> QED BY <1>7, <2>1, <2>3, CallDone DEF BackoffAborted, pushVars, stopVars
<1> QED BY <1>1, <1>2, <1>3, <1>4, <1>5, <1>6, <1>7 DEF LoopNext

\* stop takes a step.
LEMMA StopTyped ==
  ASSUME Typed, Busy, StopBegins \/ StopAborts \/ StopEnds
  PROVE  Typed' /\ Busy'
  BY DEF Typed, Busy, CompleterTypeOK, StopPhases, StopBegins, StopAborts, StopEnds,
         pushVars, loopVars

\* Nothing happens.
LEMMA StillTyped ==
  ASSUME Typed, Busy, UNCHANGED completerVars
  PROVE  Typed' /\ Busy'
  BY DEF Typed, Busy, CompleterTypeOK, completerVars

-----------------------------------------------------------------------------
(* The end of the completer.                                               *)

Closing == /\ loop = "done" => closed /\ ch = << >>
           /\ closed => Quiet
           /\ stopper = "stopped" => loop = "done"

\* A loop that is done leaves nothing under way.
LEMMA DoneMeansEmpty ==
  ASSUME Busy, Closing, loop = "done"
  PROVE  InFlight = {}
<1>1. ch = << >> /\ buf = << >> /\ calls = << >>
  BY DEF Busy, Closing
<1> QED BY <1>1, OfEmpty DEF InFlight

\* Claims and pushes come before the channel is closed.
LEMMA PushClosing ==
  ASSUME Typed, Closing, NEW op \in Ops, (~closed /\ Claimed(op)) \/ PushNext(op)
  PROVE  Closing'
<1>1. ~closed
  BY DEF Closing, Quiet, PushNext, Push, PushUnblocked, PushTimesOut
<1> QED BY <1>1 DEF Closing, Quiet, PushNext, Push, PushUnblocked, PushTimesOut, Claimed,
           loopVars, stopVars

\* The loop is done only when the channel is closed and empty.
LEMMA LoopClosing ==
  ASSUME Closing, LoopNext
  PROVE  Closing'
<1>1. /\ UNCHANGED <<pushVars, stopVars>>
      /\ loop # "done"
      /\ loop' = "done" => closed /\ ch' = << >>
  <2> USE DEF Flush
  <2>1. CASE Receive
    BY <2>1 DEF Receive
  <2>2. CASE TimerFires
    BY <2>2 DEF TimerFires
  <2>3. CASE ReceiveClosed
    BY <2>3 DEF ReceiveClosed
  <2>4. CASE CallSucceeds
    BY <2>4 DEF CallSucceeds, NextCall
  <2>5. CASE CallFails
    BY <2>5 DEF CallFails, NextCall
  <2>6. CASE BackoffEnds
    BY <2>6 DEF BackoffEnds
  <2>7. CASE BackoffAborted
    BY <2>7 DEF BackoffAborted, NextCall
  <2> QED BY <2>1, <2>2, <2>3, <2>4, <2>5, <2>6, <2>7 DEF LoopNext
<1> QED BY <1>1 DEF Closing, Quiet, pushVars, stopVars

\* stop closes the channel when all is quiet, and returns when the loop is done.
LEMMA StopClosing ==
  ASSUME Closing, (Quiet /\ StopBegins) \/ StopAborts \/ StopEnds
  PROVE  Closing'
  BY DEF Closing, Quiet, StopBegins, StopAborts, StopEnds, pushVars, loopVars

-----------------------------------------------------------------------------
(* Where the outcomes are.  R have been pushed; C are in the channel, B in  *)
(* the buffer, K in the batches, r recorded and l lost.                     *)

Accounted(R, C, B, K, r, l) ==
    /\ R = C \union B \union K \union r \union l
    /\ (C \union B \union K) \intersect (r \union l) = {}
    /\ r \intersect l = {}
    /\ C \intersect B = {}
    /\ (C \union B) \intersect K = {}

\* An outcome goes from one place to the next.
LEMMA Moves ==
  ASSUME NEW R, NEW C, NEW B, NEW K, NEW r, NEW l, Accounted(R, C, B, K, r, l)
  PROVE  /\ \A x : x \notin R => /\ Accounted(R \union {x}, C \union {x}, B, K, r, l)
                               /\ Accounted(R \union {x}, C, B, K, r, l \union {x})
         /\ \A h, D : C = {h} \union D /\ h \notin D => Accounted(R, D, B \union {h}, K, r, l)
         /\ K = {} => Accounted(R, C, {}, B, r, l)
         /\ \A H, D : K = H \union D /\ H \intersect D = {}
                        => /\ Accounted(R, C, B, D, r \union H, l)
                           /\ Accounted(R, C, B, D, r, l \union H)
                           /\ H \intersect l = {}
<1>1. ASSUME NEW x, x \notin R
      PROVE  /\ Accounted(R \union {x}, C \union {x}, B, K, r, l)
             /\ Accounted(R \union {x}, C, B, K, r, l \union {x})
  BY <1>1 DEF Accounted
<1>2. ASSUME NEW h, NEW D, C = {h} \union D, h \notin D
      PROVE  Accounted(R, D, B \union {h}, K, r, l)
  BY <1>2 DEF Accounted
<1>3. ASSUME K = {} PROVE Accounted(R, C, {}, B, r, l)
  BY <1>3 DEF Accounted
<1>4. ASSUME NEW H, NEW D, K = H \union D, H \intersect D = {}
      PROVE  /\ Accounted(R, C, B, D, r \union H, l)
             /\ Accounted(R, C, B, D, r, l \union H)
             /\ H \intersect l = {}
  BY <1>4 DEF Accounted
<1> QED BY <1>1, <1>2, <1>3, <1>4

Pushed == {op \in Ops : pushes[op] = "returned"}

Places == /\ Accounted(Pushed, ToSet(ch), ToSet(buf), UNION ToSet(calls), recorded, lost)
          /\ Distinct(ch) /\ Disjoint(calls)
          /\ dropped = Cardinality(lost)

\* Drop counts an outcome once.
LEMMA DropCounts ==
  ASSUME dropped = Cardinality(lost), lost \subseteq Ops,
         NEW S \in SUBSET Ops, S \intersect lost = {}, Drop(S)
  PROVE  dropped' = Cardinality(lost') /\ lost' = lost \union S
<1>1. IsFiniteSet(S) /\ IsFiniteSet(lost)
  BY OpsAssumption, FS_Subset
<1>2. lost \intersect S = {}
  OBVIOUS
<1>3. Cardinality(lost \union S) = Cardinality(lost) + Cardinality(S) - Cardinality(lost \intersect S)
  BY <1>1, FS_Union
<1>4. Cardinality(lost \intersect S) = 0
  BY <1>2, FS_EmptySet
<1>5. Cardinality(lost) \in Nat /\ Cardinality(S) \in Nat
  BY <1>1, FS_CardinalityType
<1> QED BY <1>3, <1>4, <1>5 DEF Drop

\* A push puts its outcome into the channel, or among the lost.
LEMMA PushPlaces ==
  ASSUME Typed, Places, NEW op \in Ops, Claimed(op) \/ PushNext(op)
  PROVE  Places'
<1> DEFINE C == ToSet(ch) B == ToSet(buf) K == UNION ToSet(calls)
<1>0. pushes \in [Ops -> PushPhases] /\ ch \in Seq(Ops)
  BY DEF Typed, CompleterTypeOK
<1>1. Accounted(Pushed, C, B, K, recorded, lost) /\ Distinct(ch) /\ Disjoint(calls)
      /\ dropped = Cardinality(lost)
  BY DEF Places
<1>2. CASE Claimed(op)
  <2>1. Pushed' = Pushed
    BY <1>0, <1>2 DEF Claimed, Pushed
  <2> QED BY <1>1, <1>2, <2>1 DEF Claimed, Places, loopVars, stopVars
<1>3. CASE Push(op) /\ ~Room
  <2>1. Pushed' = Pushed
    BY <1>0, <1>3 DEF Push, Pushed
  <2> QED BY <1>1, <1>3, <2>1 DEF Push, Places, loopVars, stopVars
<1>4. CASE (Push(op) /\ Room) \/ PushUnblocked(op)
  <2>1. /\ op \notin Pushed /\ Pushed' = Pushed \union {op}
        /\ ch' = Append(ch, op)
        /\ UNCHANGED <<loopVars, dropped, lost>>
    BY <1>0, <1>4 DEF Push, PushUnblocked, Pushed
  <2>2. op \notin C
    BY <1>1, <2>1 DEF Accounted
  <2>3. ToSet(ch') = C \union {op} /\ Distinct(ch')
    BY <1>0, <1>1, <2>1, <2>2, OfAppend
  <2>4. Accounted(Pushed \union {op}, C \union {op}, B, K, recorded, lost)
    BY <1>1, <2>1, Moves
  <2> QED BY <1>1, <2>1, <2>3, <2>4 DEF Places, loopVars
<1>5. CASE PushTimesOut(op)
  <2>1. /\ op \notin Pushed /\ Pushed' = Pushed \union {op}
        /\ Drop({op})
        /\ UNCHANGED <<ch, loopVars>>
    BY <1>0, <1>5 DEF PushTimesOut, Pushed
  <2>2. {op} \intersect lost = {}
    BY <1>1, <2>1 DEF Accounted
  <2>3. dropped' = Cardinality(lost') /\ lost' = lost \union {op}
    BY <1>1, <2>1, <2>2, DropCounts DEF Typed
  <2>4. Accounted(Pushed \union {op}, C, B, K, recorded, lost \union {op})
    BY <1>1, <2>1, Moves
  <2> QED BY <1>1, <2>1, <2>3, <2>4 DEF Places, loopVars
<1> QED BY <1>2, <1>3, <1>4, <1>5 DEF PushNext

\* The loop takes an outcome from the channel to the buffer, the buffer to the
\* batches, and a batch to the recorded or the lost.
LEMMA LoopPlaces ==
  ASSUME Typed, Busy, Places, LoopNext
  PROVE  Places'
<1> DEFINE R == Pushed C == ToSet(ch) B == ToSet(buf) K == UNION ToSet(calls)
<1>0. /\ ch \in Seq(Ops) /\ buf \in Seq(Ops) /\ calls \in Seq(SUBSET Ops)
      /\ lost \subseteq Ops
  BY DEF Typed, CompleterTypeOK
<1>1. /\ Accounted(R, C, B, K, recorded, lost) /\ Distinct(ch) /\ Disjoint(calls)
      /\ dropped = Cardinality(lost)
  BY DEF Places
<1>2. loop = "receiving" => calls = << >> /\ K = {}
  BY OfEmpty DEF Busy
<1>3. pushes' = pushes => Pushed' = R
  BY DEF Pushed
<1>4. ASSUME NEW ops \in Seq(Ops), ops # << >>, Flush(ops),
             Accounted(R, ToSet(ch'), ToSet(ops), {}, recorded, lost), Distinct(ch'),
             UNCHANGED <<pushVars, dropped, lost, recorded>>
      PROVE  Places'
  <2>1. /\ Disjoint(calls') /\ UNION ToSet(calls') = ToSet(ops)
        /\ ToSet(buf') = {}
    BY <1>4, Flushed, OfEmpty
  <2>2. Accounted(R, ToSet(ch'), {}, ToSet(ops), recorded, lost)
    BY <1>4, Moves
  <2> QED BY <1>1, <1>3, <1>4, <2>1, <2>2 DEF Places, pushVars
<1>5. CASE Receive
  <2> DEFINE got == Append(buf, Head(ch))
  <2>0. /\ Head(ch) \in Ops /\ C = {Head(ch)} \union ToSet(Tail(ch))
        /\ Distinct(Tail(ch)) /\ Head(ch) \notin ToSet(Tail(ch))
    BY <1>0, <1>1, <1>5, OfTail DEF Receive
  <2>1. /\ ch' = Tail(ch) /\ loop = "receiving"
        /\ UNCHANGED <<pushVars, dropped, lost, recorded>>
    BY <1>5 DEF Receive
  <2>2. got \in Seq(Ops) /\ got # << >> /\ ToSet(got) = B \union {Head(ch)}
    BY <1>0, <2>0, OfAppend, AppendProperties
  <2>3. Accounted(R, ToSet(Tail(ch)), B \union {Head(ch)}, K, recorded, lost)
    BY <1>1, <2>0, Moves
  <2>4. CASE Len(got) >= FlushSize
    <3>1. Flush(got)
      BY <1>5, <2>4 DEF Receive
    <3> QED BY <1>2, <1>4, <2>0, <2>1, <2>2, <2>3, <3>1
  <2>5. CASE ~(Len(got) >= FlushSize)
    <3>1. buf' = got /\ calls' = calls
      BY <1>5, <2>5 DEF Receive
    <3> QED BY <1>1, <1>3, <2>0, <2>1, <2>2, <2>3, <3>1 DEF Places, pushVars
  <2> QED BY <2>4, <2>5
<1>6. CASE TimerFires
  <2>1. /\ buf # << >> /\ Flush(buf) /\ loop = "receiving"
        /\ UNCHANGED <<ch, pushVars, dropped, lost, recorded>>
    BY <1>6 DEF TimerFires
  <2> QED BY <1>0, <1>1, <1>2, <1>4, <2>1
<1>7. CASE ReceiveClosed /\ buf # << >>
  <2>1. /\ buf # << >> /\ Flush(buf) /\ loop = "receiving"
        /\ UNCHANGED <<ch, pushVars, dropped, lost, recorded>>
    BY <1>7 DEF ReceiveClosed
  <2> QED BY <1>0, <1>1, <1>2, <1>4, <2>1
<1>8. CASE (ReceiveClosed /\ buf = << >>) \/ BackoffEnds
            \/ (CallFails /\ ~(~lifetime \/ tries + 1 >= MaxTries))
  <2>1. UNCHANGED <<pushVars, ch, buf, calls, dropped, lost, recorded>>
    BY <1>8 DEF ReceiveClosed, BackoffEnds, CallFails
  <2> QED BY <1>1, <1>3, <2>1 DEF Places, pushVars
<1>9. ASSUME loop \in {"calling", "backoff"}, NextCall
      PROVE  /\ Head(calls) \in SUBSET Ops
             /\ K = Head(calls) \union UNION ToSet(calls')
             /\ Head(calls) \intersect UNION ToSet(calls') = {}
             /\ Disjoint(calls')
  <2>1. calls # << >> /\ calls' = Tail(calls)
    BY <1>9 DEF Busy, NextCall
  <2>2. ToSet(calls) = {Head(calls)} \union ToSet(Tail(calls))
    BY <1>0, <2>1, OfTail
  <2>3. K = Head(calls) \union UNION ToSet(Tail(calls))
    BY <2>2, UnionAdd
  <2> QED BY <1>0, <1>1, <2>1, <2>3, OfTail
<1>10. CASE CallSucceeds
  <2>1. /\ loop = "calling" /\ NextCall /\ recorded' = recorded \union Head(calls)
        /\ UNCHANGED <<pushVars, ch, buf, dropped, lost>>
    BY <1>10 DEF CallSucceeds
  <2> DEFINE H == Head(calls)  D == UNION ToSet(calls')
  <2>2. Accounted(R, C, B, D, recorded \union H, lost)
    <3>1. K = H \union D /\ H \intersect D = {}
      BY <1>9, <2>1
    <3> HIDE DEF R, C, B, K, H, D
    <3> QED BY <1>1, <3>1, Moves
  <2> QED BY <1>1, <1>3, <1>9, <2>1, <2>2 DEF Places, pushVars
<1>11. CASE (CallFails /\ (~lifetime \/ tries + 1 >= MaxTries)) \/ BackoffAborted
  <2>1. /\ loop \in {"calling", "backoff"} /\ NextCall /\ Drop(Head(calls))
        /\ UNCHANGED <<pushVars, ch, buf, recorded>>
    BY <1>11 DEF CallFails, BackoffAborted
  <2> DEFINE H == Head(calls)  D == UNION ToSet(calls')
  <2>2. Accounted(R, C, B, D, recorded, lost \union H) /\ H \intersect lost = {}
    <3>1. K = H \union D /\ H \intersect D = {}
      BY <1>9, <2>1
    <3> HIDE DEF R, C, B, K, H, D
    <3>2. Accounted(R, C, B, D, recorded, lost \union H)
      BY <1>1, <3>1, Moves
    <3>3. H \intersect lost = {}
      BY <1>1, <3>1 DEF Accounted
    <3> QED BY <3>2, <3>3
  <2>3. dropped' = Cardinality(lost') /\ lost' = lost \union Head(calls)
    BY <1>0, <1>1, <1>9, <2>1, <2>2, DropCounts
  <2> QED BY <1>1, <1>3, <1>9, <2>1, <2>2, <2>3 DEF Places, pushVars
<1> QED BY <1>5, <1>6, <1>7, <1>8, <1>10, <1>11 DEF LoopNext

-----------------------------------------------------------------------------
(* What an outcome has been through when it is lost.                       *)

HeadTried == calls # << >> => \A op \in Head(calls) : fails[op] >= tries

\* An outcome is lost because its push timed out, its tries are spent, or the
\* completer's life has ended, which none of the steps undoes.
LEMMA LossesExplained ==
  ASSUME Typed, Busy, HeadTried, LostOnlyWhenStuck, [CompleterNext]_completerVars
  PROVE  HeadTried' /\ LostOnlyWhenStuck'
<1>0. /\ fails \in [Ops -> Nat] /\ tries \in Nat /\ MaxTries \in Nat
      /\ calls \in Seq(SUBSET Ops) /\ buf \in Seq(Ops) /\ lost \subseteq Ops /\ ch \in Seq(Ops)
  BY SizesAssumption DEF Typed, CompleterTypeOK
<1>1. ASSUME UNCHANGED <<calls, tries, fails, lost>>, expired \subseteq expired', lifetime' => lifetime
      PROVE  HeadTried' /\ LostOnlyWhenStuck'
  BY <1>1 DEF HeadTried, LostOnlyWhenStuck
<1>2. ASSUME calls' # << >> => /\ Head(calls') \in SUBSET Ops
                              /\ tries' = 0,
             UNCHANGED <<expired, fails, lifetime>>,
             \A op \in lost' \ lost : fails[op] >= MaxTries \/ ~lifetime
      PROVE  HeadTried' /\ LostOnlyWhenStuck'
  BY <1>0, <1>2 DEF HeadTried, LostOnlyWhenStuck
<1>3. \A s \in Seq(SUBSET Ops) : s # << >> => Head(s) \in SUBSET Ops
  BY HeadTailProperties
<1>12. \A s \in Seq(Ops), op \in Ops : Append(s, op) \in Seq(Ops) /\ Append(s, op) # << >>
  BY AppendProperties
<1>4. ASSUME NEW op \in Ops, Claimed(op) \/ Push(op) \/ PushUnblocked(op)
      PROVE  HeadTried' /\ LostOnlyWhenStuck'
  BY <1>1, <1>4 DEF Claimed, Push, PushUnblocked, loopVars, stopVars
<1>5. ASSUME NEW op \in Ops, PushTimesOut(op)
      PROVE  HeadTried' /\ LostOnlyWhenStuck'
  <2>1. /\ UNCHANGED <<calls, tries, fails, lifetime>> /\ lost' = lost \union {op}
        /\ expired' = expired \union {op}
    BY <1>5 DEF PushTimesOut, Drop, loopVars, stopVars
  <2> QED BY <2>1 DEF HeadTried, LostOnlyWhenStuck
<1>6. CASE Receive \/ TimerFires \/ ReceiveClosed
  <2>1. UNCHANGED <<expired, fails, lifetime, lost>>
    BY <1>6 DEF Receive, TimerFires, ReceiveClosed, pushVars, stopVars
  <2>2. CASE UNCHANGED <<calls, tries>>
    BY <1>1, <2>1, <2>2
  <2>3. CASE ~UNCHANGED <<calls, tries>>
    <3>1. PICK ops \in Seq(Ops) : ops # << >> /\ Flush(ops)
      <4>1. CASE Receive
        <5>1. Flush(Append(buf, Head(ch)))
          BY <2>3, <4>1 DEF Receive
        <5>2. Head(ch) \in Ops
          BY <1>0, <4>1, HeadTailProperties DEF Receive
        <5>3. Append(buf, Head(ch)) \in Seq(Ops) /\ Append(buf, Head(ch)) # << >>
          BY <1>0, <1>12, <5>2
        <5> QED BY <5>1, <5>3
      <4>2. CASE TimerFires \/ ReceiveClosed
        BY <1>0, <2>3, <4>2 DEF TimerFires, ReceiveClosed
      <4> QED BY <1>6, <4>1, <4>2
    <3>2. calls' \in Seq(SUBSET Ops) /\ tries' = 0
      BY <3>1, Flushed
    <3> QED BY <1>2, <1>3, <2>1, <3>2
  <2> QED BY <2>2, <2>3
<1>7. ASSUME loop \in {"calling", "backoff"}, NextCall
      PROVE  calls' \in Seq(SUBSET Ops) /\ tries' = 0
  BY <1>0, <1>7, CallDone DEF Busy
<1>8. CASE CallSucceeds
  <2>1. /\ loop = "calling" /\ NextCall /\ UNCHANGED <<expired, fails, lifetime, lost>>
    BY <1>8 DEF CallSucceeds, pushVars, stopVars
  <2> QED BY <1>2, <1>3, <1>7, <2>1
<1>9. CASE BackoffAborted
  <2>1. /\ loop = "backoff" /\ ~lifetime /\ NextCall
        /\ UNCHANGED <<expired, fails, lifetime>>
    BY <1>9 DEF BackoffAborted, pushVars, stopVars
  <2> QED BY <1>2, <1>3, <1>7, <2>1
<1>10. CASE CallFails
  <2> DEFINE H == Head(calls)
  <2>1. /\ loop = "calling" /\ UNCHANGED <<expired, lifetime>>
        /\ fails' = [op \in Ops |-> IF op \in H THEN fails[op] + 1 ELSE fails[op]]
    BY <1>10 DEF CallFails, pushVars, stopVars
  <2>2. H \in SUBSET Ops /\ \A op \in H : fails[op] >= tries
    BY <1>3, <1>0, <2>1 DEF HeadTried, Busy
  <2> HIDE DEF H
  <2>3. /\ \A op \in Ops : fails'[op] >= fails[op]
        /\ \A op \in H : fails'[op] >= tries + 1
        /\ fails' \in [Ops -> Nat]
    BY <1>0, <2>1, <2>2
  <2>4. CASE ~lifetime \/ tries + 1 >= MaxTries
    <3>1. NextCall /\ lost' = lost \union H
      BY <1>10, <2>4 DEF CallFails, Drop, H
    <3>2. (calls' # << >> => Head(calls') \in SUBSET Ops) /\ tries' = 0
      BY <1>3, <1>7, <2>1, <3>1
    <3>3. HeadTried'
      BY <2>3, <3>2 DEF HeadTried
    <3>4. \A op \in H : fails'[op] >= MaxTries \/ ~lifetime
      BY <1>0, <2>2, <2>3, <2>4
    <3>5. \A op \in lost : fails[op] >= MaxTries => fails'[op] >= MaxTries
      BY <1>0, <2>3
    <3> QED BY <2>1, <3>1, <3>3, <3>4, <3>5 DEF LostOnlyWhenStuck
  <2>5. CASE ~(~lifetime \/ tries + 1 >= MaxTries)
    <3>1. tries' = tries + 1 /\ UNCHANGED <<calls, lost>>
      BY <1>10, <2>5 DEF CallFails
    <3>2. \A op \in lost : fails[op] >= MaxTries => fails'[op] >= MaxTries
      BY <1>0, <2>3
    <3>3. HeadTried'
      BY <2>3, <3>1 DEF HeadTried, H
    <3> QED BY <2>1, <3>1, <3>2, <3>3 DEF LostOnlyWhenStuck
  <2> QED BY <2>4, <2>5
<1>11. CASE BackoffEnds \/ StopBegins \/ StopAborts \/ StopEnds \/ UNCHANGED completerVars
  <2>1. UNCHANGED <<calls, fails, lost, expired, tries>> /\ (lifetime' => lifetime)
    BY <1>11 DEF BackoffEnds, StopBegins, StopAborts, StopEnds, completerVars, pushVars, loopVars, stopVars
  <2> QED BY <1>1, <2>1
<1> QED BY <1>4, <1>5, <1>6, <1>8, <1>9, <1>10, <1>11 DEF CompleterNext, PushNext, LoopNext, Finished

-----------------------------------------------------------------------------
(* The theorems.                                                           *)

IInv == Typed /\ Busy /\ Closing /\ Places /\ HeadTried /\ LostOnlyWhenStuck

\* A new completer is in order.
LEMMA InitInv == CompleterInit => IInv
<1> SUFFICES ASSUME CompleterInit PROVE IInv
  OBVIOUS
<1> USE DEF CompleterInit
<1>1. << >> \in Seq(Ops) /\ << >> \in Seq(SUBSET Ops) /\ Len(<< >>) = 0
  BY EmptySeq
<1>2. Typed /\ Busy
  <2>1. Len(ch) <= Capacity /\ Len(buf) < FlushSize /\ tries \in 0..(MaxTries - 1) /\ dropped \in Nat
    BY <1>1, SizesAssumption
  <2>2. pushes \in [Ops -> PushPhases] /\ fails \in [Ops -> Nat]
    BY DEF PushPhases
  <2>3. Busy
    BY DEF Busy
  <2> QED BY <1>1, <2>1, <2>2, <2>3 DEF Typed, CompleterTypeOK, LoopPhases, StopPhases
<1>3. Closing
  BY DEF Closing
<1>4. Pushed = {}
  BY DEF Pushed
<1>5. UNION ToSet(<< >>) = {}
  BY OfEmpty
<1>6. Places
  BY <1>4, <1>5, OfEmpty, FS_EmptySet DEF Places, Accounted
<1>7. HeadTried /\ LostOnlyWhenStuck
  BY DEF HeadTried, LostOnlyWhenStuck
<1> QED BY <1>2, <1>3, <1>6, <1>7 DEF IInv

\* Every step keeps it so.
LEMMA NextInv == IInv /\ [CompleterNext]_completerVars => IInv'
<1> SUFFICES ASSUME IInv, [CompleterNext]_completerVars PROVE IInv'
  OBVIOUS
<1> USE DEF IInv
<1>0. HeadTried' /\ LostOnlyWhenStuck'
  BY LossesExplained
<1>1. ASSUME NEW op \in Ops, (~closed /\ Claimed(op)) \/ PushNext(op) PROVE IInv'
  BY <1>0, <1>1, PushTyped, PushClosing, PushPlaces
<1>2. CASE LoopNext
  BY <1>0, <1>2, LoopTyped, LoopClosing, LoopPlaces
<1>3. CASE (Quiet /\ StopBegins) \/ StopAborts \/ StopEnds
  <2>1. Typed' /\ Busy' /\ Closing'
    BY <1>3, StopTyped, StopClosing
  <2>2. UNCHANGED <<pushVars, ch, loopVars, dropped, lost>>
    BY <1>3 DEF StopBegins, StopAborts, StopEnds
  <2>3. Places'
    BY <2>2 DEF Places, Pushed, pushVars, loopVars
  <2> QED BY <1>0, <2>1, <2>3
<1>4. CASE UNCHANGED completerVars
  <2>1. Typed' /\ Busy'
    BY <1>4, StillTyped
  <2>2. Closing' /\ Places'
    BY <1>4 DEF Closing, Quiet, Places, Pushed, completerVars
  <2> QED BY <1>0, <2>1, <2>2
<1> QED BY <1>1, <1>2, <1>3, <1>4 DEF CompleterNext, Finished

\* The invariant of the completer.
LEMMA Invariance == CompleterSpec => []IInv
<1>1. CompleterSpec => CompleterInit /\ [][CompleterNext]_completerVars
  BY PTL DEF CompleterSpec
<1> QED BY <1>1, InitInv, NextInv, PTL

\* The variables of completer.go keep their types: the channel never holds more
\* than its capacity, and the buffer is always short of a flush.
THEOREM TypeCorrect == CompleterSpec => []CompleterTypeOK
<1>1. IInv => CompleterTypeOK
  BY DEF IInv, Typed
<1> QED BY <1>1, Invariance, PTL

\* Every outcome whose push has returned is in one place, recorded, or counted as
\* dropped, and none is under way once stop has returned.
THEOREM EachInOnePlace == CompleterSpec => []NothingForgotten
<1>1. IInv => NothingForgotten
  <2> SUFFICES ASSUME IInv PROVE NothingForgotten
    OBVIOUS
  <2>1. stopper = "stopped" => loop = "done" /\ InFlight = {}
    BY DoneMeansEmpty DEF IInv, Closing
  <2>2. Accounted(Pushed, ToSet(ch), ToSet(buf), UNION ToSet(calls), recorded, lost)
        /\ dropped = Cardinality(lost)
    BY DEF IInv, Places
  <2> QED BY <2>1, <2>2 DEF Accounted, Pushed, InFlight, NothingForgotten
<1> QED BY <1>1, Invariance, PTL

\* Outside an aborted shutdown an outcome is dropped only for a push that timed
\* out or MaxTries failed calls it was itself in.
THEOREM LossesHaveReasons == CompleterSpec => []LostOnlyWhenStuck
<1>1. IInv => LostOnlyWhenStuck
  BY DEF IInv
<1> QED BY <1>1, Invariance, PTL

-----------------------------------------------------------------------------
(* The client around the completer.                                        *)

ClientTyped ==
    /\ started \in BOOLEAN /\ stopping \in BOOLEAN
    /\ fetching \in LoopStates /\ beating \in LoopStates
    /\ fetchAlive \in BOOLEAN /\ liveAlive \in BOOLEAN
    /\ drain \in DrainStates
    /\ callers \in [Callers -> CallStates]
    /\ drained \subseteq Callers
    /\ cancelled \subseteq Ops
    /\ starts \in 0..MaxStarts

\* What a shutdown has brought to an end by the time the drain is at each of its
\* steps, and what has not been touched before.
Orderly ==
    /\ started => ~stopping
    /\ stopping <=> drain # "off"
    /\ started \/ stopping => starts > 0
    /\ started \/ drain \in {"fetchers", "jobs"} =>
          beating = "running" /\ liveAlive /\ ~closed /\ stopper = "idle"
    /\ drain = "beats" => ~closed /\ stopper = "idle"
    /\ drain \in {"jobs", "beats", "completer"} => fetching = "exited"
    /\ drain \in {"beats", "completer"} => AtWork = {}
    /\ drain = "completer" => beating = "exited"
    /\ ~started /\ ~stopping =>
          /\ AtWork = {}
          /\ starts = 0 => fetching = "off" /\ ~closed
          /\ starts > 0 => fetching = "exited" /\ beating = "exited" /\ stopper = "stopped"

ClientInv == Typed /\ Busy /\ Closing /\ ClientTyped /\ Orderly

-----------------------------------------------------------------------------
(* The steps of the client.                                                *)

\* Nobody is at work exactly if all is quiet.
LEMMA QuietMeansNoWork == Quiet <=> AtWork = {}
  BY DEF Quiet, AtWork

\* Start replaces the completer.
LEMMA StartKeeps ==
  ASSUME ClientInv, Start
  PROVE  ClientInv'
<1> USE DEF ClientInv, Start, MayStart
<1>0. << >> \in Seq(Ops) /\ << >> \in Seq(SUBSET Ops) /\ Len(<< >>) = 0
  BY EmptySeq
<1>1. Typed'
  <2>1. /\ ch' \in Seq(Ops) /\ Len(ch') <= Capacity /\ buf' \in Seq(Ops) /\ Len(buf') < FlushSize
        /\ calls' \in Seq(SUBSET Ops) /\ tries' \in 0..(MaxTries - 1) /\ dropped' \in Nat
    BY <1>0, SizesAssumption
  <2>2. /\ pushes' \in [Ops -> PushPhases] /\ loop' \in LoopPhases /\ stopper' \in StopPhases
        /\ closed' \in BOOLEAN /\ lifetime' \in BOOLEAN
    BY DEF Typed, CompleterTypeOK, LoopPhases, StopPhases, pushVars
  <2>3. recorded' \subseteq Ops /\ lost' \subseteq Ops /\ expired' \subseteq Ops
        /\ fails' \in [Ops -> Nat]
    BY DEF Typed, pushVars
  <2> QED BY <2>1, <2>2, <2>3 DEF Typed, CompleterTypeOK
<1>2. Busy' /\ Closing'
  BY DEF Busy, Closing
<1>3. ClientTyped'
  BY CallersAssumption DEF ClientTyped, LoopStates
<1>4. Orderly'
  BY DEF Orderly, ClientTyped, DrainStates
<1> QED BY <1>1, <1>2, <1>3, <1>4

\* The dispatcher claims a job, or its outcome is pushed.
LEMMA WorkKeeps ==
  ASSUME ClientInv, NEW op \in Ops,
         Fetch(op) \/ (PushNext(op) /\ UNCHANGED clientVars)
  PROVE  ClientInv'
<1> USE DEF ClientInv
<1>1. pushes \in [Ops -> PushPhases]
  BY DEF Typed, CompleterTypeOK
<1>2. CASE Fetch(op)
  <2>1. ~closed /\ (started \/ drain = "fetchers")
    BY <1>2 DEF Fetch, Orderly, ClientTyped, DrainStates
  <2>2. Claimed(op) /\ UNCHANGED clientVars
    BY <1>2 DEF Fetch
  <2>3. Typed' /\ Busy' /\ Closing'
    BY <2>1, <2>2, PushTyped, PushClosing
  <2>4. UNCHANGED <<closed, stopper>>
    BY <2>2 DEF Claimed, stopVars
  <2> QED BY <2>1, <2>2, <2>3, <2>4 DEF Orderly, ClientTyped, clientVars
<1>3. CASE PushNext(op) /\ UNCHANGED clientVars
  <2>1. op \in AtWork /\ UNCHANGED <<closed, stopper>>
    BY <1>3 DEF PushNext, Push, PushUnblocked, PushTimesOut, AtWork, stopVars
  <2>2. Typed' /\ Busy' /\ Closing'
    BY <1>3, PushTyped, PushClosing
  <2> QED BY <1>3, <2>1, <2>2 DEF Orderly, ClientTyped, clientVars
<1> QED BY <1>2, <1>3

\* The loop or stop of the completer takes a step.
LEMMA CompleterKeeps ==
  ASSUME ClientInv, LoopNext \/ StopAborts \/ StopEnds, UNCHANGED clientVars
  PROVE  ClientInv'
<1> USE DEF ClientInv
<1>1. Typed' /\ Busy' /\ Closing'
  BY LoopTyped, StopTyped, LoopClosing, StopClosing
<1>2. UNCHANGED <<pushes, closed>>
  BY DEF LoopNext, Receive, TimerFires, ReceiveClosed, CallSucceeds, CallFails, BackoffEnds,
         BackoffAborted, StopAborts, StopEnds, pushVars, stopVars
<1>3. stopper' = stopper \/ (stopper \in {"draining", "aborting"})
  BY DEF LoopNext, Receive, TimerFires, ReceiveClosed, CallSucceeds, CallFails, BackoffEnds,
         BackoffAborted, StopAborts, StopEnds, pushVars, stopVars
<1>4. AtWork' = AtWork
  BY <1>2 DEF AtWork
<1> QED BY <1>1, <1>2, <1>3, <1>4 DEF Orderly, ClientTyped, clientVars

\* Steps that leave the completer alone.
LEMMA ClientKeeps ==
  ASSUME ClientInv, UNCHANGED completerVars,
         \/ StartContextEnds \/ FetcherExits \/ HeartbeatExits
         \/ AwaitFetchers \/ AwaitJobs \/ AwaitCompleter
         \/ UNCHANGED clientVars
         \/ \E s \in Callers : CallNext(s)
  PROVE  ClientInv'
<1> USE DEF ClientInv, LoopStates, DrainStates, CallStates
<1>1. Typed' /\ Busy'
  BY StillTyped
<1>2. Closing' /\ AtWork' = AtWork /\ UNCHANGED <<closed, stopper>> /\ AtWork \subseteq Ops
  BY DEF Closing, Quiet, AtWork, completerVars
<1>3. CASE StartContextEnds
  BY <1>1, <1>2, <1>3 DEF StartContextEnds, Orderly, ClientTyped
<1>4. CASE FetcherExits
  BY <1>1, <1>2, <1>4 DEF FetcherExits, Orderly, ClientTyped
<1>5. CASE HeartbeatExits
  BY <1>1, <1>2, <1>5 DEF HeartbeatExits, Orderly, ClientTyped
<1>6. CASE AwaitFetchers
  BY <1>1, <1>2, <1>6 DEF AwaitFetchers, FetchersDone, DrainVars, Orderly, ClientTyped
<1>7. CASE AwaitJobs
  BY <1>1, <1>2, <1>7, QuietMeansNoWork DEF AwaitJobs, DrainVars, Orderly, ClientTyped
<1>8. CASE AwaitCompleter
  <2> HIDE DEF LoopStates, CallStates
  <2>1. /\ drain = "completer" /\ stopper = "stopped" /\ stopping' = FALSE /\ drain' = "off"
        /\ UNCHANGED <<DrainVars, beating, liveAlive>>
    BY <1>8 DEF AwaitCompleter
  <2>2. stopping /\ ~started /\ starts > 0 /\ AtWork = {}
        /\ fetching = "exited" /\ beating = "exited"
    BY <2>1 DEF Orderly, ClientTyped
  <2>3. drained' \subseteq Callers
    BY <1>8 DEF AwaitCompleter, ClientTyped
  <2>4. ClientTyped'
    BY <2>1, <2>3 DEF ClientTyped, DrainVars
  <2>5. started' = FALSE /\ starts' = starts /\ AtWork' = {} /\ fetching' = "exited"
        /\ beating' = "exited" /\ stopper' = "stopped"
    BY <1>2, <2>1, <2>2 DEF DrainVars
  <2>6. Orderly'
    <3>1. starts \in Nat
      BY DEF ClientTyped
    <3> QED BY <2>1, <2>2, <2>5, <3>1 DEF Orderly
  <2> QED BY <1>1, <1>2, <2>4, <2>6
<1>9. CASE UNCHANGED clientVars
  BY <1>1, <1>2, <1>9 DEF clientVars, Orderly, ClientTyped
<1>10. ASSUME NEW s \in Callers, CallNext(s) PROVE ClientInv'
  <2>1. CASE Stop(s)
    BY <1>1, <1>2, <2>1 DEF Stop, Orderly, ClientTyped
  <2>2. CASE CancelFirst(s)
    BY <1>1, <1>2, <2>2 DEF CancelFirst, Orderly, ClientTyped
  <2>3. CASE LosePatience(s)
    BY <1>1, <1>2, <2>3 DEF LosePatience, Orderly, ClientTyped
  <2>4. CASE GraceEnds(s)
    BY <1>1, <1>2, <2>4 DEF GraceEnds, Orderly, ClientTyped
  <2>5. CASE StopReturnsNil(s)
    BY <1>1, <1>2, <2>5 DEF StopReturnsNil, Orderly, ClientTyped
  <2> QED BY <1>10, <2>1, <2>2, <2>3, <2>4, <2>5 DEF CallNext
<1> QED BY <1>3, <1>4, <1>5, <1>6, <1>7, <1>8, <1>9, <1>10

\* The drain closes the channel when the jobs and the heartbeats have ended.
LEMMA AwaitBeatsKeeps ==
  ASSUME ClientInv, AwaitBeats
  PROVE  ClientInv'
<1> USE DEF ClientInv
<1>1. /\ Quiet /\ StopBegins /\ AtWork = {} /\ beating = "exited"
      /\ drain = "beats" /\ drain' = "completer"
      /\ UNCHANGED <<DrainVars, drained, stopping, beating, liveAlive>>
  BY QuietMeansNoWork DEF AwaitBeats, Orderly
<1>2. Typed' /\ Busy' /\ Closing'
  BY <1>1, StopTyped, StopClosing
<1>3. AtWork' = AtWork
  BY <1>1 DEF StopBegins, pushVars, AtWork
<1> QED BY <1>1, <1>2, <1>3 DEF Orderly, ClientTyped, DrainStates, DrainVars

\* Before the first Start all is in order.
LEMMA InitClientInv == Init => ClientInv
<1> SUFFICES ASSUME Init PROVE ClientInv
  OBVIOUS
<1>1. Typed /\ Busy /\ Closing
  BY InitInv DEF Init, IInv
<1>2. AtWork = {}
  BY DEF Init, CompleterInit, AtWork
<1>3. ClientTyped
  <2>1. callers \in [Callers -> CallStates]
    BY DEF Init, CallStates
  <2>2. starts \in 0..MaxStarts
    BY CallersAssumption DEF Init
  <2> QED BY <2>1, <2>2 DEF Init, ClientTyped, LoopStates, DrainStates
<1>4. Orderly
  BY <1>2 DEF Init, CompleterInit, Orderly
<1> QED BY <1>1, <1>3, <1>4 DEF ClientInv

\* Every step keeps it so.
LEMMA NextClientInv == ClientInv /\ [Next]_vars => ClientInv'
<1> SUFFICES ASSUME ClientInv, [Next]_vars PROVE ClientInv'
  OBVIOUS
<1>1. CASE Start
  BY <1>1, StartKeeps
<1>2. ASSUME NEW op \in Ops, Fetch(op) PROVE ClientInv'
  BY <1>2, WorkKeeps
<1>3. CASE CompleterStep
  BY <1>3, WorkKeeps, CompleterKeeps DEF CompleterStep
<1>4. CASE StartContextEnds \/ FetcherExits \/ HeartbeatExits
  BY <1>4, ClientKeeps DEF StartContextEnds, FetcherExits, HeartbeatExits
<1>5. ASSUME NEW s \in Callers, CallNext(s) PROVE ClientInv'
  BY <1>5, ClientKeeps DEF CallNext, Stop, CancelFirst, LosePatience, GraceEnds, StopReturnsNil
<1>6. CASE DrainNext
  BY <1>6, ClientKeeps, AwaitBeatsKeeps DEF DrainNext, AwaitFetchers, AwaitJobs, AwaitCompleter
<1>7. CASE UNCHANGED vars
  BY <1>7, ClientKeeps DEF vars
<1> QED BY <1>1, <1>2, <1>3, <1>4, <1>5, <1>6, <1>7 DEF Next, AtRest

\* The invariant of the client.
LEMMA ClientInvariance == Spec => []ClientInv
  BY InitClientInv, NextClientInv, PTL DEF Spec

-----------------------------------------------------------------------------
(* The theorems.                                                           *)

\* The variables keep their types through any number of shutdowns and restarts.
THEOREM ClientTypeCorrect == Spec => []TypeOK
<1>1. ClientInv => TypeOK
  BY DEF ClientInv, Typed, ClientTyped, TypeOK
<1> QED BY <1>1, ClientInvariance, PTL

\* The completer's channel is closed only when no runJob is left that could send
\* on it and no dispatcher that could start one.
THEOREM NoSendAfterClose == Spec => []SendsAreSafe
<1>1. ClientInv => SendsAreSafe
  BY DEF ClientInv, Orderly, ClientTyped, DrainStates, SendsAreSafe
<1> QED BY <1>1, ClientInvariance, PTL

\* While a job is at work, heartbeats are sent.
THEOREM HeartbeatsOutliveJobs == Spec => []BeatsOutliveJobs
<1>1. ClientInv => BeatsOutliveJobs
  BY DEF ClientInv, Orderly, ClientTyped, DrainStates, BeatsOutliveJobs
<1> QED BY <1>1, ClientInvariance, PTL

\* A client is started again only when nothing of its earlier life is left.
THEOREM RestartsAreClean == Spec => RestartsClean
<1>1. ASSUME ClientInv, Next, ~started, started', starts > 0
      PROVE  /\ fetching = "exited" /\ beating = "exited" /\ loop = "done"
             /\ AtWork = {} /\ InFlight = {}
  <2>1. Start
    BY <1>1 DEF Next, AtRest, StartContextEnds, Fetch, FetcherExits, HeartbeatExits, CallNext,
                Stop, CancelFirst, LosePatience, GraceEnds, StopReturnsNil, DrainNext,
                AwaitFetchers, AwaitJobs, AwaitBeats, AwaitCompleter, CompleterStep, DrainVars,
                clientVars, vars
  <2>2. /\ AtWork = {} /\ fetching = "exited" /\ beating = "exited" /\ stopper = "stopped"
    BY <1>1, <2>1 DEF Start, MayStart, ClientInv, Orderly
  <2>3. loop = "done"
    BY <1>1, <2>2 DEF ClientInv, Closing
  <2> QED BY <1>1, <2>2, <2>3, DoneMeansEmpty DEF ClientInv
<1>2. ClientInv /\ [Next]_vars =>
        [~started /\ started' /\ starts > 0 =>
             /\ fetching = "exited" /\ beating = "exited" /\ loop = "done"
             /\ AtWork = {} /\ InFlight = {}]_vars
  BY <1>1
<1> QED BY <1>2, ClientInvariance, PTL DEF Spec, RestartsClean
=============================================================================
