---------------------------- MODULE MCFakeClient ----------------------------
(***************************************************************************)
(* Instances of FakeClient for TLC, and the delays of the retry policies   *)
(* against what their documentation promises.                              *)
(***************************************************************************)
EXTENDS FakeClient

MCMinInstant == -8

MCRegistered    == [curve |-> <<1, 1, 1>>]
MCFallback      == Linear(1, 0)
MCLibraryPolicy == Exponential(2, 3, 0)
MCDefaults      == [Unset EXCEPT !.maxAttempts = 2, !.policy = MCFallback]
MCQueueOrder    == <<"a", "default">>
MCResults       == <<{"ok", "error"}, {"cancel", "error"}, {"snooze", "retryAt", "error"}>>

Plain         == [options |-> Unset, priority |-> 0]
OfKind(field, value) == [Plain EXCEPT !.options[field] = value]
With(field, value)   == [field |-> field, value |-> value]

\* One job's curve is unknown to this process, one's wait is past the range, one
\* backs off exponentially and runs later or in the default queue.
FarAway  == [kind |-> [OfKind("queue", "a") EXCEPT !.options.policy = Named("elsewhere")],
             opts |-> << >>]
Boosted  == [kind |-> [OfKind("queue", "a") EXCEPT !.priority = 1],
             opts |-> <<With("policy", Fixed(7))>>]
Doubling == [kind |-> OfKind("policy", Exponential(1, 2, 0)), opts |-> << >>]
Later    == [Doubling EXCEPT !.opts = <<With("queue", "default"), With("at", 1), With("queue", "a")>>]

\* Two layers, each of them sound, that contradict each other.
Contradiction == [kind |-> OfKind("delay", 1), opts |-> <<With("at", 1)>>]

MCInserts == <<{<<FarAway>>},
               {<<Boosted>>, <<Boosted, Later>>, <<Doubling, Contradiction>>},
               {<<Doubling>>}>>

\* The most specific layer that sets an option decides it, whatever the others set.
ASSUME MostSpecificDecides ==
    \A boost, priority, over \in 0..2, fixed \in {NoPolicy, Fixed(3)},
       queue \in {"", "a"}, meta \in {"nil", "empty", "object"} :
        LET kind == [options  |-> [Unset EXCEPT !.boost = boost, !.policy = fixed,
                                                !.metadata = meta],
                     priority |-> priority]
            opts == <<With("boost", over), With("queue", queue)>>
        IN  \A f \in DOMAIN Unset :
                Resolve(kind, opts)[f] = MostSpecific(f, Layers(kind, opts))

\* The waits of the jobs above are within the range.
ASSUME WithinRange == PoliciesInRange

\* Over small policies within the range: every wait is at least the promised one
\* and, without jitter, exactly that.
ASSUME DelaysAsPromised ==
    \A n \in 1..6 :
        /\ \A base, max \in 0..4, jitter \in {0, 50} :
              LET p == Exponential(base, max, jitter)
              IN  InRange(p, n) =>
                    /\ \A d \in Delay(p, n) : d >= ShortestWait(p, n)
                    /\ jitter = 0 => Delay(p, n) = {ShortestWait(p, n)}
        /\ \A step, max \in 0..4 :
              LET p == Linear(step, max)
              IN  InRange(p, n) => Delay(p, n) = {ShortestWait(p, n)}
        /\ \A list \in {<< >>, <<3>>, <<1, 2>>, <<2, 1, 4>>} :
              Delay(Intervals(list), n) = {ShortestWait(Intervals(list), n)}
=============================================================================
