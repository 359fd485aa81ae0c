---------------------------- MODULE RetryPolicies ----------------------------
(***************************************************************************)
(* retry.go and policyDelay of executor.go: how long a failed job waits.   *)
(* A duration is a word that wraps, as Go's multiplication does.  A policy *)
(* is a record; jitter is a fraction in per cent, and a policy that has it *)
(* may answer anything in the range it spans.                              *)
(***************************************************************************)
EXTENDS Instants, Sequences

CONSTANTS Registered,   \* the curves RegisterRetryPolicy has in this process:
                        \* from names to functions of the attempt
          Fallback      \* Config.Defaults.RetryPolicy

NoPolicy == [type |-> "none"]

Exponential(base, max, jitter) ==
    [type |-> "exponential", base |-> base, max |-> max, jitter |-> jitter]
Linear(step, max)   == [type |-> "linear", step |-> step, max |-> max]
Fixed(interval)     == [type |-> "fixed", interval |-> interval]
Intervals(list)     == [type |-> "intervals", intervals |-> list]
Named(name)         == [type |-> "named", name |-> name]

\* A product may wrap more than once.
WrapProduct(n) == ((n - MinInstant) % Span) + MinInstant

Capped(p, d) == IF p.max > 0 /\ d > p.max THEN p.max ELSE d

\* Base after k doublings.  Once the cap is reached the loop is left, so what
\* is at the cap is not doubled past the range.
Doubled(p) ==
    LET d[k \in Nat] ==
            IF k = 0 THEN p.base
            ELSE IF k > 1 /\ p.max > 0 /\ d[k - 1] = p.max THEN p.max
            ELSE IF p.max > 0 /\ Wrap(2 * d[k - 1]) >= p.max THEN p.max
            ELSE Wrap(2 * d[k - 1])
    IN  d

Spread(d, jitter) ==
    LET part == ((IF d < 0 THEN -d ELSE d) * jitter) \div 100
    IN  (d - part)..(d + part)

Nth(list, n) ==
    IF list = << >> THEN 0
    ELSE list[IF n < 1 THEN 1 ELSE IF n > Len(list) THEN Len(list) ELSE n]

\* The waits Delay may answer after failed attempt n.
Delay(p, n) ==
    CASE p.type = "exponential" ->
            Spread(Capped(p, Doubled(p)[IF n > 1 THEN n - 1 ELSE 0]), p.jitter)
      [] p.type = "linear"    -> {Capped(p, WrapProduct(n * p.step))}
      [] p.type = "fixed"     -> {p.interval}
      [] p.type = "intervals" -> {Nth(p.intervals, n)}
      [] p.type = "named"     -> {Registered[p.name][n]}

\* What DecodeRetryPolicy makes of a job's stored policy.
Decoded(stored) ==
    IF stored.type = "named" /\ stored.name \notin DOMAIN Registered
    THEN NoPolicy ELSE stored

\* policyDelay.
PolicyOr(stored) == IF Decoded(stored) = NoPolicy THEN Fallback ELSE Decoded(stored)

\* Mutant: attempts are counted from zero.
PolicyDelayFromZero(stored, n) == Delay(PolicyOr(stored), n - 1)

PolicyDelay(stored, n) == Delay(PolicyOr(stored), n)

-----------------------------------------------------------------------------
(* What the documentation of the policies promises, for the policies whose  *)
(* waits are within the range: the least wait after failed attempt n.       *)

Least(a, b) == IF a < b THEN a ELSE b
Cap(p, d)   == IF p.max > 0 THEN Least(d, p.max) ELSE d

PowerOfTwo[k \in Nat] == IF k = 0 THEN 1 ELSE 2 * PowerOfTwo[k - 1]

ShortestWait(p, n) ==
    CASE p.type = "exponential" ->
            LET d == Cap(p, p.base * PowerOfTwo[n - 1]) IN d - (d * p.jitter) \div 100
      [] p.type = "linear"    -> Cap(p, n * p.step)
      [] p.type = "fixed"     -> p.interval
      [] p.type = "intervals" -> IF p.intervals = << >> THEN 0
                                 ELSE p.intervals[Least(n, Len(p.intervals))]
      [] p.type = "named"     -> Registered[p.name][n]

\* The waits of a policy after failed attempt n are within the range, the doubling
\* of its base and its cap included.
InRange(p, n) ==
    \/ /\ p.type = "exponential"
       /\ p.base \in Nat /\ p.max \in Int /\ p.jitter \in Nat
       /\ \/ p.base * PowerOfTwo[n - 1] <= MaxInstant
          \/ p.max > 0 /\ 2 * p.base <= MaxInstant /\ 2 * p.max <= MaxInstant
    \/ p.type = "linear" /\ p.step \in Int /\ p.max \in Int /\ n * p.step \in Instant
    \/ p.type = "fixed" /\ p.interval \in Int
    \/ p.type = "intervals" /\ p.intervals \in Seq(Int)
    \/ p.type = "named" /\ Registered[p.name][n] \in Int
=============================================================================
