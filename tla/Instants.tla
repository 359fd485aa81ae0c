------------------------------ MODULE Instants ------------------------------
(***************************************************************************)
(* Instants as goque stores them (backend/time.go): a signed count of      *)
(* nanoseconds since the epoch that wraps around, MinInstant..MaxInstant.  *)
(* In the code the width is 64 bits; the constants let it be anything.     *)
(***************************************************************************)
EXTENDS Integers

CONSTANTS MinInstant,   \* math.MinInt64 nanoseconds
          MaxInstant    \* math.MaxInt64 nanoseconds

ASSUME InstantRange == /\ MaxInstant \in Nat
                       /\ MinInstant = -MaxInstant - 1

Instant  == MinInstant..MaxInstant
Duration == MinInstant..MaxInstant          \* time.Duration has the same width

\* The zero time.Time lies in year 1, before every storable instant.
NoTime == MinInstant - 1

\* Two's complement: the difference of two words is off by at most one span.
Span == MaxInstant - MinInstant + 1
Wrap(n) == IF n > MaxInstant THEN n - Span
           ELSE IF n < MinInstant THEN n + Span
           ELSE n

ValidateInstant(t) == t \in Instant

\* res > ns although d > 0, or res < ns although d < 0: the word wrapped.
SubWraps(t, d) == LET res == Wrap(t - d)
                  IN  (d > 0 /\ res > t) \/ (d < 0 /\ res < t)

\* SubDuration reports an error unless this holds; its value is then t - d.
SubStorable(t, d) == ValidateInstant(t) /\ ~SubWraps(t, d)
SubDuration(t, d) == Wrap(t - d)

\* An instant pinned to the nearer end of the range.
Clamp(t) == IF t < MinInstant THEN MinInstant
            ELSE IF t > MaxInstant THEN MaxInstant
            ELSE t

SubDurationClamped(time, d) ==
    LET t == Clamp(time)
    IN  IF d > 0 /\ Wrap(t - d) > t THEN MinInstant
        ELSE IF d < 0 /\ Wrap(t - d) < t THEN MaxInstant
        ELSE Wrap(t - d)
=============================================================================
