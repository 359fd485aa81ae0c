------------------------------- MODULE Options -------------------------------
(***************************************************************************)
(* options.go and client.go: what a client makes of its Config, and of the *)
(* options an enqueue is given, those of the job's kind and its own.  A    *)
(* field at its zero value is unset and left to the next layer.            *)
(*                                                                         *)
(* Of metadata only matters what JSON it is: nothing, no bytes, an object, *)
(* null, or anything else.                                                 *)
(***************************************************************************)
EXTENDS RetryPolicies, SequencesExt

CONSTANTS Defaults,         \* Config.Defaults
          LibraryPolicy     \* Exponential: 2s, at most 15m, jitter 10 per cent

Unset == [queue |-> "", boost |-> 0, maxAttempts |-> 0, policy |-> NoPolicy, timeout |-> 0,
          at |-> NoTime, delay |-> 0, metadata |-> "nil", version |-> 0]

\* Mutant: the layers take precedence the other way round.
OverlayUnder(base, over) ==
    [f \in DOMAIN base |-> IF base[f] # Unset[f] THEN base[f] ELSE over[f]]

Overlay(base, over) ==
    [f \in DOMAIN base |-> IF over[f] # Unset[f] THEN over[f] ELSE base[f]]

\* NewClient fills in what Config.Defaults leaves unset.
Library == [Unset EXCEPT !.queue = "default", !.maxAttempts = 25, !.policy = LibraryPolicy]
ClientDefaults == Overlay(Library, Defaults)

ASSUME FallbackAssumption == Fallback = ClientDefaults.policy

\* A kind has options and a Priority(), either of which may be missing.
KindOptions(kind) ==
    IF kind.options.boost = 0 THEN [kind.options EXCEPT !.boost = kind.priority]
    ELSE kind.options

\* An EnqueueOption sets a field; the last one that does counts.
Given(opts) ==
    [f \in DOMAIN Unset |->
        LET setting == {k \in DOMAIN opts : opts[k].field = f}
        IN  IF setting = {} THEN Unset[f]
            ELSE opts[CHOOSE k \in setting : \A m \in setting : m <= k].value]

Resolve(kind, opts) == Overlay(Overlay(ClientDefaults, KindOptions(kind)), Given(opts))

\* Why buildRow makes no row of resolved options.  Null passes for an object, and
\* then there is no map for the envelope to be put into.
Problem(o) ==
    CASE o.delay # 0 /\ o.at # NoTime -> "ErrConflictingOptions"
      [] o.metadata = "other"         -> "ErrInvalidMetadata"
      [] o.metadata = "null"          -> "panic"
      [] OTHER                        -> "none"

\* When and where the row is to be.
Requested(o, now) ==
    [queue |-> o.queue,
     boost |-> o.boost,
     at    |-> IF o.delay # 0 THEN now + o.delay ELSE IF o.at # NoTime THEN o.at ELSE now]

\* What else of the row an execution goes by.
Columns(o) == [maxAttempts |-> o.maxAttempts, policy |-> o.policy]

-----------------------------------------------------------------------------
(* What the documentation promises: the most specific layer that sets an    *)
(* option decides it.                                                       *)

Layers(kind, opts) == <<Given(opts), KindOptions(kind), Defaults, Library>>

MostSpecific(f, layers) ==
    LET deciding == {n \in DOMAIN layers : layers[n][f] # Unset[f]}
    IN  IF deciding = {} THEN Unset[f]
        ELSE layers[CHOOSE n \in deciding : \A m \in deciding : n <= m][f]
=============================================================================
