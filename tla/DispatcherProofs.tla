--------------------------- MODULE DispatcherProofs ---------------------------
(***************************************************************************)
(* Theorems about Dispatcher for every set of queues, every weight and     *)
(* Concurrency and every MaxWorkers: the caps hold, strict priority is     *)
(* kept, the credits of the weighted share never run away, and no queue    *)
(* that has room waits long to come first.                                 *)
(*                                                                         *)
(* The counters of the client are sums over its queues, so the first part  *)
(* is about sums: what one does when one of its terms changes.  The        *)
(* library's induction theorems take an operator, which no prover here can *)
(* instantiate; the proofs below argue with the smallest counterexample    *)
(* instead, which strict inclusion between the subsets of a finite set     *)
(* always has.                                                             *)
(***************************************************************************)
EXTENDS Dispatcher, FunctionTheorems, FiniteSetTheorems, SequenceTheorems,
        WellFoundedInduction, TLAPS

-----------------------------------------------------------------------------
(* Sums over finite sets.                                                  *)

\* A family of subsets of a finite set has a member with no other inside it.
LEMMA SmallestSet ==
  ASSUME NEW S, IsFiniteSet(S), NEW F \in SUBSET SUBSET S, F # {}
  PROVE  \E T \in F : \A U \in F : U \subseteq T => U = T
<1> DEFINE R == StrictSubsetOrdering(S)
<1>1. IsWellFoundedOn(R, SUBSET S)
  BY FS_StrictSubsetOrderingWellFounded, FS_FiniteSubsetsOfFinite
<1>2. PICK T \in F : \A U \in F : ~(<<U, T>> \in R)
  <2> HIDE DEF R
  <2> QED BY <1>1, WFMin
<1> QED BY <1>2 DEF StrictSubsetOrdering

One(T) == CHOOSE x \in T : TRUE

\* The function the fold is computed with.
Sums(g, f, S) ==
    g = [T \in SUBSET S |-> IF T = {} THEN 0 ELSE f[One(T)] + g[T \ {One(T)}]]

LEMMA TotalUnfolds == \A f, S : Total(f, S) = (CHOOSE g : Sums(g, f, S))[S]
  BY DEF Total, Sums, One, MapThenSumSet, MapThenFoldSet

\* Two such functions agree wherever both are defined.
LEMMA SumsAgree ==
  ASSUME NEW f, NEW A, NEW B, IsFiniteSet(A), NEW g, NEW h,
         Sums(g, f, A), Sums(h, f, B)
  PROVE  \A T \in SUBSET A : T \subseteq B => g[T] = h[T]
<1> DEFINE F == {T \in SUBSET A : T \subseteq B /\ g[T] # h[T]}
<1> SUFFICES ASSUME F # {} PROVE FALSE
  OBVIOUS
<1>1. PICK T \in F : \A U \in F : U \subseteq T => U = T
  <2>1. F \in SUBSET SUBSET A
    OBVIOUS
  <2> HIDE DEF F
  <2> QED BY <2>1, SmallestSet
<1>2. T \subseteq A /\ T \subseteq B /\ g[T] # h[T]
  OBVIOUS
<1>3. /\ g[T] = IF T = {} THEN 0 ELSE f[One(T)] + g[T \ {One(T)}]
      /\ h[T] = IF T = {} THEN 0 ELSE f[One(T)] + h[T \ {One(T)}]
  BY <1>2 DEF Sums
<1>4. T # {}
  BY <1>2, <1>3
<1>5. One(T) \in T
  BY <1>4 DEF One
<1>6. T \ {One(T)} \notin F
  BY <1>1, <1>5
<1> QED BY <1>2, <1>3, <1>4, <1>6

\* There is one for every finite set.
LEMMA SumsExist ==
  ASSUME NEW f, NEW S, IsFiniteSet(S)
  PROVE  \E g : Sums(g, f, S)
<1> DEFINE F == {T \in SUBSET S : ~ \E g : Sums(g, f, T)}
<1> SUFFICES ASSUME F # {} PROVE FALSE
  OBVIOUS
<1>1. PICK T \in F : \A U \in F : U \subseteq T => U = T
  <2>1. F \in SUBSET SUBSET S
    OBVIOUS
  <2> HIDE DEF F
  <2> QED BY <2>1, SmallestSet
<1>2. T \subseteq S /\ ~ \E g : Sums(g, f, T)
  OBVIOUS
<1>3. \A U \in SUBSET T : U # T => \E g : Sums(g, f, U)
  BY <1>1, <1>2
<1> DEFINE G(U) == CHOOSE g : Sums(g, f, U)
           h == [U \in SUBSET T |->
                   IF U = {} THEN 0 ELSE f[One(U)] + G(U \ {One(U)})[U \ {One(U)}]]
<1>4. ASSUME NEW U \in SUBSET T, U # {}
      PROVE  h[U \ {One(U)}] = G(U \ {One(U)})[U \ {One(U)}]
  <2> DEFINE V == U \ {One(U)}
  <2>1. V \in SUBSET T /\ V # T
    BY <1>4 DEF One
  <2>2. Sums(G(V), f, V)
    BY <1>3, <2>1
  <2>3. G(V)[V] = IF V = {} THEN 0 ELSE f[One(V)] + G(V)[V \ {One(V)}]
    <3> HIDE DEF G, V
    <3> QED BY <2>2 DEF Sums
  <2>4. CASE V = {}
    BY <2>1, <2>3, <2>4
  <2>5. CASE V # {}
    <3> DEFINE W == V \ {One(V)}
    <3>1. W \in SUBSET V /\ W \in SUBSET T /\ W # T
      BY <2>1
    <3>2. Sums(G(W), f, W)
      BY <1>3, <3>1
    <3>3. IsFiniteSet(W)
      BY <3>1, <1>2, FS_Subset
    <3>4. G(W)[W] = G(V)[W]
      <4> HIDE DEF G, V, W
      <4> QED BY <2>2, <3>1, <3>2, <3>3, SumsAgree
    <3>5. h[V] = f[One(V)] + G(W)[W]
      <4> HIDE DEF G, V
      <4> QED BY <2>1, <2>5
    <3> HIDE DEF h, G
    <3> QED BY <2>3, <2>5, <3>4, <3>5
  <2> QED BY <2>4, <2>5
<1>5. Sums(h, f, T)
  <2> DEFINE k == [U \in SUBSET T |->
                     IF U = {} THEN 0 ELSE f[One(U)] + h[U \ {One(U)}]]
  <2>1. \A U \in SUBSET T : h[U] = k[U]
    <3> TAKE U \in SUBSET T
    <3>1. CASE U = {}
      BY <3>1
    <3>2. CASE U # {}
      <4>1. h[U] = f[One(U)] + G(U \ {One(U)})[U \ {One(U)}]
        <5> HIDE DEF G
        <5> QED BY <3>2
      <4>2. k[U] = f[One(U)] + h[U \ {One(U)}]
        <5> HIDE DEF h
        <5> QED BY <3>2
      <4> HIDE DEF h, k, G
      <4> QED BY <1>4, <3>2, <4>1, <4>2
    <3> QED BY <3>1, <3>2
  <2>2. h = k
    BY <2>1
  <2> HIDE DEF h
  <2> QED BY <2>2 DEF Sums
<1> QED BY <1>2, <1>5

\* The sum over a set is that of one member and that of the others.
LEMMA TotalStep ==
  ASSUME NEW f, NEW S, IsFiniteSet(S)
  PROVE  /\ S = {} => Total(f, S) = 0
         /\ S # {} => Total(f, S) = f[One(S)] + Total(f, S \ {One(S)})
<1> DEFINE V == S \ {One(S)}
           G(U) == CHOOSE g : Sums(g, f, U)
<1>1. IsFiniteSet(V)
  BY FS_Subset
<1>2. Sums(G(S), f, S) /\ Sums(G(V), f, V)
  BY <1>1, SumsExist
<1>3. Total(f, S) = G(S)[S] /\ Total(f, V) = G(V)[V]
  BY TotalUnfolds
<1>4. G(V)[V] = G(S)[V]
  <2> HIDE DEF G
  <2> QED BY <1>1, <1>2, SumsAgree
<1>5. G(S)[S] = IF S = {} THEN 0 ELSE f[One(S)] + G(S)[V]
  <2> HIDE DEF G
  <2> QED BY <1>2 DEF Sums
<1> HIDE DEF G
<1> QED BY <1>3, <1>4, <1>5

\* A sum of naturals is one, and no less than any of its terms.
LEMMA TotalOfNaturals ==
  ASSUME NEW S, IsFiniteSet(S), NEW f, \A x \in S : f[x] \in Nat
  PROVE  Total(f, S) \in Nat /\ \A x \in S : f[x] <= Total(f, S)
<1> DEFINE Fine(T) == Total(f, T) \in Nat /\ \A x \in T : f[x] <= Total(f, T)
           F == {T \in SUBSET S : ~ Fine(T)}
<1> SUFFICES ASSUME F # {} PROVE FALSE
  OBVIOUS
<1>1. PICK T \in F : \A U \in F : U \subseteq T => U = T
  <2>1. F \in SUBSET SUBSET S
    OBVIOUS
  <2> HIDE DEF F
  <2> QED BY <2>1, SmallestSet
<1>2. T \subseteq S /\ ~ Fine(T)
  OBVIOUS
<1>3. IsFiniteSet(T)
  BY <1>2, FS_Subset
<1>4. CASE T = {}
  <2>1. Total(f, T) = 0
    BY <1>3, <1>4, TotalStep
  <2> QED BY <1>2, <1>4, <2>1
<1>5. CASE T # {}
  <2> DEFINE V == T \ {One(T)}
  <2>1. One(T) \in T
    BY <1>5 DEF One
  <2>2. Fine(V)
    BY <1>1, <1>2, <2>1
  <2>3. Total(f, T) = f[One(T)] + Total(f, V)
    BY <1>3, <1>5, TotalStep
  <2>4. f[One(T)] \in Nat
    BY <1>2, <2>1
  <2> QED BY <1>2, <2>1, <2>2, <2>3, <2>4
<1> QED BY <1>4, <1>5

\* A sum of zeroes is zero.
LEMMA TotalOfZeroes ==
  ASSUME NEW S, IsFiniteSet(S), NEW f, \A x \in S : f[x] = 0
  PROVE  Total(f, S) = 0
<1> DEFINE F == {T \in SUBSET S : Total(f, T) # 0}
<1> SUFFICES ASSUME F # {} PROVE FALSE
  OBVIOUS
<1>1. PICK T \in F : \A U \in F : U \subseteq T => U = T
  <2>1. F \in SUBSET SUBSET S
    OBVIOUS
  <2> HIDE DEF F
  <2> QED BY <2>1, SmallestSet
<1>2. T \subseteq S /\ Total(f, T) # 0
  OBVIOUS
<1>3. IsFiniteSet(T)
  BY <1>2, FS_Subset
<1>4. T # {}
  BY <1>2, <1>3, TotalStep
<1>5. One(T) \in T
  BY <1>4 DEF One
<1>6. Total(f, T \ {One(T)}) = 0
  <2>1. T \ {One(T)} \notin F
    BY <1>1, <1>5
  <2> QED BY <1>2, <2>1
<1>7. Total(f, T) = f[One(T)] + Total(f, T \ {One(T)})
  BY <1>3, <1>4, TotalStep
<1> QED BY <1>2, <1>5, <1>6, <1>7

\* When one term changes, the sum changes by as much.
LEMMA TotalMoves ==
  ASSUME NEW S, IsFiniteSet(S), NEW f \in [S -> Nat], NEW h \in [S -> Nat],
         NEW q \in S, \A x \in S \ {q} : h[x] = f[x]
  PROVE  Total(h, S) = Total(f, S) + (h[q] - f[q])
<1> DEFINE n == h[q] - f[q]
           Due(T) == Total(f, T) + (IF q \in T THEN n ELSE 0)
           F == {T \in SUBSET S : Total(h, T) # Due(T)}
<1> SUFFICES ASSUME F # {} PROVE FALSE
  OBVIOUS
<1>1. PICK T \in F : \A U \in F : U \subseteq T => U = T
  <2>1. F \in SUBSET SUBSET S
    OBVIOUS
  <2> HIDE DEF F
  <2> QED BY <2>1, SmallestSet
<1>2. T \subseteq S /\ Total(h, T) # Due(T)
  OBVIOUS
<1>3. IsFiniteSet(T)
  BY <1>2, FS_Subset
<1>4. T # {}
  <2>1. T = {} => Total(f, T) = 0 /\ Total(h, T) = 0
    BY <1>3, TotalStep
  <2> QED BY <1>2, <2>1
<1> DEFINE c == One(T)
           V == T \ {c}
<1>5. c \in T
  BY <1>4 DEF One
<1>6. Total(h, V) = Due(V)
  <2>1. V \notin F
    BY <1>1, <1>5
  <2> QED BY <1>2, <2>1
<1>7. /\ Total(h, T) = h[c] + Total(h, V)
      /\ Total(f, T) = f[c] + Total(f, V)
  BY <1>3, <1>4, TotalStep
<1>8. Total(f, V) \in Nat
  BY <1>2, FS_Subset, TotalOfNaturals
<1>9. f[c] \in Nat /\ n \in Int /\ h[c] = IF c = q THEN f[c] + n ELSE f[c]
  BY <1>2, <1>5
<1> HIDE DEF c, n
<1>10. CASE c = q
  BY <1>2, <1>5, <1>6, <1>7, <1>8, <1>9, <1>10
<1>11. CASE c # q
  BY <1>2, <1>5, <1>6, <1>7, <1>8, <1>9, <1>11
<1> QED BY <1>10, <1>11

\* Any term can be taken off a sum first.
LEMMA TotalWithout ==
  ASSUME NEW S, IsFiniteSet(S), NEW f, \A x \in S : f[x] \in Int, NEW x \in S
  PROVE  /\ Total(f, S) \in Int /\ Total(f, S \ {x}) \in Int
         /\ Total(f, S) = f[x] + Total(f, S \ {x})
<1> DEFINE Fine(T) == /\ Total(f, T) \in Int
                      /\ \A y \in T : Total(f, T) = f[y] + Total(f, T \ {y})
           F == {T \in SUBSET S : ~ Fine(T)}
<1>1. F = {}
  <2> SUFFICES ASSUME F # {} PROVE FALSE
    OBVIOUS
  <2>1. PICK T \in F : \A U \in F : U \subseteq T => U = T
    <3>1. F \in SUBSET SUBSET S
      OBVIOUS
    <3> HIDE DEF F
    <3> QED BY <3>1, SmallestSet
  <2>2. T \subseteq S /\ ~ Fine(T)
    OBVIOUS
  <2>3. IsFiniteSet(T)
    BY <2>2, FS_Subset
  <2>4. \A U \in SUBSET T : U # T => Fine(U)
    <3>1. \A U \in SUBSET T : U # T => U \notin F
      BY <2>1
    <3> QED BY <2>2, <3>1
  <2> HIDE DEF F, Fine
  <2>5. CASE T = {}
    <3>1. Total(f, T) = 0
      BY <2>3, <2>5, TotalStep
    <3> QED BY <2>2, <2>5, <3>1 DEF Fine
  <2>6. CASE T # {}
    <3> DEFINE c == One(T)
    <3>1. c \in T
      BY <2>6 DEF One
    <3>2. Total(f, T) = f[c] + Total(f, T \ {c})
      BY <2>3, <2>6, TotalStep
    <3> HIDE DEF c
    <3>3. f[c] \in Int /\ Total(f, T \ {c}) \in Int
      BY <2>2, <2>4, <3>1 DEF Fine
    <3>4. ASSUME NEW y \in T PROVE Total(f, T) = f[y] + Total(f, T \ {y})
      <4>1. CASE y = c
        BY <3>2, <4>1
      <4>2. CASE y # c
        <5>1. y \in T \ {c} /\ c \in T \ {y} /\ (T \ {c}) \ {y} = (T \ {y}) \ {c}
          BY <3>1, <4>2
        <5>2. Total(f, T \ {c}) = f[y] + Total(f, (T \ {c}) \ {y})
          BY <2>4, <3>1, <5>1 DEF Fine
        <5>3. Total(f, T \ {y}) = f[c] + Total(f, (T \ {c}) \ {y})
          BY <2>4, <5>1 DEF Fine
        <5>4. f[y] \in Int /\ Total(f, (T \ {c}) \ {y}) \in Int
          <6>1. (T \ {c}) \ {y} \in SUBSET T /\ (T \ {c}) \ {y} # T
            BY <3>1
          <6> QED BY <2>2, <2>4, <6>1 DEF Fine
        <5> QED BY <3>2, <3>3, <5>2, <5>3, <5>4
      <4> QED BY <4>1, <4>2
    <3>5. Total(f, T) \in Int
      BY <3>2, <3>3
    <3> QED BY <2>2, <3>4, <3>5 DEF Fine
  <2> QED BY <2>5, <2>6
<1>2. Fine(S) /\ Fine(S \ {x})
  BY <1>1
<1> QED BY <1>2

LEMMA TotalIsInt ==
  ASSUME NEW S, IsFiniteSet(S), NEW f, \A x \in S : f[x] \in Int
  PROVE  Total(f, S) \in Int
<1>1. CASE S = {}
  <2>1. Total(f, S) = 0
    BY <1>1, TotalStep
  <2> QED BY <2>1
<1>2. CASE S # {}
  BY <1>2, TotalWithout
<1> QED BY <1>1, <1>2

\* On S, g is f with w added for the members of D.
Gains(S, D, f, w, g) ==
    \A x \in S : /\ f[x] \in Int /\ w[x] \in Int
                 /\ g[x] = IF x \in D THEN f[x] + w[x] ELSE f[x]

\* When some terms of a sum gain, the sum gains as much as they do together.
LEMMA TotalGains ==
  ASSUME NEW S, IsFiniteSet(S), NEW D, NEW f, NEW w, NEW g, Gains(S, D, f, w, g)
  PROVE  Total(g, S) = Total(f, S) + Total(w, S \intersect D)
<1>0. \A x \in S : /\ f[x] \in Int /\ w[x] \in Int
                   /\ g[x] = IF x \in D THEN f[x] + w[x] ELSE f[x]
  BY DEF Gains
<1> DEFINE Fine(T) == Total(g, T) = Total(f, T) + Total(w, T \intersect D)
           F == {T \in SUBSET S : ~ Fine(T)}
<1> SUFFICES ASSUME F # {} PROVE FALSE
  OBVIOUS
<1>1. PICK T \in F : \A U \in F : U \subseteq T => U = T
  <2>1. F \in SUBSET SUBSET S
    OBVIOUS
  <2> HIDE DEF F
  <2> QED BY <2>1, SmallestSet
<1>2. T \subseteq S /\ ~ Fine(T)
  OBVIOUS
<1>3. IsFiniteSet(T) /\ IsFiniteSet(T \intersect D)
  BY <1>2, FS_Subset
<1>4. CASE T = {}
  <2>1. Total(g, T) = 0 /\ Total(f, T) = 0 /\ Total(w, T \intersect D) = 0
    BY <1>3, <1>4, TotalStep
  <2> QED BY <1>2, <2>1
<1>5. CASE T # {}
  <2>1. PICK x \in T : TRUE
    BY <1>5
  <2> DEFINE V == T \ {x}
  <2>2. Total(g, V) = Total(f, V) + Total(w, V \intersect D)
    BY <1>1, <1>2
  <2>3. \A y \in T : f[y] \in Int /\ w[y] \in Int /\ g[y] \in Int
    BY <1>0, <1>2
  <2>4. /\ Total(g, T) = g[x] + Total(g, V) /\ Total(g, V) \in Int
        /\ Total(f, T) = f[x] + Total(f, V) /\ Total(f, V) \in Int
    <3> HIDE DEF F, Fine
    <3> QED BY <1>3, <2>3, TotalWithout
  <2>5. CASE x \in D
    <3>1. x \in T \intersect D /\ (T \intersect D) \ {x} = V \intersect D
      BY <2>5
    <3>2. /\ Total(w, T \intersect D) = w[x] + Total(w, V \intersect D)
          /\ Total(w, V \intersect D) \in Int
      <4>1. \A y \in T \intersect D : w[y] \in Int
        BY <2>3
      <4>2. /\ Total(w, T \intersect D) = w[x] + Total(w, (T \intersect D) \ {x})
            /\ Total(w, (T \intersect D) \ {x}) \in Int
        <5> HIDE DEF F, Fine, V
        <5> QED BY <1>3, <3>1, <4>1, TotalWithout
      <4> QED BY <3>1, <4>2
    <3>3. g[x] = f[x] + w[x] /\ f[x] \in Int /\ w[x] \in Int
      BY <1>0, <1>2, <2>5
    <3> HIDE DEF V, F
    <3> QED BY <1>2, <2>2, <2>4, <3>2, <3>3
  <2>6. CASE x \notin D
    <3>1. T \intersect D = V \intersect D /\ g[x] = f[x] /\ f[x] \in Int
      BY <1>0, <1>2, <2>6
    <3>2. Total(w, V \intersect D) \in Int
      <4>1. IsFiniteSet(V \intersect D) /\ \A y \in V \intersect D : w[y] \in Int
        BY <1>3, <2>3, <3>1
      <4> HIDE DEF V, F, Fine
      <4> QED BY <4>1, TotalIsInt
    <3>3. Total(g, T) = f[x] + Total(f, V) + Total(w, V \intersect D)
      <4> HIDE DEF V, F
      <4> QED BY <2>2, <2>4, <3>1, <3>2
    <3>4. Total(g, T) = Total(f, T) + Total(w, T \intersect D)
      <4> HIDE DEF V, F
      <4> QED BY <2>4, <3>1, <3>2, <3>3
    <3> QED BY <1>2, <3>4
  <2> QED BY <2>5, <2>6
<1> QED BY <1>4, <1>5

-----------------------------------------------------------------------------
(* The pass.                                                               *)

\* An arrangement of a set lists every member once.
LEMMA Arrangement ==
  ASSUME NEW D, IsFiniteSet(D), NEW s \in SetToSeqs(D)
  PROVE  /\ s \in Seq(D) /\ DOMAIN s = 1..Cardinality(D) /\ Len(s) = Cardinality(D)
         /\ Cardinality(D) \in Nat
         /\ \A j, k \in DOMAIN s : s[j] = s[k] => j = k
         /\ \A q \in D : \E k \in DOMAIN s : s[k] = q
<1> DEFINE I == 1..Cardinality(D)
<1>1. Cardinality(D) \in Nat
  BY FS_CardinalityType
<1>2. s \in [I -> D] /\ \A j, k \in I : j # k => s[j] # s[k]
  BY DEF SetToSeqs
<1>3. s \in Seq(D) /\ DOMAIN s = I /\ Len(s) = Cardinality(D)
  BY <1>1, <1>2
<1>4. s \in Injection(I, D)
  BY <1>2 DEF Injection, IsInjective
<1>5. Cardinality(I) = Cardinality(D)
  BY <1>1, FS_Interval
<1>6. s \in Surjection(I, D)
  BY <1>4, <1>5, FS_Injection
<1>7. \A q \in D : \E k \in I : s[k] = q
  BY <1>6 DEF Surjection
<1> QED BY <1>1, <1>2, <1>3, <1>7

LEMMA LeastOfThree ==
  ASSUME NEW a \in Int, NEW b \in Int, NEW c \in Int
  PROVE  /\ Min({a, b, c}) \in {a, b, c}
         /\ \A y \in {a, b, c} : Min({a, b, c}) <= y
  BY DEF Min

\* What the pass under way still may give out fits under both caps, and under
\* strict priority a queue it no longer lists has nothing more to take.
PassFits ==
    pass # << >> =>
      /\ globalRunning + free <= MaxWorkers
      /\ weights > 0
      /\ \A k \in DOMAIN pass :
            running[pass[k].queue] + pass[k].free <= Concurrency[pass[k].queue]
      /\ \A j, k \in DOMAIN pass : pass[j].queue = pass[k].queue => j = k

PassOrdered ==
    strict /\ pass # << >> =>
      /\ \A j, k \in DOMAIN pass :
            j < k => Weight[pass[j].queue] >= Weight[pass[k].queue]
      /\ \A q \in Queues : (\A k \in DOMAIN pass : pass[k].queue # q) => q \in exhausted

\* The types, but for how large a credit may be.
Shapes ==
    /\ strict \in BOOLEAN /\ order \in Orders
    /\ credit \in [Queues -> Int]
    /\ pass \in Seq(Demands)
    /\ free \in 0..MaxWorkers /\ weights \in Nat
    /\ pass # << >> => free > 0
    /\ wake \in BOOLEAN
    /\ \A f \in {working, woken, released} : f \in [Queues -> Nat]
    /\ served \in Queues /\ exhausted \subseteq Queues

Inv == Shapes /\ CapsHold /\ PassFits /\ PassOrdered

LEMMA InitInv == Init => Inv
<1> SUFFICES ASSUME Init PROVE Inv
  OBVIOUS
<1>1. None \in [Queues -> Nat] /\ \A q \in Queues : None[q] = 0
  BY DEF None
<1>2. Total(None, Queues) = 0
  BY <1>1, QueuesAssumption, TotalOfZeroes
<1>3. globalRunning = 0 /\ \A q \in Queues : running[q] = 0
  BY <1>1, <1>2 DEF Init, globalRunning, running
<1>4. Shapes
  <2>1. credit \in [Queues -> Int] /\ pass \in Seq(Demands)
    BY <1>1 DEF Init
  <2>2. free \in 0..MaxWorkers
    BY ConfigAssumption DEF Init
  <2> QED BY <1>1, <2>1, <2>2 DEF Init, Shapes
<1>5. CapsHold
  BY <1>3, ConfigAssumption DEF CapsHold
<1> QED BY <1>4, <1>5 DEF Init, Inv, PassFits, PassOrdered

\* The totals are naturals, and a job that starts, ends or leaves moves them by one.
LEMMA Counted ==
  ASSUME Shapes
  PROVE  /\ globalRunning \in Nat
         /\ \A q \in Queues : running[q] \in Nat
         /\ Total(working, Queues) \in Nat /\ Total(woken, Queues) \in Nat
<1>1. working \in [Queues -> Nat] /\ woken \in [Queues -> Nat] /\ released \in [Queues -> Nat]
  BY DEF Shapes
<1>2. Total(working, Queues) \in Nat /\ Total(woken, Queues) \in Nat
  BY <1>1, QueuesAssumption, TotalOfNaturals
<1> QED BY <1>1, <1>2 DEF globalRunning, running

-----------------------------------------------------------------------------
(* Each step keeps the invariant.                                          *)

LEMMA BeginKeeps ==
  ASSUME Inv, BeginPass
  PROVE  Inv'
<1> DEFINE D == Demanding
           gained == Gain(D)
<1> USE DEF config, counters
<1>1. /\ pass = << >> /\ wake' = FALSE
      /\ UNCHANGED <<strict, order, working, woken, released, served>>
  BY DEF BeginPass, Asleep
<1>2. Shapes /\ CapsHold /\ globalRunning \in Nat /\ \A q \in Queues : running[q] \in Nat
  BY Counted DEF Inv
<1>3. running' = running /\ globalRunning' = globalRunning
  BY <1>1 DEF running, globalRunning
<1>4. CapsHold'
  BY <1>2, <1>3 DEF CapsHold
<1>5. CASE globalRunning < MaxWorkers /\ D # {}
  <2>1. /\ free' = MaxWorkers - globalRunning
        /\ weights' = Total(Weight, D)
        /\ exhausted' = Queues \ D
    BY <1>5 DEF BeginPass
  <2>2. PICK ranked \in IF strict THEN InOrder(D) ELSE ByCredit(gained, D) :
           /\ credit' = IF strict THEN credit ELSE Pay(gained, D, ranked[1])
           /\ pass' = [k \in DOMAIN ranked |-> Demand(ranked[k])]
    BY <1>5 DEF BeginPass
  <2>3. D \subseteq Queues /\ IsFiniteSet(D)
    BY QueuesAssumption, FS_Subset DEF Demanding
  <2>4. ranked \in SetToSeqs(D)
    BY <2>2 DEF InOrder, ByCredit
  <2> DEFINE n == Cardinality(D)
  <2>5. /\ ranked \in [1..n -> D] /\ n \in Nat
        /\ \A j, k \in 1..n : ranked[j] = ranked[k] => j = k
        /\ \A q \in D : \E k \in 1..n : ranked[k] = q
    <3> HIDE DEF D
    <3> QED BY <2>3, <2>4, Arrangement
  <2>6. \A q \in D : Demand(q) \in Demands /\ Demand(q).queue = q
                     /\ running[q] + Demand(q).free <= Concurrency[q]
    BY <1>2, ConfigAssumption DEF Demanding, Demand, Demands
  <2>7. /\ DOMAIN pass' = 1..n
        /\ \A k \in 1..n : pass'[k] = Demand(ranked[k]) /\ pass'[k].queue = ranked[k]
        /\ pass' \in Seq(Demands)
    <3> HIDE DEF D
    <3> QED BY <2>2, <2>5, <2>6
  <2>8. weights' \in Nat /\ weights' > 0
    <3>1. \A q \in D : Weight[q] \in Nat
      BY <2>3, ConfigAssumption
    <3>2. Total(Weight, D) \in Nat /\ \A q \in D : Weight[q] <= Total(Weight, D)
      <4> HIDE DEF D
      <4> QED BY <2>3, <3>1, TotalOfNaturals
    <3>3. PICK q \in D : TRUE
      BY <1>5
    <3>4. Weight[q] \in Nat \ {0}
      BY <2>3, <3>3, ConfigAssumption
    <3> QED BY <2>1, <3>2, <3>3, <3>4
  <2>9. credit' \in [Queues -> Int]
    <3>1. gained \in [Queues -> Int]
      BY <1>2, ConfigAssumption DEF Gain, Shapes
    <3>2. Total(Weight, D) \in Int
      BY <2>1, <2>8
    <3>3. ranked[1] \in Queues
      <4>1. 1 \in 1..n
        BY <1>5, <2>5
      <4> QED BY <2>3, <2>5, <4>1
    <3>4. gained[ranked[1]] - Total(Weight, D) \in Int
      BY <3>1, <3>2, <3>3
    <3>5. Pay(gained, D, ranked[1]) \in [Queues -> Int]
      <4> HIDE DEF gained, D
      <4> QED BY <3>1, <3>4 DEF Pay
    <3> QED BY <1>2, <2>2, <3>5 DEF Shapes
  <2>10. Shapes'
    <3>1. free' \in 0..MaxWorkers /\ free' > 0
      BY <1>2, <1>5, <2>1, ConfigAssumption
    <3> HIDE DEF D
    <3> QED BY <1>1, <1>2, <2>1, <2>7, <2>8, <2>9, <3>1 DEF Shapes
  <2>11. PassFits'
    <3>1. globalRunning' + free' <= MaxWorkers
      BY <1>2, <1>3, <2>1, ConfigAssumption
    <3>2. \A k \in DOMAIN pass' :
             running'[pass'[k].queue] + pass'[k].free <= Concurrency[pass'[k].queue]
      <4> HIDE DEF D
      <4> QED BY <1>3, <2>5, <2>6, <2>7
    <3>3. \A j, k \in DOMAIN pass' : pass'[j].queue = pass'[k].queue => j = k
      BY <2>5, <2>7
    <3> QED BY <2>8, <3>1, <3>2, <3>3 DEF PassFits
  <2>12. PassOrdered'
    <3> SUFFICES ASSUME strict PROVE PassOrdered'
      BY <1>1 DEF PassOrdered
    <3>1. ASSUME NEW j \in 1..n, NEW k \in 1..n, j < k
          PROVE  Weight[ranked[j]] >= Weight[ranked[k]]
      <4>1. ranked \in InOrder(D)
        BY <2>2
      <4>2. PICK a \in DOMAIN order, b \in DOMAIN order :
               a < b /\ order[a] = ranked[j] /\ order[b] = ranked[k]
        BY <2>5, <3>1, <4>1 DEF InOrder
      <4>3. order \in Orders
        BY <1>2 DEF Shapes
      <4> QED BY <4>2, <4>3 DEF Orders
    <3>2. \A q \in Queues : (\A k \in 1..n : ranked[k] # q) => q \in exhausted'
      BY <2>1, <2>5
    <3> HIDE DEF D
    <3> QED BY <2>7, <3>1, <3>2 DEF PassOrdered
  <2> QED BY <1>4, <2>10, <2>11, <2>12 DEF Inv
<1>6. CASE ~(globalRunning < MaxWorkers /\ D # {})
  <2>1. UNCHANGED <<free, weights, credit, pass, exhausted>>
    BY <1>6 DEF BeginPass
  <2>2. Shapes'
    BY <1>1, <1>2, <2>1 DEF Shapes
  <2> QED BY <1>1, <1>4, <2>1, <2>2 DEF Inv, PassFits, PassOrdered
<1> QED BY <1>5, <1>6

\* A Fetch asks for no more than the demand and the pass have room for, and for
\* no less than nothing.
LEMMA LimitFits ==
  ASSUME Shapes, pass # << >>, weights > 0
  PROVE  LET d == Head(pass) IN
         /\ d \in Demands /\ Limit(d) \in Nat
         /\ Limit(d) <= d.free /\ Limit(d) <= free
         /\ strict => Limit(d) = d.free \/ Limit(d) = free
<1> DEFINE d == Head(pass)
           w == Weight[d.queue]
<1>1. d \in Demands
  BY HeadTailProperties DEF Shapes
<1>2. d.queue \in Queues /\ d.free \in Nat \ {0} /\ w \in Nat
  BY <1>1, ConfigAssumption DEF Demands
<1>3. free \in Nat /\ weights \in Nat
  BY ConfigAssumption DEF Shapes
<1>4. Quota(d.queue) \in Nat
  <2>1. \A a, b \in Nat : a * b \in Nat
    OBVIOUS
  <2>2. free * w \in Nat
    <3> HIDE DEF w
    <3> QED BY <1>2, <1>3, <2>1
  <2>3. \A a, b \in Nat : b > 0 => (a + b - 1) \div b \in Nat
    OBVIOUS
  <2>4. (free * w + weights - 1) \div weights \in Nat
    BY <1>3, <2>2, <2>3
  <2> QED BY <1>3, <2>4 DEF Quota
<1>5. /\ Limit(d) \in {Quota(d.queue), d.free, free}
      /\ Limit(d) <= d.free /\ Limit(d) <= free
  <2> DEFINE m == Min({Quota(d.queue), d.free, free})
  <2>1. m \in {Quota(d.queue), d.free, free} /\ m <= d.free /\ m <= free
    <3>1. Quota(d.queue) \in Int /\ d.free \in Int /\ free \in Int
      BY <1>2, <1>3, <1>4
    <3> HIDE DEF d
    <3> QED BY <3>1, LeastOfThree
  <2> QED BY <2>1 DEF Limit
<1>6. strict => Quota(d.queue) = free
  BY DEF Quota
<1> HIDE DEF d
<1> QED BY <1>1, <1>2, <1>3, <1>4, <1>5, <1>6 DEF d

\* What one Serve does, its rows named.
LEMMA ServeMoves ==
  ASSUME Inv, Serve
  PROVE  LET d == Head(pass) IN
         \E rows \in 0..Limit(d) :
            /\ working' = [working EXCEPT ![d.queue] = @ + rows]
            /\ free' = free - rows
            /\ pass' = IF free - rows <= 0 THEN << >> ELSE Tail(pass)
            /\ served' = IF rows > 0 THEN d.queue ELSE served
            /\ exhausted' = IF rows < Limit(d) \/ rows = d.free
                            THEN exhausted \union {d.queue} ELSE exhausted
            /\ UNCHANGED <<strict, order, credit, weights, wake, woken, released>>
<1> DEFINE d == Head(pass)
<1>1. Limit(d) \in Nat
  BY LimitFits DEF Inv, PassFits, Serve, Asleep
<1>2. (IF d.queue \in Busy THEN {Limit(d)} ELSE 0..Limit(d)) \subseteq 0..Limit(d)
  BY <1>1
<1> QED BY <1>2 DEF Serve, config

\* Each row fetched is one more job running.
LEMMA RowsStart ==
  ASSUME Shapes, NEW q \in Queues, NEW rows \in Nat,
         working' = [working EXCEPT ![q] = @ + rows], woken' = woken
  PROVE  globalRunning' = globalRunning + rows
<1>1. working \in [Queues -> Nat] /\ working' \in [Queues -> Nat]
  BY DEF Shapes
<1>2. working'[q] = working[q] + rows
  BY <1>1
<1>3. Total(working', Queues) = Total(working, Queues) + (working'[q] - working[q])
  <2>1. \A p \in Queues \ {q} : working'[p] = working[p]
    BY <1>1
  <2>2. IsFiniteSet(Queues) /\ q \in Queues
    BY QueuesAssumption
  <2> QED BY ONLY <1>1, <2>1, <2>2, TotalMoves
<1>4. /\ Total(working, Queues) \in Nat /\ Total(woken, Queues) \in Nat
      /\ working[q] \in Nat /\ Total(woken', Queues) = Total(woken, Queues)
  BY <1>1, Counted
<1> QED BY <1>2, <1>3, <1>4 DEF globalRunning

LEMMA ServeKeeps ==
  ASSUME Inv, Serve
  PROVE  Inv'
<1> DEFINE d == Head(pass)
           q == d.queue
<1>1. Shapes /\ CapsHold /\ PassFits /\ PassOrdered /\ pass # << >>
  BY DEF Inv, Serve, Asleep
<1>2. /\ d \in Demands /\ Limit(d) \in Nat
      /\ Limit(d) <= d.free /\ Limit(d) <= free
      /\ strict => Limit(d) = d.free \/ Limit(d) = free
  BY <1>1, LimitFits DEF PassFits
<1>3. PICK rows \in 0..Limit(d) :
         /\ working' = [working EXCEPT ![q] = @ + rows]
         /\ free' = free - rows
         /\ pass' = IF free - rows <= 0 THEN << >> ELSE Tail(pass)
         /\ served' = IF rows > 0 THEN q ELSE served
         /\ exhausted' = IF rows < Limit(d) \/ rows = d.free
                         THEN exhausted \union {q} ELSE exhausted
         /\ UNCHANGED <<strict, order, credit, weights, wake, woken, released>>
  BY ServeMoves
<1>4. /\ pass \in Seq(Demands) /\ d = pass[1]
      /\ Tail(pass) \in Seq(Demands) /\ DOMAIN Tail(pass) = 1..(Len(pass) - 1)
      /\ DOMAIN pass = 1..Len(pass) /\ Len(pass) \in Nat \ {0}
      /\ \A k \in DOMAIN Tail(pass) : Tail(pass)[k] = pass[k + 1]
  BY <1>1, HeadTailProperties DEF Shapes
<1>5. q \in Queues /\ d.free \in Nat \ {0} /\ free \in Nat /\ rows \in Nat
  <2>1. q \in Queues /\ d.free \in Nat \ {0}
    BY <1>2 DEF Demands
  <2>2. free \in Nat
    BY <1>1, ConfigAssumption DEF Shapes
  <2> QED BY <1>2, <1>3, <2>1, <2>2
<1>6. /\ working \in [Queues -> Nat] /\ woken \in [Queues -> Nat]
      /\ released \in [Queues -> Nat]
  BY <1>1 DEF Shapes
<1> HIDE DEF d, q
<1>7. working' \in [Queues -> Nat]
  BY <1>3, <1>5, <1>6
<1>8. /\ running'[q] = running[q] + rows
      /\ \A p \in Queues \ {q} : running'[p] = running[p]
  BY <1>3, <1>5, <1>6 DEF running
<1>9. globalRunning' = globalRunning + rows
  BY <1>1, <1>3, <1>5, RowsStart
<1>10. globalRunning \in Nat /\ \A p \in Queues : running[p] \in Nat
  BY <1>1, Counted
<1>11. running[q] + d.free <= Concurrency[q] /\ Concurrency[q] \in Nat
  <2>1. 1 \in DOMAIN pass /\ pass[1] = d /\ d.queue = q
    BY <1>4 DEF q
  <2> QED BY <1>1, <1>5, <2>1, ConfigAssumption DEF PassFits
<1>12. Shapes'
  <2>1. pass' \in Seq(Demands)
    BY <1>3, <1>4
  <2>2. free' \in 0..MaxWorkers /\ (pass' # << >> => free' > 0)
    <3>1. free \in 0..MaxWorkers
      BY <1>1 DEF Shapes
    <3>2. rows <= free /\ free' = free - rows /\ (free - rows <= 0 => pass' = << >>)
      BY <1>2, <1>3, <1>5
    <3> QED BY <1>5, <3>1, <3>2, ConfigAssumption
  <2> QED BY <1>1, <1>3, <1>5, <1>6, <1>7, <2>1, <2>2 DEF Shapes
<1>13. CapsHold'
  <2>1. globalRunning' <= MaxWorkers
    BY <1>1, <1>2, <1>3, <1>5, <1>9, <1>10, ConfigAssumption DEF PassFits
  <2>2. running'[q] <= Concurrency[q]
    BY <1>2, <1>3, <1>5, <1>8, <1>10, <1>11
  <2>3. \A p \in Queues : running'[p] <= Concurrency[p]
    BY <1>1, <1>8, <2>2 DEF CapsHold
  <2> QED BY <2>1, <2>3 DEF CapsHold
<1>14. PassFits'
  <2> SUFFICES ASSUME pass' # << >> PROVE PassFits'
    BY DEF PassFits
  <2>1. pass' = Tail(pass) /\ free - rows > 0
    BY <1>3, <1>5
  <2>2. \A k \in DOMAIN pass' : /\ k + 1 \in DOMAIN pass /\ pass'[k] = pass[k + 1]
                                /\ pass'[k].queue # q
    <3> TAKE k \in DOMAIN pass'
    <3>1. k + 1 \in DOMAIN pass /\ 1 \in DOMAIN pass /\ k + 1 # 1 /\ pass'[k] = pass[k + 1]
      BY <1>4, <2>1
    <3> QED BY <1>1, <1>4, <3>1 DEF PassFits, q
  <2>3. \A k \in DOMAIN pass' :
           running'[pass'[k].queue] + pass'[k].free <= Concurrency[pass'[k].queue]
    <3> TAKE k \in DOMAIN pass'
    <3>1. pass[k + 1] \in Demands
      BY <1>4, <2>2
    <3>2. pass[k + 1].queue \in Queues \ {q}
      BY <2>2, <3>1 DEF Demands
    <3> QED BY <1>1, <1>8, <2>2, <3>2 DEF PassFits
  <2>4. \A j, k \in DOMAIN pass' : pass'[j].queue = pass'[k].queue => j = k
    <3> TAKE j, k \in DOMAIN pass'
    <3>1. j \in Int /\ k \in Int
      BY <1>4, <2>1
    <3>2. pass'[j].queue = pass'[k].queue => j + 1 = k + 1
      BY <1>1, <2>2 DEF PassFits
    <3> QED BY <3>1, <3>2
  <2>5. globalRunning' + free' <= MaxWorkers /\ weights' > 0
    BY <1>1, <1>3, <1>5, <1>9, <1>10, ConfigAssumption DEF PassFits
  <2> QED BY <2>3, <2>4, <2>5 DEF PassFits
<1>15. PassOrdered'
  <2> SUFFICES ASSUME strict, pass' # << >> PROVE PassOrdered'
    BY <1>3 DEF PassOrdered
  <2>1. pass' = Tail(pass) /\ free - rows > 0
    BY <1>3, <1>5
  <2>2. \A k \in DOMAIN pass' : k + 1 \in DOMAIN pass /\ pass'[k] = pass[k + 1] /\ k \in Int
    BY <1>4, <2>1
  <2>3. \A j, k \in DOMAIN pass' :
           j < k => Weight[pass'[j].queue] >= Weight[pass'[k].queue]
    <3> TAKE j, k \in DOMAIN pass'
    <3>1. j < k => j + 1 < k + 1
      BY <2>2
    <3> QED BY <1>1, <2>2, <3>1 DEF PassOrdered
  <2>4. q \in exhausted'
    BY <1>2, <1>3, <1>5, <2>1
  <2>5. \A p \in Queues :
           (\A k \in DOMAIN pass' : pass'[k].queue # p) => p \in exhausted'
    <3> SUFFICES ASSUME NEW p \in Queues, \A k \in DOMAIN pass' : pass'[k].queue # p,
                        p # q
                 PROVE  p \in exhausted'
      BY <2>4
    <3>1. ASSUME NEW k \in DOMAIN pass PROVE pass[k].queue # p
      <4>1. CASE k = 1
        BY <1>4, <4>1 DEF q
      <4>2. CASE k # 1
        <5>1. k - 1 \in DOMAIN pass' /\ (k - 1) + 1 = k
          BY <1>4, <2>1, <4>2
        <5> QED BY <2>2, <5>1
      <4> QED BY <4>1, <4>2
    <3>2. p \in exhausted
      BY <1>1, <3>1 DEF PassOrdered
    <3> QED BY <1>3, <3>2
  <2> QED BY <2>3, <2>5 DEF PassOrdered
<1> QED BY <1>12, <1>13, <1>14, <1>15 DEF Inv

\* A job that ends or leaves takes room from nobody, and no step of the pass.
LEMMA LeavesPass ==
  ASSUME Inv, Shapes', UNCHANGED <<strict, pass, free, weights, exhausted>>,
         globalRunning' \in {globalRunning, globalRunning - 1},
         \A p \in Queues : running'[p] \in {running[p], running[p] - 1}
  PROVE  Inv'
<1>1. /\ globalRunning \in Nat /\ \A p \in Queues : running[p] \in Nat
      /\ Shapes /\ CapsHold /\ PassFits /\ PassOrdered
  BY Counted DEF Inv
<1>2. /\ free \in Nat
      /\ \A k \in DOMAIN pass : pass[k].queue \in Queues /\ pass[k].free \in Nat
  <2>1. free \in Nat /\ pass \in Seq(Demands)
    BY <1>1, ConfigAssumption DEF Shapes
  <2>2. \A k \in DOMAIN pass : pass[k] \in Demands
    BY <2>1
  <2> QED BY <2>1, <2>2 DEF Demands
<1>3. CapsHold'
  BY <1>1, ConfigAssumption DEF CapsHold
<1>4. PassFits'
  <2> SUFFICES ASSUME pass # << >> PROVE PassFits'
    BY DEF PassFits
  <2>1. globalRunning' + free' <= MaxWorkers
    <3>1. globalRunning + free <= MaxWorkers
      BY <1>1 DEF PassFits
    <3>2. free' = free /\ globalRunning \in Nat /\ free \in Nat /\ MaxWorkers \in Nat
      BY <1>1, <1>2, ConfigAssumption
    <3>3. globalRunning' = globalRunning \/ globalRunning' = globalRunning - 1
      OBVIOUS
    <3> QED BY ONLY <3>1, <3>2, <3>3
  <2>2. \A k \in DOMAIN pass :
           running'[pass[k].queue] + pass[k].free <= Concurrency[pass[k].queue]
    <3> TAKE k \in DOMAIN pass
    <3> DEFINE p == pass[k].queue
    <3>1. p \in Queues /\ pass[k].free \in Nat /\ Concurrency[p] \in Nat
      BY <1>2, ConfigAssumption
    <3>2. running[p] + pass[k].free <= Concurrency[p]
      BY <1>1 DEF PassFits
    <3>3. running[p] \in Nat /\ running'[p] \in {running[p], running[p] - 1}
      BY <1>1, <3>1
    <3> HIDE DEF p
    <3> QED BY <3>1, <3>2, <3>3 DEF p
  <2> QED BY <1>1, <2>1, <2>2 DEF PassFits
<1>5. PassOrdered'
  BY <1>1 DEF PassOrdered
<1> QED BY <1>3, <1>4, <1>5 DEF Inv

LEMMA JobKeeps ==
  ASSUME Inv, NEW q \in Queues, JobNext(q)
  PROVE  Inv'
<1> USE DEF config, counters
<1>1. /\ working \in [Queues -> Nat] /\ woken \in [Queues -> Nat]
      /\ released \in [Queues -> Nat] /\ Shapes
  BY DEF Inv, Shapes
<1>2. Total(working, Queues) \in Nat /\ Total(woken, Queues) \in Nat
  BY <1>1, Counted
<1>3. CASE JobEnds(q)
  <2>1. /\ working[q] > 0
        /\ working' = [working EXCEPT ![q] = @ - 1]
        /\ woken' = [woken EXCEPT ![q] = @ + 1]
        /\ wake' = TRUE
        /\ UNCHANGED <<strict, order, credit, pass, free, weights, released, served, exhausted>>
    BY <1>3 DEF JobEnds
  <2>2. working' \in [Queues -> Nat] /\ woken' \in [Queues -> Nat]
    BY <1>1, <2>1
  <2>3. Shapes'
    BY <1>1, <2>1, <2>2 DEF Shapes
  <2>4. \A p \in Queues : running'[p] = running[p]
    BY <1>1, <2>1 DEF running
  <2>5. Total(working', Queues) = Total(working, Queues) + (-1)
    <3>1. working \in [Queues -> Nat] /\ working' \in [Queues -> Nat] /\ q \in Queues
      BY <1>1, <2>2
    <3>2. working'[q] = working[q] + (-1) /\ working[q] \in Nat
      BY <2>1, <3>1
    <3>3. \A p \in Queues \ {q} : working'[p] = working[p]
      BY <2>1, <3>1
    <3>4. Total(working', Queues) = Total(working, Queues) + (working'[q] - working[q])
      BY ONLY QueuesAssumption, <3>1, <3>3, TotalMoves
    <3> QED BY <1>2, <3>2, <3>4
  <2>6. Total(woken', Queues) = Total(woken, Queues) + 1
    <3>1. woken \in [Queues -> Nat] /\ woken' \in [Queues -> Nat] /\ q \in Queues
      BY <1>1, <2>2
    <3>2. woken'[q] = woken[q] + 1 /\ woken[q] \in Nat
      BY <2>1, <3>1
    <3>3. \A p \in Queues \ {q} : woken'[p] = woken[p]
      BY <2>1, <3>1
    <3>4. Total(woken', Queues) = Total(woken, Queues) + (woken'[q] - woken[q])
      BY ONLY QueuesAssumption, <3>1, <3>3, TotalMoves
    <3> QED BY <1>2, <3>2, <3>4
  <2>7. globalRunning' = globalRunning
    BY <1>2, <2>5, <2>6 DEF globalRunning
  <2> QED BY <2>1, <2>3, <2>4, <2>7, LeavesPass
<1>4. CASE LeaveGlobal(q)
  <2>1. /\ woken[q] > 0
        /\ woken' = [woken EXCEPT ![q] = @ - 1]
        /\ released' = [released EXCEPT ![q] = @ + 1]
        /\ UNCHANGED <<strict, order, credit, pass, free, weights, wake, working, served, exhausted>>
    BY <1>4 DEF LeaveGlobal
  <2>2. woken' \in [Queues -> Nat] /\ released' \in [Queues -> Nat]
    BY <1>1, <2>1
  <2>3. Shapes'
    BY <1>1, <2>1, <2>2 DEF Shapes
  <2>4. \A p \in Queues : running'[p] = running[p]
    BY <1>1, <2>1 DEF running
  <2>5. Total(woken', Queues) = Total(woken, Queues) + (-1)
    <3>1. woken \in [Queues -> Nat] /\ woken' \in [Queues -> Nat] /\ q \in Queues
      BY <1>1, <2>2
    <3>2. woken'[q] = woken[q] + (-1) /\ woken[q] \in Nat
      BY <2>1, <3>1
    <3>3. \A p \in Queues \ {q} : woken'[p] = woken[p]
      BY <2>1, <3>1
    <3>4. Total(woken', Queues) = Total(woken, Queues) + (woken'[q] - woken[q])
      BY ONLY QueuesAssumption, <3>1, <3>3, TotalMoves
    <3> QED BY <1>2, <3>2, <3>4
  <2>6. Total(working', Queues) = Total(working, Queues)
    BY <2>1
  <2>7. globalRunning' = globalRunning - 1
    BY <1>2, <2>5, <2>6 DEF globalRunning
  <2> QED BY <2>1, <2>3, <2>4, <2>7, LeavesPass
<1>5. CASE LeaveQueue(q)
  <2>1. /\ released[q] > 0
        /\ released' = [released EXCEPT ![q] = @ - 1]
        /\ UNCHANGED <<strict, order, credit, pass, free, weights, wake, working, woken, served, exhausted>>
    BY <1>5 DEF LeaveQueue
  <2>2. released' \in [Queues -> Nat]
    BY <1>1, <2>1
  <2>3. Shapes'
    BY <1>1, <2>1, <2>2 DEF Shapes
  <2>4. \A p \in Queues : running'[p] \in {running[p], running[p] - 1}
    BY <1>1, <2>1 DEF running
  <2>5. globalRunning' = globalRunning
    BY <2>1 DEF globalRunning
  <2> QED BY <2>1, <2>3, <2>4, <2>5, LeavesPass
<1> QED BY <1>3, <1>4, <1>5 DEF JobNext

LEMMA StutterKeeps == Inv /\ UNCHANGED vars => Inv'
  BY DEF vars, config, counters, Inv, Shapes, CapsHold, PassFits, PassOrdered,
         running, globalRunning

LEMMA NextInv == Inv /\ [Next]_vars => Inv'
<1> SUFFICES ASSUME Inv, [Next]_vars PROVE Inv'
  OBVIOUS
<1>1. CASE Wake \/ Poll
  BY <1>1, BeginKeeps DEF Wake, Poll
<1>2. CASE Serve
  BY <1>2, ServeKeeps
<1>3. ASSUME NEW q \in Queues, JobNext(q) PROVE Inv'
  BY <1>3, JobKeeps
<1>4. CASE UNCHANGED vars
  BY <1>4, StutterKeeps
<1> QED BY <1>1, <1>2, <1>3, <1>4 DEF Next

LEMMA InvAlways == Spec => []Inv
<1>1. Inv /\ [Next]_vars => Inv'
  BY NextInv
<1> QED BY <1>1, InitInv, PTL DEF Spec

\* No queue ever runs more jobs than its Concurrency, and no client more than
\* MaxWorkers, although a pass works from counters it read before its Fetches
\* while the jobs it started earlier come to their ends.
THEOREM CapsAlwaysHold == Spec => []CapsHold
<1>1. Inv => CapsHold
  BY DEF Inv
<1> QED BY <1>1, InvAlways, PTL

\* Under StrictQueuePriority rows come from a queue only when every heavier one
\* was full, or answered with fewer rows than asked for, in the same pass.
THEOREM HeavierComeFirst == Spec => HeavierFirst
<1> DEFINE Kept == \A q \in Queues :
                      strict /\ working'[q] > working[q]
                         => \A p \in Queues : Weight[p] > Weight[q] => p \in exhausted
<1>1. ASSUME Inv, [Next]_vars PROVE Kept
  <2> SUFFICES ASSUME NEW q \in Queues, strict, working'[q] > working[q],
                      NEW p \in Queues, Weight[p] > Weight[q]
               PROVE  p \in exhausted
    OBVIOUS
  <2>1. working \in [Queues -> Nat]
    BY <1>1 DEF Inv, Shapes
  <2>2. ~ UNCHANGED working
    BY <2>1
  <2>3. ~ \E r \in Queues : JobNext(r)
    <3> SUFFICES ASSUME NEW r \in Queues, JobNext(r) PROVE FALSE
      OBVIOUS
    <3>1. JobEnds(r)
      BY <2>2 DEF JobNext, LeaveGlobal, LeaveQueue
    <3> QED BY <2>1, <3>1 DEF JobEnds
  <2>4. Serve
    BY <1>1, <2>2, <2>3 DEF Next, Wake, Poll, BeginPass, vars, counters
  <2> DEFINE d == Head(pass)
  <2>5. /\ pass # << >> /\ pass \in Seq(Demands) /\ PassOrdered
        /\ d = pass[1] /\ DOMAIN pass = 1..Len(pass) /\ Len(pass) \in Nat \ {0}
    BY <1>1, <2>4 DEF Inv, Shapes, Serve, Asleep
  <2>6. d.queue = q
    <3>1. \E rows : working' = [working EXCEPT ![d.queue] = @ + rows]
      BY <2>4 DEF Serve
    <3> QED BY <2>1, <3>1
  <2>7. ASSUME NEW k \in DOMAIN pass PROVE pass[k].queue # p
    <3>1. CASE k = 1
      BY <2>1, <2>5, <2>6, <3>1, ConfigAssumption
    <3>2. CASE k # 1
      <4>1. 1 < k /\ 1 \in DOMAIN pass
        BY <2>5, <3>2
      <4>2. Weight[q] >= Weight[pass[k].queue]
        BY <2>5, <2>6, <4>1 DEF PassOrdered
      <4>3. Weight[p] \in Nat /\ Weight[q] \in Nat
        BY ConfigAssumption
      <4> QED BY <4>2, <4>3
    <3> QED BY <3>1, <3>2
  <2> QED BY <2>5, <2>7 DEF PassOrdered
<1>2. Inv /\ [Next]_vars => [Kept]_vars
  BY <1>1
<1> QED BY <1>2, InvAlways, PTL DEF Spec, HeavierFirst

-----------------------------------------------------------------------------
(* The credits.  What a pass takes from its winner it has given to those   *)
(* that demanded, so that the credits add up to nothing.  How far one of   *)
(* them gets from zero follows from how far any set of them does: k of n   *)
(* queues owe together at most k * (n - k) times all the weights.  A       *)
(* winner among them makes them owe more only if a queue outside demanded  *)
(* too, and its credit was no larger: then the set without the winner, or  *)
(* with that queue, was as far from its own bound as the payment needs.    *)

Even(c) ==
    /\ Total(c, Queues) = 0
    /\ \A S \in SUBSET Queues :
          Total(c, S) + Total(Weight, Queues)
                            * (Cardinality(S) * (Cardinality(Queues) - Cardinality(S))) >= 0

\* Sets of more queues weigh more.
LEMMA MoreWeighMore ==
  ASSUME NEW B \in SUBSET Queues, NEW A \in SUBSET B
  PROVE  Total(Weight, A) \in Nat /\ Total(Weight, B) \in Nat /\ Total(Weight, A) <= Total(Weight, B)
<1> DEFINE rest == [q \in B |-> IF q \in A THEN 0 ELSE Weight[q]]
<1>1. /\ IsFiniteSet(A) /\ IsFiniteSet(B) /\ B \intersect A = A
      /\ \A q \in B : Weight[q] \in Nat
  BY QueuesAssumption, ConfigAssumption, FS_Subset
<1>2. Gains(B, A, rest, Weight, Weight)
  BY <1>1 DEF Gains
<1>3. \A q \in B : rest[q] \in Nat
  BY <1>1
<1> HIDE DEF rest
<1>4. Total(Weight, B) = Total(rest, B) + Total(Weight, A)
  <2>1. Total(Weight, B) = Total(rest, B) + Total(Weight, B \intersect A)
    BY <1>1, <1>2, TotalGains
  <2> QED BY <1>1, <2>1
<1>5. Total(rest, B) \in Nat /\ Total(Weight, A) \in Nat /\ Total(Weight, B) \in Nat
  BY <1>1, <1>3, TotalOfNaturals
<1> QED BY <1>4, <1>5

\* A pass moves credit from its winner to the others.
LEMMA PassEvens ==
  ASSUME NEW c \in [Queues -> Int], NEW h \in [Queues -> Int], Even(c),
         NEW D \in SUBSET Queues, NEW v \in D,
         \A x \in D : c[x] + Weight[x] <= c[v] + Weight[v],
         \A q \in Queues : h[q] = (IF q \in D THEN c[q] + Weight[q] ELSE c[q])
                                     - (IF q = v THEN Total(Weight, D) ELSE 0)
  PROVE  Even(h)
<1> DEFINE W == Total(Weight, Queues)
           N == Cardinality(Queues)
           P == Total(Weight, D)
           B(k) == W * (k * (N - k))
           g == [q \in Queues |-> IF q \in D THEN c[q] + Weight[q] ELSE c[q]]
<1>1. /\ IsFiniteSet(Queues) /\ v \in Queues /\ N \in Nat
      /\ \A q \in Queues : Weight[q] \in Nat \ {0} /\ c[q] \in Int /\ h[q] \in Int
  BY QueuesAssumption, ConfigAssumption, FS_CardinalityType
<1>2. W \in Nat /\ P \in Nat /\ P <= W
  BY MoreWeighMore
<1>3. ASSUME NEW S \in SUBSET Queues
      PROVE  /\ Total(c, S) \in Int /\ Total(Weight, S \intersect D) \in Nat
             /\ Total(Weight, S \intersect D) <= P
             /\ Total(h, S) = Total(c, S) + Total(Weight, S \intersect D)
                                 - (IF v \in S THEN P ELSE 0)
  <2>1. IsFiniteSet(S) /\ \A q \in S : c[q] \in Int /\ h[q] \in Int /\ Weight[q] \in Int
    BY <1>1, FS_Subset
  <2>2. Total(c, S) \in Int /\ Total(h, S) \in Int
    BY <2>1, TotalIsInt
  <2>3. Total(Weight, S \intersect D) \in Nat /\ Total(Weight, S \intersect D) <= P
    BY MoreWeighMore
  <2>4. Gains(S, D, c, Weight, g)
    BY <2>1 DEF Gains
  <2>5. \A q \in S : g[q] \in Int /\ h[q] = IF q = v THEN g[q] - P ELSE g[q]
    BY <1>2, <2>1
  <2> HIDE DEF g, P
  <2>6. Total(g, S) = Total(c, S) + Total(Weight, S \intersect D)
    BY <2>1, <2>4, TotalGains
  <2>7. Total(h, S) = Total(g, S) - (IF v \in S THEN P ELSE 0)
    <3> DEFINE w == [q \in S |-> -P]
    <3>1. Gains(S, {v}, g, w, h) /\ \A q \in S : w[q] \in Int
      BY <1>2, <2>5 DEF Gains
    <3>2. v \in S => w[v] = -P
      OBVIOUS
    <3> HIDE DEF w
    <3>3. Total(h, S) = Total(g, S) + Total(w, S \intersect {v})
      BY <2>1, <3>1, TotalGains
    <3>4. CASE v \in S
      <4>1. S \intersect {v} = {v} /\ IsFiniteSet({v}) /\ IsFiniteSet({}) /\ {v} \ {v} = {}
        BY <3>4, FS_Singleton, FS_EmptySet
      <4>2. w[v] \in Int
        BY <3>1, <3>4
      <4>3. Total(w, {v}) = w[v] + Total(w, {v} \ {v})
        BY <4>1, <4>2, TotalWithout
      <4>4. Total(w, {v} \ {v}) = 0
        BY <4>1, TotalStep
      <4>5. Total(g, S) \in Int
        BY <2>1, <2>5, TotalIsInt
      <4>6. Total(w, S \intersect {v}) = -P
        BY <1>2, <3>2, <3>4, <4>1, <4>3, <4>4
      <4> QED BY <1>2, <3>3, <3>4, <4>5, <4>6
    <3>5. CASE v \notin S
      <4>1. S \intersect {v} = {} /\ IsFiniteSet({})
        BY <3>5, FS_EmptySet
      <4>2. Total(w, S \intersect {v}) = 0
        BY <4>1, TotalStep
      <4>3. Total(g, S) \in Int
        BY <2>1, <2>5, TotalIsInt
      <4> QED BY <3>3, <3>5, <4>2, <4>3
    <3> QED BY <3>4, <3>5
  <2>8. Total(h, S) = (Total(c, S) + Total(Weight, S \intersect D))
                         - (IF v \in S THEN P ELSE 0)
    BY <2>6, <2>7
  <2> QED BY <1>2, <2>2, <2>3, <2>8
<1>4. \A S \in SUBSET Queues : Total(c, S) + B(Cardinality(S)) >= 0
  BY DEF Even
<1>5. \A S \in SUBSET Queues : Cardinality(S) \in Nat /\ B(Cardinality(S)) \in Int
  <2>1. \A S \in SUBSET Queues : Cardinality(S) \in Nat
    BY <1>1, FS_Subset, FS_CardinalityType
  <2>2. \A k \in Nat : W * (k * (N - k)) \in Int
    <3>1. \A k \in Nat : k * (N - k) \in Int
      BY <1>1
    <3> HIDE DEF W, N
    <3> QED BY <1>2, <3>1
  <2> QED BY <2>1, <2>2
<1>6. Total(h, Queues) = 0
  <2>1. Queues \intersect D = D
    OBVIOUS
  <2> QED BY <1>1, <1>2, <1>3, <2>1 DEF Even
<1>7. ASSUME NEW S \in SUBSET Queues PROVE Total(h, S) + B(Cardinality(S)) >= 0
  <2> DEFINE k == Cardinality(S)
             t == Total(c, S)
             a == Total(Weight, S \intersect D)
             b == B(k)
  <2>1. t \in Int /\ a \in Nat /\ a <= P /\ b \in Int /\ t + b >= 0 /\ k \in Nat
        /\ Total(h, S) = t + a - (IF v \in S THEN P ELSE 0)
    BY <1>3, <1>4, <1>5
  <2> SUFFICES Total(h, S) + b >= 0
    OBVIOUS
  <2>2. CASE v \notin S
    <3> HIDE DEF t, a, b, P
    <3> QED BY <2>1, <2>2
  <2>3. CASE D \subseteq S
    <3>1. a = P
      <4>1. S \intersect D = D
        BY <2>3
      <4> QED BY <4>1
    <3> HIDE DEF t, a, b, P
    <3> QED BY <1>2, <2>1, <3>1
  <2>4. CASE v \in S /\ ~ (D \subseteq S)
    <3>1. PICK x \in D : x \notin S
      BY <2>4
    <3> DEFINE less == S \ {v}
               more == S \union {x}
               m == c[v]
               y == c[x]
               u == Weight[v]
    <3>2. m \in Int /\ y \in Int /\ u \in Nat /\ y <= m + u
      <4>1. Weight[x] \in Nat /\ c[x] + Weight[x] <= c[v] + Weight[v] /\ x \in Queues
        BY <1>1, <3>1
      <4> QED BY <1>1, <4>1
    <3>3. IsFiniteSet(S) /\ IsFiniteSet(more) /\ less \in SUBSET Queues /\ more \in SUBSET Queues
      BY <1>1, <3>1, FS_Subset
    <3>4. Cardinality(less) = k - 1 /\ Cardinality(more) = k + 1
      BY <2>4, <3>1, <3>3, FS_RemoveElement, FS_AddElement
    <3>5. Total(c, less) \in Int /\ t = m + Total(c, less)
      <4>1. \A q \in S : c[q] \in Int
        BY <1>1
      <4> QED BY <2>4, <3>3, <4>1, TotalWithout
    <3>6. Total(c, more) \in Int /\ Total(c, more) = y + t
      <4>1. x \in more /\ more \ {x} = S /\ \A q \in more : c[q] \in Int
        BY <1>1, <3>1, <3>3
      <4>2. Total(c, more) \in Int /\ Total(c, more) = c[x] + Total(c, more \ {x})
        <5> HIDE DEF more
        <5> QED BY <3>3, <4>1, TotalWithout
      <4> QED BY <4>1, <4>2
    <3> DEFINE bl == B(k - 1)
               bm == B(k + 1)
    <3>7. Total(c, less) + bl >= 0 /\ Total(c, more) + bm >= 0 /\ bl \in Int /\ bm \in Int
      BY <1>4, <1>5, <3>3, <3>4
    <3>8. bl + bm = 2 * b - 2 * W
      <4>1. \A w, n, j \in Int :
               w * ((j - 1) * (n - (j - 1))) + w * ((j + 1) * (n - (j + 1)))
                  = 2 * (w * (j * (n - j))) - 2 * w
        OBVIOUS
      <4>2. W \in Int /\ N \in Int /\ k \in Int
        BY <1>1, <1>2, <2>1
      <4> HIDE DEF W, N, k
      <4> QED BY <4>1, <4>2
    <3>9. u <= a
      <4>1. v \in S \intersect D /\ IsFiniteSet(S \intersect D)
            /\ \A q \in S \intersect D : Weight[q] \in Nat
        BY <1>1, <2>4, <3>3, FS_Subset
      <4> QED BY <4>1, TotalOfNaturals
    <3>10. Total(h, S) = t + a - P
      BY <2>1, <2>4
    <3> HIDE DEF t, a, b, P, W, B, bl, bm, m, y, u, less, more, k
    <3>11. 2 * t >= 2 * W - 2 * b - u
      BY <1>2, <2>1, <3>2, <3>5, <3>6, <3>7, <3>8
    <3> QED BY <1>2, <2>1, <3>2, <3>9, <3>10, <3>11
  <2> QED BY <2>2, <2>3, <2>4
<1> QED BY <1>6, <1>7 DEF Even

\* A weighted pass begins: whose it is, and what it does to the credits.
LEMMA PassPays ==
  ASSUME Inv, BeginPass, ~ strict, globalRunning < MaxWorkers, Demanding # {}
  PROVE  \E v \in Demanding :
            /\ pass' # << >> /\ pass'[1].queue = v
            /\ Demanding \in SUBSET Queues /\ credit \in [Queues -> Int]
            /\ \A x \in Demanding : credit[x] + Weight[x] <= credit[v] + Weight[v]
            /\ credit' \in [Queues -> Int]
            /\ \A q \in Queues :
                  credit'[q] = (IF q \in Demanding THEN credit[q] + Weight[q] ELSE credit[q])
                                  - (IF q = v THEN Total(Weight, Demanding) ELSE 0)
<1> DEFINE D == Demanding
           gained == Gain(D)
<1>1. PICK ranked \in ByCredit(gained, D) :
         /\ credit' = Pay(gained, D, ranked[1])
         /\ pass' = [k \in DOMAIN ranked |-> Demand(ranked[k])]
  BY DEF BeginPass
<1> DEFINE v == ranked[1]
           n == Cardinality(D)
<1>2. /\ D \subseteq Queues /\ IsFiniteSet(D) /\ ranked \in SetToSeqs(D)
  BY <1>1, QueuesAssumption, FS_Subset DEF Demanding, ByCredit
<1>3. /\ ranked \in [1..n -> D] /\ n \in Nat
      /\ \A q \in D : \E k \in 1..n : ranked[k] = q
  <2> HIDE DEF D
  <2> QED BY <1>2, Arrangement
<1>4. v \in D /\ 1 \in 1..n
  BY <1>3
<1>5. pass' # << >> /\ pass'[1].queue = v
  <2>1. DOMAIN pass' = 1..n /\ pass'[1] = Demand(v)
    <3> HIDE DEF D
    <3> QED BY <1>1, <1>3, <1>4
  <2> HIDE DEF v, n
  <2>2. pass' # << >>
    <3>1. 1 \in DOMAIN pass' /\ DOMAIN << >> = {}
      BY <1>4, <2>1
    <3> QED BY <3>1
  <2>3. Demand(v).queue = v
    BY DEF Demand
  <2> QED BY <2>1, <2>2, <2>3
<1>6. credit \in [Queues -> Int] /\ gained \in [Queues -> Int]
  BY ConfigAssumption DEF Inv, Shapes, Gain
<1>7. ASSUME NEW x \in D PROVE gained[x] <= gained[v]
  <2>1. PICK k \in 1..n : ranked[k] = x
    BY <1>3
  <2>2. gained[v] \in Int /\ gained[x] \in Int
    BY <1>2, <1>4, <1>6
  <2>3. CASE k = 1
    BY <2>1, <2>2, <2>3
  <2>4. CASE k # 1
    <3>1. 1 < k /\ 1 \in DOMAIN ranked /\ k \in DOMAIN ranked
      BY <1>3, <2>1, <2>4
    <3>2. \/ gained[ranked[1]] > gained[ranked[k]]
          \/ gained[ranked[1]] = gained[ranked[k]]
      <4> HIDE DEF gained, D
      <4> QED BY <1>1, <3>1 DEF ByCredit
    <3> HIDE DEF gained, D
    <3> QED BY <2>1, <2>2, <3>2
  <2> QED BY <2>3, <2>4
<1>8. \A x \in D : credit[x] + Weight[x] <= credit[v] + Weight[v]
  BY <1>2, <1>4, <1>7 DEF Gain
<1>9. /\ credit' \in [Queues -> Int]
      /\ \A q \in Queues :
            credit'[q] = (IF q \in D THEN credit[q] + Weight[q] ELSE credit[q])
                            - (IF q = v THEN Total(Weight, D) ELSE 0)
  <2>1. Total(Weight, D) \in Int
    BY <1>2, MoreWeighMore
  <2>2. gained[v] - Total(Weight, D) \in Int
    BY <1>2, <1>4, <1>6, <2>1
  <2>3. credit' = [gained EXCEPT ![v] = gained[v] - Total(Weight, D)]
    BY <1>1 DEF Pay
  <2>4. credit' \in [Queues -> Int]
    <3> HIDE DEF gained, D, v
    <3> QED BY <1>6, <2>2, <2>3
  <2>5. \A q \in Queues : credit'[q] = IF q = v THEN gained[v] - Total(Weight, D) ELSE gained[q]
    <3> HIDE DEF gained, D, v
    <3> QED BY <1>6, <2>3
  <2>6. \A q \in Queues : /\ gained[q] = IF q \in D THEN credit[q] + Weight[q] ELSE credit[q]
                          /\ gained[q] \in Int
    BY <1>6 DEF Gain
  <2> HIDE DEF gained, D, v
  <2> QED BY <2>1, <2>4, <2>5, <2>6
<1>10. D \in SUBSET Queues
  BY <1>2
<1> HIDE DEF gained, v
<1> QED BY <1>4, <1>5, <1>6, <1>8, <1>9, <1>10

\* Otherwise a step leaves the credits alone.
LEMMA CreditsStay ==
  ASSUME [Next]_vars,
         ~ (BeginPass /\ ~ strict /\ globalRunning < MaxWorkers /\ Demanding # {})
  PROVE  UNCHANGED credit
BY DEF Next, Wake, Poll, BeginPass, Serve, JobNext, JobEnds, LeaveGlobal, LeaveQueue, vars

LEMMA NextEven == ASSUME Inv, Even(credit), [Next]_vars PROVE Even(credit)'
<1>1. CASE BeginPass /\ ~ strict /\ globalRunning < MaxWorkers /\ Demanding # {}
  <2>1. PICK v \in Demanding :
           /\ Demanding \in SUBSET Queues /\ credit \in [Queues -> Int]
           /\ \A x \in Demanding : credit[x] + Weight[x] <= credit[v] + Weight[v]
           /\ credit' \in [Queues -> Int]
           /\ \A q \in Queues :
                 credit'[q] = (IF q \in Demanding THEN credit[q] + Weight[q] ELSE credit[q])
                                 - (IF q = v THEN Total(Weight, Demanding) ELSE 0)
    BY <1>1, PassPays
  <2>2. Even(credit')
    BY <2>1, PassEvens
  <2> QED BY <2>2 DEF Even
<1>2. CASE ~ (BeginPass /\ ~ strict /\ globalRunning < MaxWorkers /\ Demanding # {})
  <2>1. Even(credit') = Even(credit)
    BY <1>2, CreditsStay
  <2> QED BY <2>1 DEF Even
<1> QED BY <1>1, <1>2

LEMMA MaxCreditIsInt == MaxCredit \in Int
<1>1. \A a, b \in Int : a * b \in Int
  OBVIOUS
<1>2. Total(Weight, Queues) \in Int /\ Cardinality(Queues) - 1 \in Int
  BY QueuesAssumption, MoreWeighMore, FS_CardinalityType
<1> QED BY <1>1, <1>2 DEF MaxCredit

LEMMA EvenIsBounded ==
  ASSUME NEW c \in [Queues -> Int], Even(c)
  PROVE  c \in [Queues -> -MaxCredit..MaxCredit]
<1> DEFINE W == Total(Weight, Queues)
           N == Cardinality(Queues)
<1>1. W \in Nat /\ N \in Nat /\ IsFiniteSet(Queues)
  BY QueuesAssumption, MoreWeighMore, FS_CardinalityType
<1>2. ASSUME NEW q \in Queues PROVE c[q] \in -MaxCredit..MaxCredit
  <2> DEFINE R == Queues \ {q}
  <2>1. /\ IsFiniteSet({q}) /\ Cardinality({q}) = 1 /\ {q} \ {q} = {} /\ IsFiniteSet({})
        /\ Cardinality(R) = N - 1
    BY <1>1, FS_Singleton, FS_EmptySet, FS_RemoveElement
  <2>2. Total(c, {q}) = c[q] + Total(c, {q} \ {q})
    <3>1. \A x \in {q} : c[x] \in Int
      OBVIOUS
    <3> QED BY <2>1, <3>1, TotalWithout
  <2>3. Total(c, {q}) = c[q]
    <3>1. Total(c, {q} \ {q}) = 0
      BY <2>1, TotalStep
    <3> QED BY <2>2, <3>1
  <2>4. Total(c, R) \in Int /\ 0 = c[q] + Total(c, R)
    <3>1. \A x \in Queues : c[x] \in Int
      OBVIOUS
    <3>2. Total(c, Queues) = c[q] + Total(c, R) /\ Total(c, R) \in Int
      BY <1>1, <3>1, TotalWithout
    <3> QED BY <3>2 DEF Even
  <2>5. c[q] + W * (1 * (N - 1)) >= 0
    BY <2>1, <2>3 DEF Even
  <2>6. Total(c, R) + W * ((N - 1) * (N - (N - 1))) >= 0
    BY <2>1 DEF Even
  <2>7. W * (1 * (N - 1)) = MaxCredit /\ W * ((N - 1) * (N - (N - 1))) = MaxCredit
        /\ MaxCredit \in Int
    <3>1. 1 * (N - 1) = N - 1 /\ (N - 1) * (N - (N - 1)) = N - 1 /\ N - 1 \in Int
      BY <1>1
    <3>2. \A z \in Int : W * z \in Int
      BY <1>1
    <3> QED BY <3>1, <3>2 DEF MaxCredit
  <2> HIDE DEF W, N, R
  <2> QED BY <2>4, <2>5, <2>6, <2>7
<1> QED BY <1>2

\* However the queues come and go between the passes, no queue is ever owed, or owes,
\* more than the weights of all queues times the number of the others: the credits do
\* not run away, so one that comes back has not lost its turn for good, nor the
\* others theirs (dispatcher.go:138-150).
THEOREM CreditsStayEven ==
  Spec => [](Even(credit) /\ credit \in [Queues -> -MaxCredit..MaxCredit])
<1>1. Init => Even(credit)
  <2> SUFFICES ASSUME Init PROVE Even(credit)
    OBVIOUS
  <2>1. credit = [q \in Queues |-> 0]
    BY DEF Init, None
  <2>2. ASSUME NEW S \in SUBSET Queues PROVE Total(credit, S) = 0
    <3>1. IsFiniteSet(S) /\ \A q \in S : credit[q] = 0
      BY <2>1, QueuesAssumption, FS_Subset
    <3> QED BY <3>1, TotalOfZeroes
  <2>3. ASSUME NEW S \in SUBSET Queues
        PROVE  Total(Weight, Queues)
                  * (Cardinality(S) * (Cardinality(Queues) - Cardinality(S))) \in Nat
    <3>1. /\ Cardinality(S) \in Nat /\ Cardinality(Queues) \in Nat
          /\ Cardinality(S) <= Cardinality(Queues) /\ Total(Weight, Queues) \in Nat
      BY QueuesAssumption, MoreWeighMore, FS_Subset, FS_CardinalityType
    <3>2. \A w, j, n \in Nat : j <= n => w * (j * (n - j)) \in Nat
      <4>1. \A w, z \in Nat : w * z \in Nat
        OBVIOUS
      <4>2. \A j, n \in Nat : j <= n => j * (n - j) \in Nat
        <5>1. \A j, n \in Nat : j <= n => n - j \in Nat
          OBVIOUS
        <5>2. \A j, z \in Nat : j * z \in Nat
          OBVIOUS
        <5> QED BY <5>1, <5>2
      <4> QED BY <4>1, <4>2
    <3> QED BY <3>1, <3>2
  <2>4. Queues \in SUBSET Queues
    OBVIOUS
  <2> QED BY <2>2, <2>3, <2>4 DEF Even
<1>2. Inv /\ Even(credit) /\ [Next]_vars => Even(credit)'
  BY NextEven
<1>3. Inv /\ Even(credit) => credit \in [Queues -> -MaxCredit..MaxCredit]
  BY EvenIsBounded DEF Inv, Shapes
<1> QED BY <1>1, <1>2, <1>3, InvAlways, PTL DEF Spec

\* No share is rounded down to nothing: whoever is served next, is asked for a row at
\* least (dispatcher.go:152-156).
THEOREM EveryShareCounts == Spec => [](pass # << >> => Limit(Head(pass)) > 0)
<1>1. Inv => (pass # << >> => Limit(Head(pass)) > 0)
  <2> SUFFICES ASSUME Inv, pass # << >> PROVE Limit(Head(pass)) > 0
    OBVIOUS
  <2> DEFINE d == Head(pass)
             w == Weight[d.queue]
  <2>1. d \in Demands
    BY HeadTailProperties DEF Inv, Shapes
  <2>2. /\ d.free \in Nat \ {0} /\ w \in Nat \ {0}
        /\ free \in Nat \ {0} /\ weights \in Nat \ {0}
    <3>1. d.free \in Nat \ {0} /\ w \in Nat \ {0}
      BY <2>1, ConfigAssumption DEF Demands
    <3>2. free \in 0..MaxWorkers /\ free > 0 /\ weights \in Nat /\ weights > 0
      BY DEF Inv, Shapes, PassFits
    <3> QED BY <3>1, <3>2, ConfigAssumption
  <2>3. Quota(d.queue) \in Nat \ {0}
    <3>1. \A a, b \in Nat \ {0} : a * b \in Nat \ {0}
      OBVIOUS
    <3>2. \A a, b \in Nat \ {0} : (a + b - 1) \div b \in Nat \ {0}
      OBVIOUS
    <3>3. free * w \in Nat \ {0}
      <4> HIDE DEF w
      <4> QED BY <2>2, <3>1
    <3>4. (free * w + weights - 1) \div weights \in Nat \ {0}
      <4> HIDE DEF w
      <4> QED BY <2>2, <3>2, <3>3
    <3> QED BY <2>2, <3>4 DEF Quota
  <2>4. Limit(d) \in {Quota(d.queue), d.free, free}
    <3> HIDE DEF d
    <3>1. Quota(d.queue) \in Int /\ d.free \in Int /\ free \in Int
      BY <2>2, <2>3
    <3> QED BY <3>1, LeastOfThree DEF Limit
  <2> HIDE DEF d
  <2> QED BY <2>2, <2>3, <2>4 DEF d
<1> QED BY <1>1, InvAlways, PTL

-----------------------------------------------------------------------------
(* How long a queue waits for its turn.                                    *)

VARIABLE passedOver     \* history: per queue, the weighted passes it had room in
                        \* since it last came first

Begins == Asleep /\ pass' # << >> /\ ~ strict

Watch ==
    passedOver' = [q \in Queues |->
                     IF ~ Begins \/ q \notin Demanding THEN passedOver[q]
                     ELSE IF q = pass'[1].queue THEN 0
                     ELSE passedOver[q] + 1]

WatchedInit == Init /\ passedOver = None

\* The loop with its history, which watches the steps and hinders none.
WatchedSpec == WatchedInit /\ [][Next /\ Watch]_<<vars, passedOver>>

\* Each pass over adds a queue's weight to its credit, which can start from no lower
\* than all the others' claim on it.
Waited ==
    /\ passedOver \in [Queues -> Nat]
    /\ \A q \in Queues : passedOver[q] * Weight[q] <= credit[q] + MaxCredit

LEMMA WatchKeeps ==
  ASSUME Inv, Inv', credit' \in [Queues -> -MaxCredit..MaxCredit], Waited,
         [Next /\ Watch]_<<vars, passedOver>>
  PROVE  Waited'
<1>1. /\ passedOver \in [Queues -> Nat] /\ credit \in [Queues -> Int]
      /\ \A q \in Queues : passedOver[q] * Weight[q] <= credit[q] + MaxCredit
  BY DEF Waited, Inv, Shapes
<1>2. CASE UNCHANGED <<vars, passedOver>>
  BY <1>2 DEF Waited, vars
<1>3. CASE Next /\ Watch
  <2>1. passedOver' \in [Queues -> Nat]
    BY <1>1, <1>3 DEF Watch
  <2>2. ASSUME NEW q \in Queues PROVE passedOver'[q] * Weight[q] <= credit'[q] + MaxCredit
    <3> DEFINE w == Weight[q]
               k == passedOver[q]
               m == MaxCredit
    <3>1. w \in Nat \ {0} /\ k \in Nat /\ k * w <= credit[q] + m /\ credit[q] \in Int
          /\ credit'[q] \in -m..m
      BY <1>1, ConfigAssumption
    <3>2. m \in Int
      BY MaxCreditIsInt
    <3>3. CASE Begins
      <4>1. BeginPass /\ ~ strict /\ globalRunning < MaxWorkers /\ Demanding # {}
        BY <1>3, <3>3 DEF Begins, Next, Wake, Poll, BeginPass, Serve, JobNext, JobEnds,
                         LeaveGlobal, LeaveQueue, Asleep
      <4>2. PICK v \in Demanding :
               /\ pass'[1].queue = v
               /\ \A p \in Queues :
                     credit'[p] = (IF p \in Demanding THEN credit[p] + Weight[p] ELSE credit[p])
                                     - (IF p = v THEN Total(Weight, Demanding) ELSE 0)
        BY <4>1, PassPays
      <4>3. CASE q \notin Demanding
        <5>1. passedOver'[q] = k
          BY <1>3, <4>3 DEF Watch
        <5>2. credit'[q] = credit[q]
          BY <3>1, <4>2, <4>3
        <5> HIDE DEF w, k, m
        <5> QED BY <3>1, <5>1, <5>2 DEF w, m
      <4>4. CASE q = v
        <5>1. passedOver'[q] = 0
          BY <1>3, <3>3, <4>2, <4>4 DEF Watch
        <5>2. 0 * w = 0
          BY <3>1
        <5> HIDE DEF m
        <5> QED BY <3>1, <3>2, <5>1, <5>2 DEF m
      <4>5. CASE q \in Demanding /\ q # v
        <5>1. passedOver'[q] = k + 1
          BY <1>3, <3>3, <4>2, <4>5 DEF Watch
        <5>2. credit'[q] = credit[q] + w
          BY <3>1, <4>2, <4>5
        <5>3. \A a, b \in Nat : (a + 1) * b = a * b + b /\ a * b \in Nat
          OBVIOUS
        <5> HIDE DEF w, k, m
        <5>4. (k + 1) * w = k * w + w /\ k * w \in Nat
          BY <3>1, <5>3
        <5>5. (k + 1) * w <= credit'[q] + m
          BY <3>1, <3>2, <5>2, <5>4
        <5> QED BY <5>1, <5>5 DEF w, m
      <4> QED BY <4>3, <4>4, <4>5
    <3>4. CASE ~ Begins
      <4>1. passedOver'[q] = k
        BY <1>3, <3>4 DEF Watch
      <4>2. ~ (BeginPass /\ ~ strict /\ globalRunning < MaxWorkers /\ Demanding # {})
        BY <3>4, PassPays DEF Begins, BeginPass
      <4>3. UNCHANGED credit
        BY <1>3, <4>2, CreditsStay
      <4> QED BY <3>1, <4>1, <4>3
    <3> QED BY <3>3, <3>4
  <2> QED BY <2>1, <2>2 DEF Waited
<1> QED BY <1>2, <1>3

\* A queue that has room pass after pass comes first again before the passes it was
\* not first in, times its weight, exceed twice MaxCredit, whatever the other queues
\* do and however they come and go (dispatcher.go:140-150; client.go:22-26).
THEOREM NobodyWaitsForLong ==
  WatchedSpec => [](\A q \in Queues : passedOver[q] * Weight[q] <= 2 * MaxCredit)
<1>1. WatchedSpec => Spec
  <2>1. WatchedInit => Init
    BY DEF WatchedInit
  <2>2. [Next /\ Watch]_<<vars, passedOver>> => [Next]_vars
    BY DEF vars
  <2> QED BY <2>1, <2>2, PTL DEF WatchedSpec, Spec
<1>2. WatchedInit /\ credit \in [Queues -> -MaxCredit..MaxCredit] => Waited
  <2> SUFFICES ASSUME WatchedInit, credit \in [Queues -> -MaxCredit..MaxCredit],
                      NEW q \in Queues
               PROVE  passedOver[q] * Weight[q] <= credit[q] + MaxCredit
    BY DEF WatchedInit, Waited, None
  <2>1. passedOver[q] * Weight[q] = 0
    BY ConfigAssumption DEF WatchedInit, None
  <2>2. credit[q] = 0 /\ 0 \in -MaxCredit..MaxCredit
    BY DEF WatchedInit, Init, None
  <2> QED BY <2>1, <2>2, MaxCreditIsInt
<1>3. Inv /\ Inv' /\ (credit \in [Queues -> -MaxCredit..MaxCredit])' /\ Waited
         /\ [Next /\ Watch]_<<vars, passedOver>> => Waited'
  <2> SUFFICES ASSUME Inv, Inv', (credit \in [Queues -> -MaxCredit..MaxCredit])', Waited,
                      [Next /\ Watch]_<<vars, passedOver>>
               PROVE  Waited'
    OBVIOUS
  <2>1. credit' \in [Queues -> -MaxCredit..MaxCredit]
    OBVIOUS
  <2> QED BY <2>1, WatchKeeps
<1>4. Waited /\ credit \in [Queues -> -MaxCredit..MaxCredit]
         => \A q \in Queues : passedOver[q] * Weight[q] <= 2 * MaxCredit
  <2> SUFFICES ASSUME Waited, credit \in [Queues -> -MaxCredit..MaxCredit], NEW q \in Queues
               PROVE  passedOver[q] * Weight[q] <= 2 * MaxCredit
    OBVIOUS
  <2>1. /\ passedOver[q] * Weight[q] <= credit[q] + MaxCredit
        /\ credit[q] \in -MaxCredit..MaxCredit
        /\ passedOver[q] \in Nat /\ Weight[q] \in Nat
    BY ConfigAssumption DEF Waited
  <2>2. \A a, b \in Nat : a * b \in Nat
    OBVIOUS
  <2>3. passedOver[q] * Weight[q] \in Nat
    BY <2>1, <2>2
  <2>4. MaxCredit \in Int
    BY MaxCreditIsInt
  <2> QED BY <2>1, <2>3, <2>4
<1> QED BY <1>1, <1>2, <1>3, <1>4, InvAlways, CreditsStayEven, PTL DEF WatchedSpec

\* The variables of the dispatch loop keep their types, the range of the credits
\* included, and a pass under way has slots left to give: dispatchOnce returns as
\* soon as globalFree is used up.
THEOREM TypeCorrect == Spec => []TypeOK
<1>1. Inv /\ credit \in [Queues -> -MaxCredit..MaxCredit] => TypeOK
  BY DEF Inv, Shapes, TypeOK
<1> QED BY <1>1, InvAlways, CreditsStayEven, PTL

=============================================================================
