------------------------- MODULE JobLifecycleProofs -------------------------
(***************************************************************************)
(* What the contract of JobLifecycle gives its users.  The implementations *)
(* that are shown to keep the contract give it, too.                       *)
(***************************************************************************)
EXTENDS JobLifecycle, TLAPS

Phases == {"unborn", "waiting", "held", "finished", "gone"}

Lives == [phase : Phases, generation : Nat, outcomes : Seq(Nat)]

\* A life in which each claim had its outcome at most once.
LifeOK(l) ==
    /\ l \in Lives
    /\ \A j, k \in DOMAIN l.outcomes : j < k => l.outcomes[j] < l.outcomes[k]
    /\ \A k \in DOMAIN l.outcomes :
          l.outcomes[k] \in 1..(IF l.phase = "held" THEN l.generation - 1 ELSE l.generation)
    /\ l.phase = "held" => l.generation >= 1
    /\ l.phase = "finished" =>
          l.outcomes # <<>> /\ l.outcomes[Len(l.outcomes)] = l.generation

LivesOK == \A i \in Ids : LifeOK(life[i])

LEMMA LivesOKImplies == LivesOK => OncePerClaim
  BY DEF LivesOK, LifeOK, OncePerClaim

LEMMA UnbornOK == LifeOK(Unborn)
  BY DEF LifeOK, Lives, Phases, Unborn

\* A claim is of a generation beyond all that had an outcome.
LEMMA GrantedOK ==
    ASSUME NEW l, LifeOK(l), l.phase = "waiting"
    PROVE  LifeOK(Granted(l))
<1>1. /\ Granted(l) \in Lives
      /\ Granted(l).phase = "held" /\ Granted(l).generation = l.generation + 1
      /\ Granted(l).outcomes = l.outcomes
  <2>1. l \in Lives
    BY DEF LifeOK
  <2> QED
    <3> DEFINE g == l.generation + 1
    <3>1. g \in Nat
      BY <2>1 DEF Lives
    <3>2. Granted(l) = [l EXCEPT !.phase = "held", !.generation = g]
      BY DEF Granted
    <3> HIDE DEF g
    <3>3. /\ Granted(l) \in Lives
          /\ Granted(l).phase = "held" /\ Granted(l).generation = g
          /\ Granted(l).outcomes = l.outcomes
      BY <2>1, <3>1, <3>2 DEF Lives, Phases
    <3> QED
      BY <3>3 DEF g
<1>2. l.generation \in Nat /\ \A k \in DOMAIN l.outcomes : l.outcomes[k] \in 1..l.generation
  BY DEF LifeOK, Lives
<1> QED
  BY <1>1, <1>2 DEF LifeOK

\* So an outcome of the claim that holds the job comes after all there were.
LEMMA SettledOK ==
    ASSUME NEW l, LifeOK(l), l.phase = "held", NEW phase \in {"waiting", "finished"}
    PROVE  LifeOK(Settled(l, phase))
<1> DEFINE s == Settled(l, phase)
           n == Len(l.outcomes)
<1>1. /\ l.generation \in Nat /\ l.generation >= 1 /\ l.outcomes \in Seq(Nat) /\ n \in Nat
      /\ \A k \in 1..n : l.outcomes[k] \in 1..(l.generation - 1)
  BY DEF LifeOK, Lives
<1>2. /\ s \in Lives /\ s.phase = phase /\ s.generation = l.generation
      /\ s.outcomes = Append(l.outcomes, l.generation)
  <2>1. l \in Lives /\ phase \in Phases
    BY DEF LifeOK, Phases
  <2>2. Append(l.outcomes, l.generation) \in Seq(Nat)
    BY <1>1
  <2> QED
    BY <2>1, <2>2 DEF Settled, Lives
<1>3. /\ DOMAIN s.outcomes = 1..(n + 1) /\ Len(s.outcomes) = n + 1
      /\ \A k \in 1..n : s.outcomes[k] = l.outcomes[k]
      /\ s.outcomes[n + 1] = l.generation
  BY <1>1, <1>2
<1> HIDE DEF s, n
<1>4. ASSUME NEW j \in 1..(n + 1), NEW k \in 1..(n + 1), j < k
      PROVE  s.outcomes[j] < s.outcomes[k]
  <2>1. j \in 1..n /\ (k \in 1..n \/ k = n + 1)
    BY <1>1, <1>4
  <2>2. \A a, b \in 1..n : a < b => l.outcomes[a] < l.outcomes[b]
    <3>1. DOMAIN l.outcomes = 1..n
      BY <1>1 DEF n
    <3>2. \A a, b \in DOMAIN l.outcomes : a < b => l.outcomes[a] < l.outcomes[b]
      BY DEF LifeOK
    <3> QED
      BY <3>1, <3>2
  <2>3. CASE k \in 1..n
    BY <1>3, <1>4, <2>1, <2>2, <2>3
  <2>4. CASE k = n + 1
    <3>1. l.outcomes[j] \in 1..(l.generation - 1)
      BY <1>1, <2>1
    <3> QED
      BY <1>1, <1>3, <2>1, <2>4, <3>1
  <2> QED
    BY <2>1, <2>3, <2>4
<1>5. \A k \in 1..(n + 1) : s.outcomes[k] \in 1..l.generation
  <2>1. \A k \in 1..(n + 1) : k \in 1..n \/ k = n + 1
    BY <1>1
  <2> QED
    BY <1>1, <1>3, <2>1
<1>6. s.outcomes # <<>>
  BY <1>1, <1>3
<1> QED
  BY <1>2, <1>3, <1>4, <1>5, <1>6 DEF LifeOK, s

\* The other moves add no outcome and leave the generation alone.
LEMMA QuietOK ==
    ASSUME NEW l, LifeOK(l), NEW phase \in {"waiting", "gone"}
    PROVE  LifeOK([l EXCEPT !.phase = phase])
<1> DEFINE q == [l EXCEPT !.phase = phase]
<1>1. /\ q \in Lives /\ q.phase = phase /\ q.generation = l.generation
      /\ q.outcomes = l.outcomes
  BY DEF LifeOK, Lives, Phases
<1>2. /\ l.generation \in Nat
      /\ \A k \in DOMAIN l.outcomes : l.outcomes[k] \in 1..l.generation
  BY DEF LifeOK, Lives
<1> HIDE DEF q
<1> QED
  BY <1>1, <1>2 DEF LifeOK, q

LEMMA MovesOK ==
    ASSUME NEW l, LifeOK(l), NEW m \in Moves(l)
    PROVE  LifeOK(m)
<1>1. CASE l.phase = "unborn"
  <2>1. m = Submitted(l)
    BY <1>1 DEF Moves
  <2> QED
    BY <2>1, QuietOK DEF Submitted
<1>2. CASE l.phase = "waiting"
  BY <1>2, GrantedOK DEF Moves
<1>3. CASE l.phase = "held"
  <2>1. m = Settled(l, "waiting") \/ m = Settled(l, "finished") \/ m = Revoked(l)
    BY <1>3 DEF Moves
  <2>2. CASE m = Revoked(l)
    BY <2>2, QuietOK DEF Revoked
  <2> QED
    BY <1>3, <2>1, <2>2, SettledOK
<1>4. CASE l.phase = "finished"
  <2>1. m = Discarded(l)
    BY <1>4 DEF Moves
  <2> QED
    BY <2>1, QuietOK DEF Discarded
<1>5. CASE l.phase = "gone"
  BY <1>5 DEF Moves
<1> QED
  BY <1>1, <1>2, <1>3, <1>4, <1>5 DEF LifeOK, Lives, Phases

LEMMA StepOK == LivesOK /\ [Next]_life => LivesOK'
<1> SUFFICES ASSUME LivesOK, [Next]_life PROVE LivesOK'
  OBVIOUS
<1>1. CASE Operate
  BY <1>1, MovesOK DEF Operate, LivesOK
<1>2. CASE Wipe
  <2>1. ASSUME NEW i \in Ids PROVE LifeOK(life'[i])
    <3>1. life'[i] = life[i] \/ life'[i] = Discarded(life[i])
      BY <1>2 DEF Wipe
    <3>2. LifeOK(life[i])
      BY DEF LivesOK
    <3> QED
      BY <3>1, <3>2, QuietOK DEF Discarded
  <2> QED
    BY <1>2, <2>1 DEF LivesOK, Wipe
<1>3. CASE UNCHANGED life
  BY <1>3 DEF LivesOK
<1> QED
  BY <1>1, <1>2, <1>3 DEF Next

\* Whoever keeps the contract records the outcome of each claim at most once, in
\* the order of the claims, none for a claim that is still held, and finishes a
\* job with the outcome of its last claim, for any jobs and any operations.
THEOREM EachClaimOnce == Spec => []OncePerClaim
<1>1. Init => LivesOK
  BY UnbornOK DEF Init, LivesOK
<1> QED
  BY <1>1, StepOK, LivesOKImplies, PTL DEF Spec
=============================================================================
