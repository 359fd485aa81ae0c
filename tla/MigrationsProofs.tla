--------------------------- MODULE MigrationsProofs ---------------------------
(***************************************************************************)
(* What Migrations promises, for any number of processes, releases, indexes *)
(* and faults.  The argument: whoever goes by what it read under the lock  *)
(* still holds it.  An orphaned session keeps the lock while it builds, so  *)
(* the indexes that are invalid when a process looks for remnants are       *)
(* nobody's work in progress; and when it builds, the only invalid index    *)
(* among those of the pending versions is its own, so IF NOT EXISTS is      *)
(* content only with valid ones.                                            *)
(***************************************************************************)
EXTENDS Migrations, TLAPS

\* A process is under way under the lock exactly if it holds it.
LockHeld == \A p \in Processes : pc[p] \in Locked <=> holder = p

\* What an orphaned session builds is invalid yet, and locked.
OrphansLocked == /\ orphans # {} => holder = Orphan
                 /\ \A i \in orphans : index[i] = "invalid"

\* A recorded version is usable, and so are all before it.
RecordedUsable ==
    \A v \in versions : \A w \in 1..v :
        w \in versions /\ \A i \in NamesOf(w) : index[i] = "valid"

Counted == \A v \in Versions : applied[v] = IF v \in versions THEN 1 ELSE 0

NilDone == \A p \in Processes : pc[p] = "nil" => 1..Known[p] \subseteq versions

\* What a process believes under the lock is so.
Sound(p) ==
    /\ pc[p] = "dropping" => found[p] = Remnants(p)
    /\ pc[p] \in {"listing", "applying"} => Remnants(p) = {}
    /\ pc[p] \in {"applying", "building"} => pending[p] = Pending(p)
    /\ pc[p] = "building" =>
          \E v \in Versions : /\ IsNext(p, v) /\ StatementsLeft(p, v)
                              /\ Remnants(p) = {Statement(p, v)}
    /\ built[p] # 0 => pc[p] \in {"applying", "building"} /\ pending[p] # {}
    /\ \A v \in Versions : IsNext(p, v) =>
          /\ built[p] <= Len(Indexes[v])
          /\ \A k \in 1..built[p] : index[Indexes[v][k]] = "valid"

IInv == /\ TypeOK
        /\ LockHeld
        /\ OrphansLocked
        /\ RecordedUsable
        /\ Counted
        /\ NilDone
        /\ \A p \in Processes : Sound(p)

-----------------------------------------------------------------------------
(* Lemmas.                                                                 *)

\* A binary knows the versions from the first to the last it ships.
LEMMA KnownRange ==
    ASSUME NEW p \in Processes
    PROVE  Known[p] \in Versions /\ 1..Known[p] \subseteq Versions
  <1>1. Known[p] \in Versions BY KnownAssumption
  <1>2. Versions = 1..Len(Indexes) /\ Len(Indexes) \in Nat
    BY IndexesAssumption DEF Versions
  <1> QED BY <1>1, <1>2

\* The indexes of a version are among the names, the next one to build included.
LEMMA IndexNames ==
    ASSUME NEW v \in Versions
    PROVE  /\ Indexes[v] \in Seq(Names)
           /\ Len(Indexes[v]) \in Nat
           /\ NamesOf(v) \subseteq Names
           /\ NamesOf(v) = {Indexes[v][k] : k \in 1..Len(Indexes[v])}
           /\ \A k \in 1..Len(Indexes[v]) : Indexes[v][k] \in NamesOf(v)
  <1>1. Indexes[v] \in Seq(Names) BY IndexesAssumption DEF Versions
  <1> QED BY <1>1 DEF NamesOf

\* A process that has nothing begun has nothing to be wrong about.
LEMMA Idle ==
    ASSUME TypeOK', NEW p \in Processes, pc'[p] \notin Locked, built'[p] = 0
    PROVE  Sound(p)'
  <1>1. pc'[p] \notin {"reading", "dropping", "listing", "applying", "building"}
    BY DEF Locked
  <1>2. \A v \in Versions : Len(Indexes[v]) \in Nat BY IndexNames
  <1>3. \A k : k \in 1..0 => FALSE OBVIOUS
  <1> QED BY <1>1, <1>2, <1>3 DEF Sound

\* What a process believes depends on the database and its own progress only.
LEMMA Same ==
    ASSUME NEW p \in Processes, Sound(p),
           versions' = versions, index' = index,
           pc'[p] = pc[p], found'[p] = found[p], pending'[p] = pending[p], built'[p] = built[p]
    PROVE  Sound(p)'
  BY DEF Sound, Remnants, PendingNames, Pending, IsNext, StatementsLeft, Statement

\* The lock is one process's.
LEMMA OthersOut ==
    ASSUME IInv, NEW p \in Processes, pc[p] \in Locked, NEW q \in Processes \ {p}
    PROVE  pc[q] \notin Locked /\ built[q] = 0 /\ orphans = {}
  <1>1. holder = p /\ holder # q BY DEF IInv, LockHeld
  <1>2. pc[q] \notin Locked BY <1>1 DEF IInv, LockHeld
  <1>3. built[q] = 0 BY <1>2 DEF IInv, Sound, Locked
  <1>4. orphans = {} BY <1>1, ProcessesAssumption DEF IInv, OrphansLocked
  <1> QED BY <1>2, <1>3, <1>4

\* The least pending version is known to the process and comes right after what
\* is recorded.
LEMMA NextVersion ==
    ASSUME IInv, NEW p \in Processes, pc[p] \in {"applying", "building"},
           NEW v \in pending[p], IsNext(p, v)
    PROVE  /\ v \in Versions /\ v \in 1..Known[p] /\ v \notin versions
           /\ pending[p] = Pending(p)
           /\ \A w \in 1..v : w # v => w \in versions
  <1>1. pending[p] = Pending(p) BY DEF IInv, Sound
  <1>2. v \in 1..Known[p] /\ v \notin versions BY <1>1 DEF Pending
  <1>3. Known[p] \in Nat /\ v \in Versions
    BY <1>2, KnownRange, IndexesAssumption DEF Versions
  <1>4. ASSUME NEW w \in 1..v, w # v PROVE w \in versions
    <2>1. w \in 1..Known[p] /\ ~(v <= w) BY <1>2, <1>3, <1>4
    <2>2. w \notin pending[p] BY <2>1 DEF IsNext
    <2> QED BY <2>1, <2>2, <1>1 DEF Pending
  <1> QED BY <1>1, <1>2, <1>3, <1>4

-----------------------------------------------------------------------------
(* Steps outside the lock.                                                 *)

\* A process that neither holds nor takes the lock disturbs nobody.
LEMMA Aside ==
    ASSUME IInv, TypeOK', NEW p \in Processes, NEW phase \in Phases \ Locked,
           pc[p] \notin Locked, Goto(p, phase),
           phase = "nil" => 1..Known[p] \subseteq versions,
           UNCHANGED <<database, holder, orphans, found, pending, built>>
    PROVE  IInv'
  <1> USE DEF database
  <1>1. pc'[p] = phase /\ \A q \in Processes \ {p} : pc'[q] = pc[q]
    BY DEF Goto, IInv, TypeOK
  <1>2. LockHeld' BY <1>1 DEF IInv, LockHeld
  <1>3. OrphansLocked' /\ RecordedUsable' /\ Counted'
    BY DEF IInv, OrphansLocked, RecordedUsable, Counted
  <1>4. NilDone' BY <1>1 DEF IInv, NilDone
  <1>5. ASSUME NEW q \in Processes PROVE Sound(q)'
    <2>1. CASE q = p
      <3>1. built[p] = 0 BY DEF IInv, Sound, Locked
      <3> QED BY <1>1, <2>1, <3>1, Idle
    <2>2. CASE q # p
      BY <1>1, <2>2, Same DEF IInv
    <2> QED BY <2>1, <2>2
  <1> QED BY <1>2, <1>3, <1>4, <1>5 DEF IInv

\* Calling Up touches nothing but the caller (goosemigrate.go:89-108).
LEMMA UpStep ==
    ASSUME IInv, NEW p \in Processes, Up(p)
    PROVE  IInv'
  <1>1. TypeOK'
    BY BoundsAssumption DEF IInv, TypeOK, Up, Goto, database, progress, Phases, Ended, Locked
  <1>2. PICK phase \in {"refused", "judging"} : Goto(p, phase) BY DEF Up
  <1>3. phase \in Phases \ Locked /\ phase # "nil" BY DEF Phases, Ended, Locked
  <1>4. pc[p] \notin Locked BY DEF Up, Ended, Locked
  <1> QED BY <1>1, <1>2, <1>3, <1>4, Aside DEF Up, progress

\* The judgement of the recorded versions preserves the invariant: nil only when
\* nothing is pending (goosemigrate.go:110-141).
LEMMA JudgeStep ==
    ASSUME IInv, NEW p \in Processes, Judge(p)
    PROVE  IInv'
  <1>1. TypeOK'
    BY BoundsAssumption DEF IInv, TypeOK, Judge, Goto, database, Phases, Ended, Locked
  <1>2. PICK phase \in {"nil", "locking"} :
            Goto(p, phase) /\ (phase = "nil" => FullyApplied(p))
    BY DEF Judge
  <1>3. ASSUME phase = "nil" PROVE 1..Known[p] \subseteq versions
    <2>1. PICK v \in versions : v >= Known[p] BY <1>2, <1>3 DEF FullyApplied
    <2>2. v \in Nat /\ Known[p] \in Nat
      <3>1. versions \subseteq Versions BY DEF IInv, TypeOK
      <3>2. Known[p] \in Versions BY KnownRange
      <3> QED BY <3>1, <3>2, IndexesAssumption DEF Versions
    <2>3. 1..Known[p] \subseteq 1..v BY <2>1, <2>2
    <2> QED BY <2>3 DEF IInv, RecordedUsable
  <1>4. phase \in Phases \ Locked BY DEF Phases, Ended, Locked
  <1>5. pc[p] \notin Locked BY DEF Judge, Locked
  <1> QED BY <1>1, <1>2, <1>3, <1>4, <1>5, Aside DEF Judge

\* A refused try for the lock preserves the invariant.
LEMMA LockDeniedStep ==
    ASSUME IInv, NEW p \in Processes, LockDenied(p)
    PROVE  IInv'
  <1>1. TypeOK'
    BY BoundsAssumption DEF IInv, TypeOK, LockDenied, Goto, database, Phases, Ended, Locked
  <1>2. PICK phase \in {"failed", "locking"} : Goto(p, phase) BY DEF LockDenied
  <1>3. phase \in Phases \ Locked /\ phase # "nil" BY DEF Phases, Ended, Locked
  <1>4. pc[p] \notin Locked BY DEF LockDenied, Locked
  <1> QED BY <1>1, <1>2, <1>3, <1>4, Aside DEF LockDenied

-----------------------------------------------------------------------------
(* The lock is taken, and given up.                                        *)

\* Taking the lock preserves the invariant: whoever holds it is alone.
LEMMA LockStep ==
    ASSUME IInv, NEW p \in Processes, Lock(p)
    PROVE  IInv'
  <1> USE DEF database, progress
  <1>1. TypeOK' BY DEF IInv, TypeOK, Lock, Goto, Phases, Locked
  <1>2. pc'[p] = "reading" /\ \A q \in Processes \ {p} : pc'[q] = pc[q]
    BY DEF Lock, Goto, IInv, TypeOK
  <1>3. LockHeld'
    <2>1. \A q \in Processes : pc[q] \notin Locked
      BY ProcessesAssumption DEF Lock, IInv, LockHeld
    <2> QED BY <1>2, <2>1 DEF Lock, LockHeld, Locked
  <1>4. OrphansLocked'
    <2>1. orphans = {} BY DEF Lock, IInv, OrphansLocked, Nobody, Orphan
    <2> QED BY <2>1 DEF Lock, OrphansLocked
  <1>5. RecordedUsable' /\ Counted' BY DEF Lock, IInv, RecordedUsable, Counted
  <1>6. NilDone' BY <1>2 DEF Lock, IInv, NilDone
  <1>7. ASSUME NEW q \in Processes PROVE Sound(q)'
    <2>1. CASE q = p
      <3>1. pc[p] = "locking" BY DEF Lock
      <3>2. built'[p] = 0 BY <3>1 DEF Lock, IInv, Sound
      <3>3. \A v \in Versions : Len(Indexes[v]) \in Nat BY IndexNames
      <3>4. \A k : k \in 1..0 => FALSE OBVIOUS
      <3> QED BY <1>2, <2>1, <3>2, <3>3, <3>4 DEF Sound
    <2>2. CASE q # p
      BY <1>2, <2>2, Same DEF Lock, IInv
    <2> QED BY <2>1, <2>2
  <1> QED BY <1>1, <1>3, <1>4, <1>5, <1>6, <1>7 DEF IInv

\* Giving the lock back preserves the invariant, whatever the process concluded.
LEMMA UnlockStep ==
    ASSUME IInv, NEW p \in Processes, Unlock(p)
    PROVE  IInv'
  <1> USE DEF database, progress
  <1>1. TypeOK' BY DEF IInv, TypeOK, Unlock, Goto, Phases, Ended
  <1>2. pc'[p] = "nil" /\ \A q \in Processes \ {p} : pc'[q] = pc[q]
    BY DEF Unlock, Goto, IInv, TypeOK
  <1>3. pc[p] \in Locked BY DEF Unlock, Locked
  <1>4. LockHeld'
    <2>1. \A q \in Processes \ {p} : pc[q] \notin Locked BY <1>3, OthersOut
    <2> QED BY <1>2, <2>1, ProcessesAssumption DEF Unlock, LockHeld, Locked
  <1>5. OrphansLocked'
    <2>1. orphans = {} BY <1>3, ProcessesAssumption DEF IInv, OrphansLocked, LockHeld
    <2> QED BY <2>1 DEF Unlock, OrphansLocked
  <1>6. RecordedUsable' /\ Counted' BY DEF Unlock, IInv, RecordedUsable, Counted
  <1>7. NilDone'
    <2>1. 1..Known[p] \subseteq versions BY DEF Unlock, IInv, Sound, Pending
    <2> QED BY <1>2, <2>1 DEF Unlock, IInv, NilDone
  <1>8. ASSUME NEW q \in Processes PROVE Sound(q)'
    <2>1. CASE q = p
      <3>1. built'[p] = 0 BY DEF Unlock, IInv, Sound
      <3> QED BY <1>1, <1>2, <2>1, <3>1, Idle DEF Locked
    <2>2. CASE q # p
      BY <1>2, <2>2, Same DEF Unlock, IInv
    <2> QED BY <2>1, <2>2
  <1> QED BY <1>1, <1>4, <1>5, <1>6, <1>7, <1>8 DEF IInv

-----------------------------------------------------------------------------
(* Steps under the lock.                                                   *)

\* The one that holds the lock is the only one to be right about anything.
LEMMA UnderLock ==
    ASSUME IInv, TypeOK', NEW p \in Processes,
           pc[p] \in Locked, pc'[p] \in Locked,
           \A q \in Processes \ {p} : pc'[q] = pc[q] /\ built'[q] = built[q],
           UNCHANGED <<holder, orphans>>,
           versions \subseteq versions',
           RecordedUsable', Counted', Sound(p)'
    PROVE  IInv'
  <1>1. LockHeld' BY DEF IInv, LockHeld
  <1>2. OrphansLocked'
    <2>1. orphans = {} BY ProcessesAssumption DEF IInv, OrphansLocked, LockHeld
    <2> QED BY <2>1 DEF OrphansLocked
  <1>3. NilDone' BY DEF IInv, NilDone, Locked
  <1>4. ASSUME NEW q \in Processes, q # p PROVE Sound(q)'
    <2>1. pc[q] \notin Locked /\ built[q] = 0 BY <1>4, OthersOut
    <2> QED BY <1>4, <2>1, Idle
  <1> QED BY <1>1, <1>2, <1>3, <1>4 DEF IInv

\* The search for invalid indexes preserves the invariant (recover.go:125-143).
LEMMA FindInvalidStep ==
    ASSUME IInv, NEW p \in Processes, FindInvalid(p)
    PROVE  IInv'
  <1> USE DEF database
  <1>1. Remnants(p) \subseteq Names
    <2>1. \A v \in Pending(p) : NamesOf(v) \subseteq Names
      BY KnownRange, IndexNames DEF Pending
    <2> QED BY <2>1 DEF Remnants, PendingNames
  <1>2. TypeOK' BY <1>1 DEF IInv, TypeOK, FindInvalid, Goto, Phases, Locked
  <1>3. /\ pc[p] = "reading" /\ pc'[p] = "dropping"
        /\ \A q \in Processes \ {p} : pc'[q] = pc[q] /\ built'[q] = built[q]
    BY DEF FindInvalid, Goto, IInv, TypeOK
  <1>4. RecordedUsable' /\ Counted' BY DEF FindInvalid, IInv, RecordedUsable, Counted
  <1>5. Sound(p)'
    <2>1. found'[p] = Remnants(p) BY DEF FindInvalid, IInv, TypeOK
    <2>2. Remnants(p)' = Remnants(p)
      BY DEF FindInvalid, Remnants, PendingNames, Pending
    <2>3. built'[p] = 0 BY <1>3 DEF FindInvalid, IInv, Sound
    <2>4. \A v \in Versions : Len(Indexes[v]) \in Nat BY IndexNames
    <2>5. \A k : k \in 1..0 => FALSE OBVIOUS
    <2> QED BY <1>3, <2>1, <2>2, <2>3, <2>4, <2>5 DEF Sound
  <1> QED BY <1>2, <1>3, <1>4, <1>5, UnderLock DEF FindInvalid, Locked

\* Dropping an invalid index preserves the invariant: it is no recorded one.
LEMMA DropInvalidStep ==
    ASSUME IInv, NEW p \in Processes, NEW i \in found[p], DropInvalid(p, i)
    PROVE  IInv'
  <1>1. pc[p] = "dropping" BY DEF DropInvalid
  <1>2. i \in Names /\ index[i] = "invalid"
    <2>1. found[p] = Remnants(p) BY <1>1 DEF IInv, Sound
    <2> QED BY <2>1 DEF Remnants, IInv, TypeOK
  <1>3. TypeOK' BY <1>2 DEF IInv, TypeOK, DropInvalid, IndexStates
  <1>4. \A j \in Names : index[j] = "valid" => index'[j] = "valid"
    BY <1>2 DEF DropInvalid, IInv, TypeOK
  <1>5. RecordedUsable'
    <2>1. \A v \in versions : \A w \in 1..v :
            w \in Versions /\ NamesOf(w) \subseteq Names
      BY IndexNames DEF IInv, TypeOK, RecordedUsable
    <2> QED BY <1>4, <2>1 DEF DropInvalid, IInv, RecordedUsable
  <1>6. Counted' BY DEF DropInvalid, IInv, Counted
  <1>7. Sound(p)'
    <2>1. found'[p] = found[p] \ {i} BY DEF DropInvalid, IInv, TypeOK
    <2>2. PendingNames(p)' = PendingNames(p) BY DEF DropInvalid, PendingNames, Pending
    <2>3. PendingNames(p) \subseteq Names
      BY KnownRange, IndexNames DEF Pending, PendingNames
    <2>4. Remnants(p)' = Remnants(p) \ {i}
      BY <2>2, <2>3, <1>2 DEF DropInvalid, Remnants, IInv, TypeOK
    <2>5. found[p] = Remnants(p) /\ built[p] = 0 BY <1>1 DEF IInv, Sound
    <2>6. built'[p] = 0 /\ pc'[p] = "dropping" BY <1>1, <2>5 DEF DropInvalid
    <2>7. \A v \in Versions : Len(Indexes[v]) \in Nat BY IndexNames
    <2>8. \A k : k \in 1..0 => FALSE OBVIOUS
    <2> QED BY <2>1, <2>4, <2>5, <2>6, <2>7, <2>8 DEF Sound
  <1> QED BY <1>1, <1>3, <1>5, <1>6, <1>7, UnderLock DEF DropInvalid, Locked

\* The end of the sweep preserves the invariant (recover.go:144-160).
LEMMA SweptStep ==
    ASSUME IInv, NEW p \in Processes, Swept(p)
    PROVE  IInv'
  <1> USE DEF database, progress
  <1>1. TypeOK' BY DEF IInv, TypeOK, Swept, Goto, Phases, Locked
  <1>2. /\ pc[p] = "dropping" /\ pc'[p] = "listing"
        /\ \A q \in Processes \ {p} : pc'[q] = pc[q] /\ built'[q] = built[q]
    BY DEF Swept, Goto, IInv, TypeOK
  <1>3. RecordedUsable' /\ Counted' BY DEF Swept, IInv, RecordedUsable, Counted
  <1>4. Sound(p)'
    <2>1. Remnants(p) = {} /\ built[p] = 0 BY <1>2 DEF Swept, IInv, Sound
    <2>2. Remnants(p)' = Remnants(p) BY DEF Swept, Remnants, PendingNames, Pending
    <2>3. built'[p] = 0 BY <2>1 DEF Swept
    <2>4. \A v \in Versions : Len(Indexes[v]) \in Nat BY IndexNames
    <2>5. \A k : k \in 1..0 => FALSE OBVIOUS
    <2> QED BY <1>2, <2>1, <2>2, <2>3, <2>4, <2>5 DEF Sound
  <1> QED BY <1>1, <1>2, <1>3, <1>4, UnderLock DEF Swept, Locked

\* Listing what is pending preserves the invariant.
LEMMA ListStep ==
    ASSUME IInv, NEW p \in Processes, List(p)
    PROVE  IInv'
  <1> USE DEF database
  <1>1. TypeOK'
    BY KnownRange DEF IInv, TypeOK, List, Goto, Phases, Locked, Pending
  <1>2. /\ pc[p] = "listing" /\ pc'[p] = "applying"
        /\ \A q \in Processes \ {p} : pc'[q] = pc[q] /\ built'[q] = built[q]
    BY DEF List, Goto, IInv, TypeOK
  <1>3. RecordedUsable' /\ Counted' BY DEF List, IInv, RecordedUsable, Counted
  <1>4. Sound(p)'
    <2>1. Remnants(p) = {} /\ built[p] = 0 BY <1>2 DEF IInv, Sound
    <2>2. Remnants(p)' = Remnants(p) /\ Pending(p)' = Pending(p)
      BY DEF List, Remnants, PendingNames, Pending
    <2>3. pending'[p] = Pending(p) BY DEF List, IInv, TypeOK
    <2>4. built'[p] = 0 BY <2>1 DEF List
    <2>5. \A v \in Versions : Len(Indexes[v]) \in Nat BY IndexNames
    <2>6. \A k : k \in 1..0 => FALSE OBVIOUS
    <2> QED BY <1>2, <2>1, <2>2, <2>3, <2>4, <2>5, <2>6 DEF Sound
  <1> QED BY <1>1, <1>2, <1>3, <1>4, UnderLock DEF List, Locked

\* A version is recorded in its turn, with its indexes valid.
LEMMA RecordStep ==
    ASSUME IInv, NEW p \in Processes, NEW v \in pending[p],
           pc[p] = "applying", IsNext(p, v), Record(p, v),
           \A i \in NamesOf(v) : index[i] = "valid",
           index' = index, built'[p] = 0,
           built' \in [Processes -> Nat], \A q \in Processes \ {p} : built'[q] = built[q],
           UNCHANGED <<holder, orphans, attempt, found, calls, faults>>
    PROVE  IInv'
  <1>1. /\ v \in Versions /\ v \in 1..Known[p] /\ v \notin versions
        /\ pending[p] = Pending(p)
        /\ \A w \in 1..v : w # v => w \in versions
    BY NextVersion
  <1>2. /\ versions' = versions \union {v}
        /\ applied' = [applied EXCEPT ![v] = @ + 1]
        /\ pending' = [pending EXCEPT ![p] = @ \ {v}]
        /\ pc' = [pc EXCEPT ![p] = "applying"]
    BY DEF Record, Goto
  <1>3. TypeOK' BY <1>1, <1>2 DEF IInv, TypeOK, Phases, Locked
  <1>4. pc'[p] = "applying" /\ \A q \in Processes \ {p} : pc'[q] = pc[q]
    BY <1>2 DEF IInv, TypeOK
  <1>5. RecordedUsable'
    <2>1. ASSUME NEW u \in versions', NEW w \in 1..u
          PROVE  w \in versions' /\ \A i \in NamesOf(w) : index[i] = "valid"
      <3>1. CASE u \in versions
        BY <1>2, <3>1 DEF IInv, RecordedUsable
      <3>2. CASE u = v /\ w = v
        BY <1>2, <3>2
      <3>3. CASE u = v /\ w # v
        <4>1. w \in versions BY <1>1, <3>3
        <4>2. w \in 1..w BY <1>1, <4>1, IndexesAssumption DEF IInv, TypeOK, Versions
        <4> QED BY <1>2, <4>1, <4>2 DEF IInv, RecordedUsable
      <3> QED BY <1>2, <3>1, <3>2, <3>3
    <2> QED BY <2>1 DEF RecordedUsable, NamesOf
  <1>6. Counted'
    <2>1. applied[v] = 0 BY <1>1 DEF IInv, Counted
    <2>2. applied \in [Versions -> Nat] BY DEF IInv, TypeOK
    <2>3. applied'[v] = 1 BY <1>1, <1>2, <2>1, <2>2
    <2>4. \A w \in Versions \ {v} : applied'[w] = applied[w] BY <1>2, <2>2
    <2> QED BY <1>2, <2>3, <2>4 DEF IInv, Counted
  <1>7. Sound(p)'
    <2>1. Pending(p)' = Pending(p) \ {v} BY <1>2 DEF Pending
    <2>2. pending'[p] = Pending(p)' BY <1>1, <1>2, <2>1 DEF IInv, TypeOK
    <2>3. Remnants(p) = {} BY DEF IInv, Sound
    <2>4. Remnants(p)' = {}
      BY <2>1, <2>3 DEF Remnants, PendingNames, NamesOf
    <2>5. \A w \in Versions : Len(Indexes[w]) \in Nat BY IndexNames
    <2>6. \A k : k \in 1..0 => FALSE OBVIOUS
    <2> QED BY <1>4, <2>2, <2>4, <2>5, <2>6 DEF Sound
  <1> QED BY <1>2, <1>3, <1>4, <1>5, <1>6, <1>7, UnderLock DEF Locked

\* A transactional migration, applied and recorded at once, preserves the invariant.
LEMMA ApplyAtOnceStep ==
    ASSUME IInv, NEW p \in Processes, NEW v \in pending[p], ApplyAtOnce(p, v)
    PROVE  IInv'
  <1>1. v \in Versions /\ Indexes[v] = << >> BY NextVersion DEF ApplyAtOnce
  <1>2. NamesOf(v) = {} BY <1>1 DEF NamesOf
  <1>3. built[p] = 0
    <2>1. built[p] <= 0 BY <1>1 DEF ApplyAtOnce, IInv, Sound
    <2> QED BY <2>1 DEF IInv, TypeOK
  <1>4. built \in [Processes -> Nat] BY DEF IInv, TypeOK
  <1> QED BY <1>2, <1>3, <1>4, RecordStep DEF ApplyAtOnce

\* Recording a version whose indexes are built preserves the invariant.
LEMMA RecordBuiltStep ==
    ASSUME IInv, NEW p \in Processes, NEW v \in pending[p], RecordBuilt(p, v)
    PROVE  IInv'
  <1>1. v \in Versions BY NextVersion DEF RecordBuilt
  <1>2. \A i \in NamesOf(v) : index[i] = "valid"
    <2>1. /\ built[p] <= Len(Indexes[v])
          /\ \A k \in 1..built[p] : index[Indexes[v][k]] = "valid"
      BY <1>1 DEF RecordBuilt, IInv, Sound
    <2>2. built[p] \in Nat /\ Len(Indexes[v]) \in Nat
      BY <1>1, IndexNames DEF IInv, TypeOK
    <2>3. built[p] = Len(Indexes[v])
      BY <2>1, <2>2 DEF RecordBuilt, StatementsLeft
    <2> QED BY <1>1, <2>1, <2>3, IndexNames
  <1>3. /\ built' \in [Processes -> Nat] /\ built'[p] = 0
        /\ \A q \in Processes \ {p} : built'[q] = built[q]
    BY DEF RecordBuilt, IInv, TypeOK
  <1> QED BY <1>2, <1>3, RecordStep DEF RecordBuilt

\* The statement that comes next builds an index of a pending version.
LEMMA NextStatement ==
    ASSUME IInv, NEW p \in Processes, NEW v \in pending[p],
           pc[p] \in {"applying", "building"}, IsNext(p, v), StatementsLeft(p, v)
    PROVE  /\ v \in Versions
           /\ built[p] \in Nat /\ built[p] + 1 \in 1..Len(Indexes[v])
           /\ Statement(p, v) \in Names
           /\ Statement(p, v) \in PendingNames(p)
  <1>1. v \in Versions /\ v \in Pending(p) BY NextVersion
  <1>2. built[p] \in Nat /\ Len(Indexes[v]) \in Nat BY <1>1, IndexNames DEF IInv, TypeOK
  <1>3. built[p] + 1 \in 1..Len(Indexes[v]) BY <1>2 DEF StatementsLeft
  <1>4. Statement(p, v) \in NamesOf(v) BY <1>1, <1>3, IndexNames DEF Statement
  <1> QED BY <1>1, <1>2, <1>3, <1>4, IndexNames DEF PendingNames

\* Beginning a concurrent build preserves the invariant: the new index is invalid,
\* and its version not recorded.
LEMMA BuildBeginsStep ==
    ASSUME IInv, NEW p \in Processes, NEW v \in pending[p], BuildBegins(p, v)
    PROVE  IInv'
  <1> DEFINE s == Statement(p, v)
  <1>1. /\ v \in Versions /\ built[p] \in Nat /\ built[p] + 1 \in 1..Len(Indexes[v])
        /\ s \in Names /\ s \in PendingNames(p)
    BY NextStatement DEF BuildBegins
  <1>2. /\ pc[p] = "applying" /\ IsNext(p, v) /\ StatementsLeft(p, v)
        /\ index[s] = "absent"
        /\ index' = [index EXCEPT ![s] = "invalid"]
        /\ UNCHANGED <<versions, applied, holder, orphans, progress, calls, faults>>
    BY DEF BuildBegins
  <1> USE DEF progress
  <1>3. /\ pc'[p] = "building"
        /\ \A q \in Processes \ {p} : pc'[q] = pc[q] /\ built'[q] = built[q]
    BY DEF BuildBegins, Goto, IInv, TypeOK
  <1>4. TypeOK' BY <1>1, <1>2 DEF BuildBegins, Goto, IInv, TypeOK, IndexStates, Phases, Locked
  <1>5. /\ index'[s] = "invalid"
        /\ \A i \in Names \ {s} : index'[i] = index[i]
        /\ \A i \in Names : index[i] = "valid" => index'[i] = "valid"
    BY <1>1, <1>2 DEF IInv, TypeOK
  <1> HIDE DEF s
  <1>6. RecordedUsable'
    <2>1. \A u \in versions : \A w \in 1..u :
            w \in Versions /\ NamesOf(w) \subseteq Names
      BY IndexNames DEF IInv, TypeOK, RecordedUsable
    <2> QED BY <1>2, <1>5, <2>1 DEF IInv, RecordedUsable
  <1>7. Counted' BY <1>2 DEF IInv, Counted
  <1>8. Sound(p)'
    <2>1. /\ Remnants(p) = {} /\ pending[p] = Pending(p)
          /\ \A w \in Versions : IsNext(p, w) =>
                /\ built[p] <= Len(Indexes[w])
                /\ \A k \in 1..built[p] : index[Indexes[w][k]] = "valid"
      BY <1>2 DEF IInv, Sound
    <2>2. PendingNames(p)' = PendingNames(p) /\ Pending(p)' = Pending(p)
      BY <1>2 DEF PendingNames, Pending
    <2>3. PendingNames(p) \subseteq Names
      BY KnownRange, IndexNames DEF Pending, PendingNames
    <2>4. Remnants(p)' = {s}
      BY <1>1, <1>5, <2>1, <2>2, <2>3 DEF Remnants
    <2>5. s' = s BY <1>2 DEF s, Statement
    <2>6. IsNext(p, v)' /\ StatementsLeft(p, v)' BY <1>2 DEF IsNext, StatementsLeft
    <2>7. \E w \in Versions : /\ IsNext(p, w)' /\ StatementsLeft(p, w)'
                              /\ Remnants(p)' = {Statement(p, w)'}
      BY <1>1, <2>4, <2>5, <2>6 DEF s
    <2>8. ASSUME NEW w \in Versions, IsNext(p, w)'
          PROVE  /\ built'[p] <= Len(Indexes[w])
                 /\ \A k \in 1..built'[p] : index'[Indexes[w][k]] = "valid"
      <3>1. IsNext(p, w) BY <1>2, <2>8 DEF IsNext
      <3>2. \A k \in 1..built[p] : Indexes[w][k] \in Names
        <4>1. Len(Indexes[w]) \in Nat /\ built[p] <= Len(Indexes[w])
          BY <2>1, <3>1, IndexNames
        <4> QED BY <4>1, <1>1, IndexNames
      <3> QED BY <1>2, <1>5, <2>1, <3>1, <3>2
    <2>9. built'[p] # 0 => pending'[p] # {} BY <1>2
    <2> QED BY <1>2, <1>3, <2>1, <2>2, <2>7, <2>8, <2>9 DEF Sound
  <1> QED BY <1>2, <1>3, <1>4, <1>6, <1>7, <1>8, UnderLock DEF Locked

\* A least pending version is one version.
LEMMA NextIsOne ==
    ASSUME TypeOK, NEW p \in Processes, NEW v \in Versions, NEW w \in Versions,
           IsNext(p, v), IsNext(p, w)
    PROVE  v = w
  <1>1. v \in Nat /\ w \in Nat BY IndexesAssumption DEF Versions
  <1>2. v <= w /\ w <= v BY DEF IsNext
  <1> QED BY <1>1, <1>2

\* One more statement of the version under way is done, its index valid.
LEMMA StatementDone ==
    ASSUME IInv, NEW p \in Processes, NEW v \in pending[p],
           pc[p] \in {"applying", "building"}, IsNext(p, v), StatementsLeft(p, v),
           built' = [built EXCEPT ![p] = @ + 1],
           UNCHANGED <<versions, pending>>,
           \A i \in Names : index[i] = "valid" => index'[i] = "valid",
           index'[Statement(p, v)] = "valid",
           pc'[p] = "applying", Remnants(p)' = {}
    PROVE  Sound(p)'
  <1>1. /\ v \in Versions /\ built[p] \in Nat /\ built[p] + 1 \in 1..Len(Indexes[v])
    BY NextStatement
  <1>2. built'[p] = built[p] + 1 BY DEF IInv, TypeOK
  <1>3. pending'[p] = Pending(p)' BY DEF Pending, IInv, Sound
  <1>4. ASSUME NEW w \in Versions, IsNext(p, w)'
        PROVE  /\ built'[p] <= Len(Indexes[w])
               /\ \A k \in 1..built'[p] : index'[Indexes[w][k]] = "valid"
    <2>1. IsNext(p, w) BY <1>4 DEF IsNext
    <2>2. w = v BY <1>1, <2>1, NextIsOne DEF IInv
    <2>3. Len(Indexes[v]) \in Nat BY <1>1, IndexNames
    <2>4. built'[p] <= Len(Indexes[v]) BY <1>1, <1>2, <2>3
    <2>5. ASSUME NEW k \in 1..built'[p] PROVE index'[Indexes[v][k]] = "valid"
      <3>1. CASE k = built[p] + 1
        BY <3>1 DEF Statement
      <3>2. CASE k # built[p] + 1
        <4>1. k \in 1..built[p] /\ k \in 1..Len(Indexes[v])
          BY <1>1, <1>2, <2>3, <2>5, <3>2
        <4>2. Indexes[v][k] \in Names BY <1>1, <4>1, IndexNames
        <4>3. index[Indexes[v][k]] = "valid" BY <1>1, <4>1 DEF IInv, Sound
        <4> QED BY <4>2, <4>3
      <3> QED BY <3>1, <3>2
    <2> QED BY <2>2, <2>4, <2>5
  <1>5. pending'[p] # {} OBVIOUS
  <1> QED BY <1>3, <1>4, <1>5 DEF Sound

\* The end of a concurrent build preserves the invariant.
LEMMA BuildEndsStep ==
    ASSUME IInv, NEW p \in Processes, NEW v \in pending[p], BuildEnds(p, v)
    PROVE  IInv'
  <1> DEFINE s == Statement(p, v)
  <1>1. v \in Versions BY NextVersion DEF BuildEnds
  <1>2. StatementsLeft(p, v) /\ Remnants(p) = {s}
    <2>1. PICK w \in Versions : /\ IsNext(p, w) /\ StatementsLeft(p, w)
                                /\ Remnants(p) = {Statement(p, w)}
      BY DEF BuildEnds, IInv, Sound
    <2>2. w = v BY <1>1, <2>1, NextIsOne DEF BuildEnds, IInv
    <2> QED BY <2>1, <2>2
  <1>3. s \in Names /\ s \in PendingNames(p)
    BY <1>2, NextStatement DEF BuildEnds
  <1>4. /\ pc[p] = "building" /\ IsNext(p, v)
        /\ index' = [index EXCEPT ![s] = "valid"]
        /\ built' = [built EXCEPT ![p] = @ + 1]
        /\ UNCHANGED <<versions, applied, holder, orphans, attempt, found, pending, calls, faults>>
    BY DEF BuildEnds
  <1>5. /\ pc'[p] = "applying"
        /\ \A q \in Processes \ {p} : pc'[q] = pc[q] /\ built'[q] = built[q]
    BY DEF BuildEnds, Goto, IInv, TypeOK
  <1>6. TypeOK' BY <1>3, <1>4 DEF BuildEnds, Goto, IInv, TypeOK, IndexStates, Phases, Locked
  <1>7. /\ index'[s] = "valid"
        /\ \A i \in Names \ {s} : index'[i] = index[i]
        /\ \A i \in Names : index[i] = "valid" => index'[i] = "valid"
    BY <1>3, <1>4 DEF IInv, TypeOK
  <1>8. RecordedUsable'
    <2>1. \A u \in versions : \A w \in 1..u :
            w \in Versions /\ NamesOf(w) \subseteq Names
      BY IndexNames DEF IInv, TypeOK, RecordedUsable
    <2> QED BY <1>4, <1>7, <2>1 DEF IInv, RecordedUsable
  <1>9. Counted' BY <1>4 DEF IInv, Counted
  <1>10. Remnants(p)' = {}
    <2>1. PendingNames(p)' = PendingNames(p) BY <1>4 DEF PendingNames, Pending
    <2>2. PendingNames(p) \subseteq Names
      BY KnownRange, IndexNames DEF Pending, PendingNames
    <2> QED BY <1>2, <1>7, <2>1, <2>2 DEF Remnants
  <1>11. Sound(p)' BY <1>2, <1>4, <1>5, <1>7, <1>10, StatementDone
  <1> QED BY <1>4, <1>5, <1>6, <1>8, <1>9, <1>11, UnderLock DEF Locked

\* IF NOT EXISTS passing over an index preserves the invariant: after the sweep an
\* index that exists is valid.
LEMMA BuildSkippedStep ==
    ASSUME IInv, NEW p \in Processes, NEW v \in pending[p], BuildSkipped(p, v)
    PROVE  IInv'
  <1> USE DEF database
  <1> DEFINE s == Statement(p, v)
  <1>1. /\ pc[p] = "applying" /\ IsNext(p, v) /\ StatementsLeft(p, v)
        /\ index[s] # "absent"
        /\ built' = [built EXCEPT ![p] = @ + 1]
        /\ UNCHANGED <<versions, index, applied, holder, orphans, pc, attempt, found, pending,
                       calls, faults>>
    BY DEF BuildSkipped
  <1>2. s \in Names /\ s \in PendingNames(p) BY <1>1, NextStatement
  <1>3. Remnants(p) = {} BY <1>1 DEF IInv, Sound
  <1>4. index[s] = "valid"
    <2>1. index[s] # "invalid" BY <1>2, <1>3 DEF Remnants
    <2> QED BY <1>1, <1>2, <2>1 DEF IInv, TypeOK, IndexStates
  <1>5. TypeOK' BY <1>1 DEF IInv, TypeOK
  <1>6. \A q \in Processes \ {p} : pc'[q] = pc[q] /\ built'[q] = built[q]
    BY <1>1 DEF IInv, TypeOK
  <1>7. RecordedUsable' /\ Counted' BY <1>1 DEF IInv, RecordedUsable, Counted
  <1>8. Remnants(p)' = {} BY <1>1, <1>3 DEF Remnants, PendingNames, Pending
  <1>9. Sound(p)' BY <1>1, <1>4, <1>8, StatementDone
  <1> QED BY <1>1, <1>5, <1>6, <1>7, <1>9, UnderLock DEF Locked

-----------------------------------------------------------------------------
(* What goes wrong.                                                        *)

\* A process leaves the lock to somebody else, or to nobody.
LEMMA Leaves ==
    ASSUME IInv, TypeOK', NEW p \in Processes,
           NEW heir \in {Nobody, Orphan},
           holder' = IF holder = p THEN heir ELSE holder,
           pc'[p] \in {"failed", "dead"}, built'[p] = 0,
           \A q \in Processes \ {p} : pc'[q] = pc[q] /\ built'[q] = built[q],
           UNCHANGED <<database, found, pending>>,
           OrphansLocked'
    PROVE  IInv'
  <1> USE DEF database
  <1>1. LockHeld'
    <2>1. \A q \in Processes : pc[q] \in Locked <=> holder = q BY DEF IInv, LockHeld
    <2>2. pc'[p] \notin Locked BY DEF Locked
    <2> QED BY <2>1, <2>2, ProcessesAssumption DEF LockHeld
  <1>2. RecordedUsable' /\ Counted' BY DEF IInv, RecordedUsable, Counted
  <1>3. NilDone' BY DEF IInv, NilDone
  <1>4. ASSUME NEW q \in Processes PROVE Sound(q)'
    <2>1. CASE q = p
      BY <2>1, Idle DEF Locked
    <2>2. CASE q # p
      BY <2>2, Same DEF IInv
    <2> QED BY <2>1, <2>2
  <1> QED BY <1>1, <1>2, <1>3, <1>4 DEF IInv

\* A statement that fails preserves the invariant.
LEMMA StatementFailsStep ==
    ASSUME IInv, NEW p \in Processes, StatementFails(p)
    PROVE  IInv'
  <1> USE DEF database
  <1>1. TypeOK'
    BY BoundsAssumption DEF IInv, TypeOK, StatementFails, Fault, Goto, Phases, Ended
  <1>2. /\ pc'[p] = "failed" /\ built'[p] = 0
        /\ \A q \in Processes \ {p} : pc'[q] = pc[q] /\ built'[q] = built[q]
    BY DEF StatementFails, Goto, IInv, TypeOK
  <1>3. OrphansLocked'
    <2>1. orphans # {} => holder # p BY ProcessesAssumption DEF IInv, OrphansLocked
    <2> QED BY <2>1 DEF StatementFails, IInv, OrphansLocked
  <1> QED BY <1>1, <1>2, <1>3, Leaves DEF StatementFails

\* A process that is lost, its session left behind or not, preserves the invariant.
LEMMA LostStep ==
    ASSUME IInv, NEW p \in Processes, Lost(p)
    PROVE  IInv'
  <1> USE DEF database
  <1> DEFINE building == {w \in pending[p] : pc[p] = "building" /\ IsNext(p, w)}
  <1>1. /\ holder' = IF holder = p THEN Orphan ELSE holder
        /\ orphans' = orphans \union {Statement(p, v) : v \in building}
        /\ UNCHANGED <<database, attempt, found, pending, calls>>
    BY DEF Lost, SessionOrphaned
  <1>2. /\ pc'[p] = "dead" /\ built'[p] = 0
        /\ \A q \in Processes \ {p} : pc'[q] = pc[q] /\ built'[q] = built[q]
    BY DEF Lost, Goto, IInv, TypeOK
  <1>3. ASSUME NEW v \in building
        PROVE  /\ holder = p
               /\ Statement(p, v) \in Names /\ index[Statement(p, v)] = "invalid"
    <2>1. /\ pc[p] = "building" /\ v \in pending[p] /\ IsNext(p, v)
      BY <1>3
    <2>2. v \in Versions BY <2>1, NextVersion
    <2>3. PICK w \in Versions : /\ IsNext(p, w) /\ StatementsLeft(p, w)
                                /\ Remnants(p) = {Statement(p, w)}
      BY <2>1 DEF IInv, Sound
    <2>4. w = v BY <2>1, <2>2, <2>3, NextIsOne DEF IInv
    <2>5. Statement(p, v) \in Names BY <2>1, <2>3, <2>4, NextStatement
    <2>6. index[Statement(p, v)] = "invalid" BY <2>3, <2>4 DEF Remnants
    <2>7. holder = p BY <2>1 DEF IInv, LockHeld, Locked
    <2> QED BY <2>5, <2>6, <2>7
  <1> HIDE DEF building
  <1>4. orphans' \subseteq Names BY <1>1, <1>3 DEF IInv, TypeOK
  <1>5. TypeOK'
    BY <1>1, <1>4, BoundsAssumption DEF Lost, Fault, Goto, IInv, TypeOK, Phases, Ended
  <1>6. OrphansLocked'
    <2>1. orphans # {} => holder = Orphan /\ holder # p
      BY ProcessesAssumption DEF IInv, OrphansLocked
    <2>2. orphans' # {} => holder' = Orphan BY <1>1, <1>3, <2>1
    <2>3. \A i \in orphans' : index[i] = "invalid"
      BY <1>1, <1>3 DEF IInv, OrphansLocked
    <2> QED BY <1>1, <2>2, <2>3 DEF OrphansLocked
  <1> QED BY <1>1, <1>2, <1>5, <1>6, Leaves

\* A session left behind is nobody's: no process is under the lock.
LEMMA OrphanAlone ==
    ASSUME IInv, holder = Orphan
    PROVE  \A p \in Processes : pc[p] \notin Locked /\ built[p] = 0
  <1>1. \A p \in Processes : pc[p] \notin Locked
    BY ProcessesAssumption DEF IInv, LockHeld
  <1> QED BY <1>1 DEF IInv, Sound, Locked

\* A build that ends in a session left behind preserves the invariant.
LEMMA OrphanBuildEndsStep ==
    ASSUME IInv, NEW i \in orphans, NEW outcome \in {"invalid", "valid"},
           OrphanBuildEnds(i, outcome)
    PROVE  IInv'
  <1> USE DEF progress
  <1>1. i \in Names /\ index[i] = "invalid" /\ holder = Orphan
    BY DEF IInv, TypeOK, OrphansLocked
  <1>2. TypeOK' BY <1>1 DEF OrphanBuildEnds, IInv, TypeOK, IndexStates
  <1>3. /\ \A j \in Names \ {i} : index'[j] = index[j]
        /\ \A j \in Names : index[j] = "valid" => index'[j] = "valid"
    BY <1>1 DEF OrphanBuildEnds, IInv, TypeOK
  <1>4. LockHeld' BY DEF OrphanBuildEnds, IInv, LockHeld
  <1>5. OrphansLocked' BY <1>3 DEF OrphanBuildEnds, IInv, TypeOK, OrphansLocked
  <1>6. RecordedUsable'
    <2>1. \A u \in versions : \A w \in 1..u :
            w \in Versions /\ NamesOf(w) \subseteq Names
      BY IndexNames DEF IInv, TypeOK, RecordedUsable
    <2> QED BY <1>3, <2>1 DEF OrphanBuildEnds, IInv, RecordedUsable
  <1>7. Counted' /\ NilDone' BY DEF OrphanBuildEnds, IInv, Counted, NilDone
  <1>8. \A p \in Processes : Sound(p)'
    BY <1>1, <1>2, OrphanAlone, Idle DEF OrphanBuildEnds
  <1> QED BY <1>2, <1>4, <1>5, <1>6, <1>7, <1>8 DEF IInv

\* The end of a session left behind preserves the invariant.
LEMMA OrphanEndsStep ==
    ASSUME IInv, OrphanEnds
    PROVE  IInv'
  <1> USE DEF progress, database
  <1>1. TypeOK' BY DEF OrphanEnds, IInv, TypeOK
  <1>2. LockHeld'
    BY OrphanAlone, ProcessesAssumption DEF OrphanEnds, LockHeld
  <1>3. OrphansLocked' /\ RecordedUsable' /\ Counted' /\ NilDone'
    BY DEF OrphanEnds, IInv, OrphansLocked, RecordedUsable, Counted, NilDone
  <1>4. \A p \in Processes : Sound(p)'
    BY Same DEF OrphanEnds, IInv
  <1> QED BY <1>1, <1>2, <1>3, <1>4 DEF IInv

\* A step that changes no variable preserves the invariant.
LEMMA Stuttering ==
    ASSUME IInv, UNCHANGED vars
    PROVE  IInv'
  <1> USE DEF vars
  <1>1. TypeOK' BY DEF IInv, TypeOK
  <1>2. LockHeld' /\ OrphansLocked' /\ RecordedUsable' /\ Counted' /\ NilDone'
    BY DEF IInv, LockHeld, OrphansLocked, RecordedUsable, Counted, NilDone
  <1>3. \A p \in Processes : Sound(p)'
    BY Same DEF IInv
  <1> QED BY <1>1, <1>2, <1>3 DEF IInv

-----------------------------------------------------------------------------
(* The theorems.                                                           *)

\* The initial state satisfies the invariant.
LEMMA IInvInit == Init => IInv
  <1> SUFFICES ASSUME Init PROVE IInv OBVIOUS
  <1>1. TypeOK
    BY BoundsAssumption DEF Init, TypeOK, IndexStates, Phases
  <1>2. LockHeld BY ProcessesAssumption DEF Init, LockHeld, Locked
  <1>3. OrphansLocked /\ RecordedUsable /\ Counted /\ NilDone
    BY DEF Init, OrphansLocked, RecordedUsable, Counted, NilDone
  <1>4. ASSUME NEW p \in Processes PROVE Sound(p)
    <2>1. pc[p] = "idle" /\ built[p] = 0 BY DEF Init
    <2>2. \A v \in Versions : Len(Indexes[v]) \in Nat BY IndexNames
    <2>3. \A k : k \in 1..0 => FALSE OBVIOUS
    <2> QED BY <2>1, <2>2, <2>3 DEF Sound
  <1> QED BY <1>1, <1>2, <1>3, <1>4 DEF IInv

\* Every step preserves the invariant.
LEMMA IInvNext == IInv /\ [Next]_vars => IInv'
  <1> SUFFICES ASSUME IInv, [Next]_vars PROVE IInv' OBVIOUS
  <1>1. ASSUME NEW p \in Processes, Up(p) \/ StatementFails(p) \/ Lost(p)
        PROVE  IInv'
    BY <1>1, UpStep, StatementFailsStep, LostStep
  <1>2. ASSUME NEW p \in Processes, Proceed(p)
        PROVE  IInv'
    <2>1. CASE Judge(p) \/ Lock(p) \/ LockDenied(p)
      BY <2>1, JudgeStep, LockStep, LockDeniedStep
    <2>2. CASE FindInvalid(p) \/ (\E i \in found[p] : DropInvalid(p, i)) \/ Swept(p)
      BY <2>2, FindInvalidStep, DropInvalidStep, SweptStep
    <2>3. CASE List(p) \/ Unlock(p)
      BY <2>3, ListStep, UnlockStep
    <2>4. ASSUME NEW v \in pending[p],
                 \/ ApplyAtOnce(p, v) \/ BuildBegins(p, v) \/ BuildEnds(p, v)
                 \/ BuildSkipped(p, v) \/ RecordBuilt(p, v)
          PROVE  IInv'
      BY <2>4, ApplyAtOnceStep, BuildBeginsStep, BuildEndsStep, BuildSkippedStep,
         RecordBuiltStep
    <2> QED BY <1>2, <2>1, <2>2, <2>3, <2>4 DEF Proceed
  <1>3. CASE \E i \in orphans, outcome \in {"invalid", "valid"} : OrphanBuildEnds(i, outcome)
    BY <1>3, OrphanBuildEndsStep
  <1>4. CASE OrphanEnds
    BY <1>4, OrphanEndsStep
  <1>5. CASE Quiet \/ UNCHANGED vars
    BY <1>5, Stuttering DEF Quiet
  <1> QED BY <1>1, <1>2, <1>3, <1>4, <1>5 DEF Next

\* The strengthened invariant holds in every reachable state.
THEOREM Inductive == Spec => []IInv
  BY IInvInit, IInvNext, PTL DEF Spec

\* The invariant makes an Up that has returned nil a true one.
LEMMA IInvUsable == IInv => NilMeansUsable
  <1> SUFFICES ASSUME IInv, NEW v \in Versions,
                      v \in versions \/ (\E p \in Processes : pc[p] = "nil" /\ v <= Known[p]),
                      NEW w \in 1..v
               PROVE  w \in versions /\ \A i \in NamesOf(w) : index[i] = "valid"
    BY DEF NilMeansUsable
  <1>1. CASE v \in versions
    BY <1>1 DEF IInv, RecordedUsable
  <1>2. ASSUME NEW p \in Processes, pc[p] = "nil", v <= Known[p]
        PROVE  w \in versions /\ \A i \in NamesOf(w) : index[i] = "valid"
    <2>1. v \in Nat /\ Known[p] \in Nat
      BY KnownRange, IndexesAssumption DEF Versions
    <2>2. w \in 1..Known[p] /\ w \in 1..w BY <1>2, <2>1
    <2>3. w \in versions BY <1>2, <2>2 DEF IInv, NilDone
    <2> QED BY <2>2, <2>3 DEF IInv, RecordedUsable
  <1> QED BY <1>1, <1>2

\* Every variable has its type in every reachable state (goosemigrate.go:89-122).
THEOREM TypeCorrect == Spec => []TypeOK
  <1>1. IInv => TypeOK BY DEF IInv
  <1> QED BY <1>1, Inductive, PTL

\* When Up has returned nil, and whenever a version is recorded, that version and
\* all before it are recorded with every index valid, whoever died how often in
\* the middle of what (goosemigrate.go:70-74, recover.go:125-160).
THEOREM NilIsTrue == Spec => []NilMeansUsable
  BY IInvUsable, Inductive, PTL

\* No migration is applied twice (goosemigrate.go:67-70).
THEOREM OnceOnly == Spec => []AppliedOnce
  <1>1. IInv => AppliedOnce BY DEF IInv, Counted, AppliedOnce
  <1> QED BY <1>1, Inductive, PTL

\* No step of any process makes a valid index invalid or drops it.
LEMMA NoStepInvalidates ==
    IInv /\ [Next]_vars => \A i \in Names : index[i] = "valid" => index'[i] = "valid"
  <1> SUFFICES ASSUME IInv, [Next]_vars, index' # index, NEW i \in Names, index[i] = "valid"
               PROVE  index'[i] = "valid"
    OBVIOUS
  <1> USE DEF database, progress
  <1>1. index \in [Names -> IndexStates] BY DEF IInv, TypeOK
  <1>2. ASSUME NEW p \in Processes, Up(p) \/ StatementFails(p) \/ Lost(p)
        PROVE  FALSE
    BY <1>2 DEF Up, StatementFails, Lost
  <1>3. ASSUME NEW p \in Processes, Proceed(p)
        PROVE  index'[i] = "valid"
    <2>1. CASE Judge(p) \/ Lock(p) \/ LockDenied(p) \/ FindInvalid(p) \/ Swept(p) \/ List(p)
               \/ Unlock(p)
      BY <2>1 DEF Judge, Lock, LockDenied, FindInvalid, Swept, List, Unlock
    <2>2. ASSUME NEW j \in found[p], DropInvalid(p, j)
          PROVE  index'[i] = "valid"
      <3>1. found[p] = Remnants(p) BY <2>2 DEF DropInvalid, IInv, Sound
      <3>2. index[j] = "invalid" BY <3>1 DEF Remnants
      <3> QED BY <1>1, <2>2, <3>2 DEF DropInvalid
    <2>3. ASSUME NEW v \in pending[p],
                 \/ ApplyAtOnce(p, v) \/ BuildSkipped(p, v) \/ RecordBuilt(p, v)
          PROVE  FALSE
      BY <2>3 DEF ApplyAtOnce, BuildSkipped, RecordBuilt
    <2>4. ASSUME NEW v \in pending[p], BuildBegins(p, v) \/ BuildEnds(p, v)
          PROVE  index'[i] = "valid"
      BY <1>1, <2>4 DEF BuildBegins, BuildEnds
    <2> QED BY <1>3, <2>1, <2>2, <2>3, <2>4 DEF Proceed
  <1>4. ASSUME NEW j \in orphans, NEW outcome \in {"invalid", "valid"},
               OrphanBuildEnds(j, outcome)
        PROVE  index'[i] = "valid"
    <2>1. index[j] = "invalid" BY DEF IInv, OrphansLocked
    <2> QED BY <1>1, <1>4, <2>1 DEF OrphanBuildEnds
  <1>5. ~(OrphanEnds \/ Quiet \/ UNCHANGED vars) BY DEF OrphanEnds, Quiet, vars
  <1> QED BY <1>2, <1>3, <1>4, <1>5 DEF Next

\* An index that is valid stays so: neither the sweep nor a build nor a session
\* left behind touches it (recover.go:125-160).
THEOREM NeverDropped == Spec => ValidForEver
  BY NoStepInvalidates, Inductive, PTL DEF ValidForEver, Spec
=============================================================================
