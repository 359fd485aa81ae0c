------------------------------ MODULE Migrations ------------------------------
(***************************************************************************)
(* backend/postgres/goosemigrate: Up, called by any number of processes on *)
(* one schema, some of an older release than others.                       *)
(*                                                                         *)
(* A migration is known by its version.  One that builds indexes does so   *)
(* statement by statement outside a transaction, and its version is        *)
(* recorded only after the last; any other is one transaction with the     *)
(* record of its version.                                                  *)
(*                                                                         *)
(* The lock, the statements of a migration and the record of its version   *)
(* go through one session of the server.  What the server and goose do is  *)
(* external: an advisory lock lives as long as its session; the session of *)
(* a process that died, or lost its connection, first ends the statement   *)
(* it is in; CREATE INDEX CONCURRENTLY leaves an invalid index behind      *)
(* until it succeeds, with IF NOT EXISTS it is content with any index of   *)
(* the name, and neither it nor DROP INDEX CONCURRENTLY runs while another *)
(* build on the table does; goose applies what is not recorded, in order.  *)
(***************************************************************************)
EXTENDS Naturals, Sequences, FiniteSets

CONSTANTS Processes,
          Known,        \* highestKnownVersion of each process's release
          Indexes,      \* the indexes each version builds, in order
          Names,        \* of indexes
          TimedOut,     \* processes whose handle has a statement_timeout
          MaxAttempts,  \* lockRetryMaxAttempts
          MaxCalls,     \* bound: calls of Up of one process
          MaxFaults     \* bound: statements that fail, connections and processes lost

Versions == DOMAIN Indexes

ASSUME KnownAssumption   == Known \in [Processes -> Versions]
ASSUME IndexesAssumption == Indexes \in Seq(Seq(Names))
ASSUME OwnNames ==      \* no two statements build an index of one name
    \A v, w \in Versions : \A j \in DOMAIN Indexes[v], k \in DOMAIN Indexes[w] :
        Indexes[v][j] = Indexes[w][k] => v = w /\ j = k
ASSUME BoundsAssumption  == MaxAttempts \in Nat /\ MaxCalls \in Nat /\ MaxFaults \in Nat

Nobody == "nobody"
Orphan == "orphan"      \* a session whose process is gone
ASSUME ProcessesAssumption == Nobody \notin Processes /\ Orphan \notin Processes

VARIABLES versions,     \* the version table
          index,        \* the state of each index
          holder,       \* whose session holds the advisory lock
          orphans,      \* the indexes that orphaned sessions are building
          pc,           \* how far each process's Up is
          attempt,      \* of acquireRecoveryLock
          found,        \* the invalid indexes sweepInvalidIndexes has yet to drop
          pending,      \* the versions goose has yet to apply
          built,        \* how many statements of the first of them are done
          applied,      \* history: how often each migration was applied
          calls, faults \* bounds

database == <<versions, index, applied>>
progress == <<attempt, found, pending, built>>
vars     == <<versions, index, holder, orphans, pc, attempt, found, pending, built,
              applied, calls, faults>>

IndexStates == {"absent", "invalid", "valid"}

\* What Up is doing under the lock, and how it ended.
Locked == {"reading", "dropping", "listing", "applying", "building"}
Ended  == {"nil", "refused", "failed", "dead"}
Phases == {"idle", "judging", "locking"} \union Locked \union Ended

Init == /\ versions = {}
        /\ index = [i \in Names |-> "absent"]
        /\ holder = Nobody /\ orphans = {}
        /\ pc = [p \in Processes |-> "idle"]
        /\ attempt = [p \in Processes |-> 0]
        /\ found = [p \in Processes |-> {}]
        /\ pending = [p \in Processes |-> {}]
        /\ built = [p \in Processes |-> 0]
        /\ applied = [v \in Versions |-> 0]
        /\ calls = [p \in Processes |-> 0]
        /\ faults = 0

Goto(p, phase) == pc' = [pc EXCEPT ![p] = phase]

-----------------------------------------------------------------------------
(* Up before the lock: two read-only looks at the version table.           *)

Newer(p)   == \E v \in versions : v > Known[p]

\* Mutant: any recorded migration counts as all of them.
SomeApplied(p) == versions # {}

\* By version number alone: max(version_id) is the highest known, or above.
FullyApplied(p) == \E v \in versions : v >= Known[p]

\* checkStatementTimeout and checkVersionSkew.
Up(p) ==
    /\ pc[p] \in {"idle"} \union Ended
    /\ calls[p] < MaxCalls
    /\ calls' = [calls EXCEPT ![p] = @ + 1]
    /\ Goto(p, IF p \in TimedOut \/ Newer(p) THEN "refused" ELSE "judging")
    /\ UNCHANGED <<database, holder, orphans, progress, faults>>

\* dbMaxAppliedVersion once more, and migrationsFullyApplied.
Judge(p) ==
    /\ pc[p] = "judging"
    /\ Goto(p, IF FullyApplied(p) THEN "nil" ELSE "locking")
    /\ attempt' = [attempt EXCEPT ![p] = 0]
    /\ UNCHANGED <<database, holder, orphans, found, pending, built, calls, faults>>

-----------------------------------------------------------------------------
(* SessionLock.                                                            *)

\* acquireRecoveryLock: pg_try_advisory_lock answers yes.
Lock(p) ==
    /\ pc[p] = "locking" /\ holder = Nobody
    /\ holder' = p
    /\ Goto(p, "reading")
    /\ UNCHANGED <<database, orphans, progress, calls, faults>>

\* Mutant: one attempt too many.
LockDeniedOnceMore(p) ==
    /\ pc[p] = "locking" /\ holder # Nobody
    /\ IF attempt[p] > MaxAttempts
       THEN Goto(p, "failed") /\ UNCHANGED attempt
       ELSE attempt' = [attempt EXCEPT ![p] = @ + 1] /\ Goto(p, "locking")
    /\ UNCHANGED <<database, holder, orphans, found, pending, built, calls, faults>>

\* Mutant: the attempts are not counted.
LockDeniedUncounted(p) ==
    /\ pc[p] = "locking" /\ holder # Nobody
    /\ Goto(p, "locking")
    /\ UNCHANGED <<database, holder, orphans, progress, calls, faults>>

\* It answers no, and after the last attempt Up gives up.
LockDenied(p) ==
    /\ pc[p] = "locking" /\ holder # Nobody
    /\ IF attempt[p] >= MaxAttempts
       THEN Goto(p, "failed") /\ UNCHANGED attempt
       ELSE attempt' = [attempt EXCEPT ![p] = @ + 1] /\ Goto(p, "locking")
    /\ UNCHANGED <<database, holder, orphans, found, pending, built, calls, faults>>

Pending(p) == (1..Known[p]) \ versions

NamesOf(v) == {Indexes[v][k] : k \in DOMAIN Indexes[v]}

\* pendingIndexNames.
PendingNames(p) == UNION {NamesOf(v) : v \in Pending(p)}

\* What an interrupted build of a migration not yet recorded left behind.
Remnants(p) == {i \in PendingNames(p) : index[i] = "invalid"}

\* sweepInvalidIndexes looks for them,
FindInvalid(p) ==
    /\ pc[p] = "reading"
    /\ found' = [found EXCEPT ![p] = Remnants(p)]
    /\ Goto(p, "dropping")
    /\ UNCHANGED <<database, holder, orphans, attempt, pending, built, calls, faults>>

TableFree == orphans = {}

\* drops them one by one,
DropInvalid(p, i) ==
    /\ pc[p] = "dropping" /\ i \in found[p] /\ TableFree
    /\ index' = [index EXCEPT ![i] = "absent"]
    /\ found' = [found EXCEPT ![p] = @ \ {i}]
    /\ UNCHANGED <<versions, applied, holder, orphans, pc, attempt, pending, built, calls, faults>>

\* and SessionLock returns.
Swept(p) ==
    /\ pc[p] = "dropping" /\ found[p] = {}
    /\ Goto(p, "listing")
    /\ UNCHANGED <<database, holder, orphans, progress, calls, faults>>

-----------------------------------------------------------------------------
(* provider.Up, under the lock.                                            *)

\* Mutant: what is pending was read before the lock was taken.
ListAll(p) ==
    /\ pc[p] = "listing"
    /\ pending' = [pending EXCEPT ![p] = 1..Known[p]]
    /\ Goto(p, "applying")
    /\ UNCHANGED <<database, holder, orphans, attempt, found, built, calls, faults>>

List(p) ==
    /\ pc[p] = "listing"
    /\ pending' = [pending EXCEPT ![p] = Pending(p)]
    /\ Goto(p, "applying")
    /\ UNCHANGED <<database, holder, orphans, attempt, found, built, calls, faults>>

IsNext(p, v) == v \in pending[p] /\ \A w \in pending[p] : v <= w

\* The version is recorded, and the migration is no longer pending.
Record(p, v) ==
    /\ versions' = versions \union {v}
    /\ applied' = [applied EXCEPT ![v] = @ + 1]
    /\ pending' = [pending EXCEPT ![p] = @ \ {v}]
    /\ Goto(p, "applying")

\* A migration without indexes: its statements and the record are one commit.
ApplyAtOnce(p, v) ==
    /\ pc[p] = "applying" /\ IsNext(p, v) /\ Indexes[v] = << >>
    /\ Record(p, v)
    /\ UNCHANGED <<index, holder, orphans, attempt, found, built, calls, faults>>

Statement(p, v) == Indexes[v][built[p] + 1]

StatementsLeft(p, v) == built[p] < Len(Indexes[v])

\* The next statement begins: its index is there, invalid until the build ends.
BuildBegins(p, v) ==
    /\ pc[p] = "applying" /\ IsNext(p, v) /\ StatementsLeft(p, v)
    /\ index[Statement(p, v)] = "absent" /\ TableFree
    /\ index' = [index EXCEPT ![Statement(p, v)] = "invalid"]
    /\ Goto(p, "building")
    /\ UNCHANGED <<versions, applied, holder, orphans, progress, calls, faults>>

BuildEnds(p, v) ==
    /\ pc[p] = "building" /\ IsNext(p, v)
    /\ index' = [index EXCEPT ![Statement(p, v)] = "valid"]
    /\ built' = [built EXCEPT ![p] = @ + 1]
    /\ Goto(p, "applying")
    /\ UNCHANGED <<versions, applied, holder, orphans, attempt, found, pending, calls, faults>>

\* IF NOT EXISTS: valid or not.
BuildSkipped(p, v) ==
    /\ pc[p] = "applying" /\ IsNext(p, v) /\ StatementsLeft(p, v)
    /\ index[Statement(p, v)] # "absent"
    /\ built' = [built EXCEPT ![p] = @ + 1]
    /\ UNCHANGED <<database, holder, orphans, pc, attempt, found, pending, calls, faults>>

\* After the last statement.
RecordBuilt(p, v) ==
    /\ pc[p] = "applying" /\ IsNext(p, v)
    /\ Indexes[v] # << >> /\ ~StatementsLeft(p, v)
    /\ Record(p, v)
    /\ built' = [built EXCEPT ![p] = 0]
    /\ UNCHANGED <<index, holder, orphans, attempt, found, calls, faults>>

\* SessionUnlock, when nothing is pending.
Unlock(p) ==
    /\ pc[p] = "applying" /\ pending[p] = {}
    /\ holder' = Nobody
    /\ Goto(p, "nil")
    /\ UNCHANGED <<database, orphans, progress, calls, faults>>

-----------------------------------------------------------------------------
(* What goes wrong.                                                        *)

Fault == faults < MaxFaults /\ faults' = faults + 1

\* A read, the wait for the lock or a statement fails or its context ends: Up
\* returns the error, unlocking first.  A build that failed leaves its index.
StatementFails(p) ==
    /\ pc[p] \in {"judging", "locking"} \union Locked /\ Fault
    /\ holder' = IF holder = p THEN Nobody ELSE holder
    /\ Goto(p, "failed")
    /\ built' = [built EXCEPT ![p] = 0]
    /\ UNCHANGED <<database, orphans, attempt, found, pending, calls>>

\* Mutant: the lock does not outlive the process that took it.
LockDies(p) ==
    /\ holder' = IF holder = p THEN Nobody ELSE holder
    /\ orphans' = orphans \union
                    {Statement(p, v) : v \in {w \in pending[p] : pc[p] = "building" /\ IsNext(p, w)}}

\* The session goes on without its process, with the lock and the build.
SessionOrphaned(p) ==
    /\ holder' = IF holder = p THEN Orphan ELSE holder
    /\ orphans' = orphans \union
                    {Statement(p, v) : v \in {w \in pending[p] : pc[p] = "building" /\ IsNext(p, w)}}

\* The process dies, or loses its connection and Up returns an error.  (A commit
\* then in flight is made before this step or not at all: only the two looks
\* before the lock could tell.)
Lost(p) ==
    /\ pc[p] \notin {"idle"} \union Ended /\ Fault
    /\ SessionOrphaned(p)
    /\ Goto(p, "dead")
    /\ built' = [built EXCEPT ![p] = 0]
    /\ UNCHANGED <<database, attempt, found, pending, calls>>

\* The build of an orphaned session ends, either way,
OrphanBuildEnds(i, outcome) ==
    /\ i \in orphans
    /\ index' = [index EXCEPT ![i] = outcome]
    /\ orphans' = orphans \ {i}
    /\ UNCHANGED <<versions, applied, holder, pc, progress, calls, faults>>

\* and then the session, and its lock.
OrphanEnds ==
    /\ holder = Orphan /\ orphans = {}
    /\ holder' = Nobody
    /\ UNCHANGED <<database, orphans, pc, progress, calls, faults>>

-----------------------------------------------------------------------------

\* What Up does unless something goes wrong, once it is called.
Proceed(p) ==
    \/ Judge(p)
    \/ Lock(p) \/ LockDenied(p)
    \/ FindInvalid(p) \/ (\E i \in found[p] : DropInvalid(p, i)) \/ Swept(p)
    \/ List(p)
    \/ \E v \in pending[p] : \/ ApplyAtOnce(p, v)
                             \/ BuildBegins(p, v)
                             \/ BuildEnds(p, v)
                             \/ BuildSkipped(p, v)
                             \/ RecordBuilt(p, v)
    \/ Unlock(p)

\* Nobody has a call left, and no session is left behind.
Quiet == /\ \A p \in Processes : pc[p] \in Ended /\ calls[p] = MaxCalls
         /\ holder = Nobody /\ orphans = {}
         /\ UNCHANGED vars

Next == \/ \E p \in Processes : Up(p) \/ Proceed(p) \/ StatementFails(p) \/ Lost(p)
        \/ \E i \in orphans, outcome \in {"invalid", "valid"} : OrphanBuildEnds(i, outcome)
        \/ OrphanEnds
        \/ Quiet

Spec == Init /\ [][Next]_vars

\* A process that lives goes on: its statements are answered or fail, and its
\* waits for the lock end.  No session has to notice that its process is gone.
FairSpec == Spec /\ \A p \in Processes : WF_vars(Proceed(p))

-----------------------------------------------------------------------------
(* Properties.                                                             *)

\* The types of the variables.
TypeOK ==
    /\ versions \subseteq Versions
    /\ index \in [Names -> IndexStates]
    /\ holder \in Processes \union {Nobody, Orphan}
    /\ orphans \subseteq Names
    /\ pc \in [Processes -> Phases]
    /\ attempt \in [Processes -> 0..MaxAttempts]
    /\ found \in [Processes -> SUBSET Names]
    /\ pending \in [Processes -> SUBSET Versions]
    /\ built \in [Processes -> Nat]
    /\ applied \in [Versions -> Nat]
    /\ calls \in [Processes -> 0..MaxCalls]
    /\ faults \in 0..MaxFaults

\* A version is recorded only with all its indexes valid, and after all earlier
\* ones.  So Up may judge by the number alone that it has nothing to do, and nil
\* means a schema the process can work on, although builds are interrupted and
\* IF NOT EXISTS is content with what they leave (goosemigrate.go:70-74, 103-113;
\* recover.go:125-160; integrity.go:115-121).
NilMeansUsable ==
    \A v \in Versions :
        v \in versions \/ (\E p \in Processes : pc[p] = "nil" /\ v <= Known[p])
            => \A w \in 1..v : /\ w \in versions
                               /\ \A i \in NamesOf(w) : index[i] = "valid"

\* "Each migration is applied at most once", by however many processes, releases
\* and repeated calls (goosemigrate.go:67-70).
AppliedOnce == \A v \in Versions : applied[v] <= 1

\* An index that works is never dropped or rebuilt, neither by the sweep, which
\* reads first and drops later, nor by a build that its dead process does not
\* watch any more (recover.go:125-160).
ValidForEver ==
    [][\A i \in Names : index[i] = "valid" => index'[i] = "valid"]_vars

\* A process that stays alive comes to the end of its call of Up, although others
\* hold the lock, one after the other or for ever (recover.go:162-184).
UpEnds == \A p \in Processes : pc[p] \notin {"idle"} \union Ended ~> pc[p] \in Ended
=============================================================================
