------------------------------ MODULE Dispatcher ------------------------------
(***************************************************************************)
(* dispatcher.go, dispatchLoop and dispatchOnce: how one client shares its *)
(* slots among its queues, while the jobs it started earlier finish.       *)
(*                                                                         *)
(* A queue in Busy always has as many due jobs as are asked for; another   *)
(* one answers a Fetch with any number of rows, or with an error, which    *)
(* the pass treats like none.                                              *)
(***************************************************************************)
EXTENDS Integers, FiniteSets, FiniteSetsExt, SequencesExt

CONSTANTS Queues,       \* the names, as numbers in their order
          Weight, Concurrency,
          MaxWorkers,
          Busy

ASSUME QueuesAssumption == Queues \subseteq Nat /\ IsFiniteSet(Queues)
ASSUME ConfigAssumption == /\ Weight \in [Queues -> Nat \ {0}]
                           /\ Concurrency \in [Queues -> Nat \ {0}]
                           /\ MaxWorkers \in Nat \ {0}
ASSUME BusyAssumption   == Busy \subseteq Queues

VARIABLES strict,       \* Config.StrictQueuePriority
          order,        \* Client.queues, sorted by Start
          credit,       \* queueState.credit
          pass,         \* the demands the pass under way has yet to serve
          free,         \* dispatchOnce's globalFree
          weights,      \* dispatchOnce's totalWeight
          wake,         \* whether Client.wake holds a token
          working,      \* per queue, the jobs in runJob
          woken,        \* those past runJob's deferred wake
          released,     \* those that have also left globalRunning
          served,       \* history: the queue the latest rows came from
          exhausted     \* history: the queues this pass found out of work or
                        \* filled to their Concurrency

config   == <<strict, order>>
counters == <<working, woken, released>>
vars     == <<config, credit, pass, free, weights, wake, counters, served, exhausted>>

Total(f, S) == MapThenSumSet(LAMBDA q : f[q], S)

running       == [q \in Queues |-> working[q] + woken[q] + released[q]]
globalRunning == Total(working, Queues) + Total(woken, Queues)

\* Mutant: sorted the other way round.
LightFirst == {s \in SetToSeqs(Queues) :
                 \A j, k \in DOMAIN s : j < k => Weight[s[j]] <= Weight[s[k]]}

\* SortFunc need not keep the order of queues that weigh the same.
Orders == {s \in SetToSeqs(Queues) :
             \A j, k \in DOMAIN s : j < k => Weight[s[j]] >= Weight[s[k]]}

None == [q \in Queues |-> 0]

Init == /\ strict \in BOOLEAN
        /\ order \in Orders
        /\ credit = None
        /\ pass = << >> /\ free = 0 /\ weights = 0
        /\ wake = TRUE              \* the loop starts with a pass
        /\ working = None /\ woken = None /\ released = None
        /\ served \in Queues
        /\ exhausted = {}

-----------------------------------------------------------------------------
(* dispatchOnce.                                                           *)

Asleep == pass = << >>

\* The queues with room, and how much of it, when the pass begins.
Demanding == {q \in Queues : running[q] < Concurrency[q]}
Demand(q) == [queue |-> q, free |-> Concurrency[q] - running[q]]

\* The winner pays what all the demands gained.
Pay(credits, D, first) ==
    [credits EXCEPT ![first] = @ - Total(Weight, D)]

Gain(D) == [q \in Queues |-> IF q \in D THEN credit[q] + Weight[q] ELSE credit[q]]

\* The one arrangement of D with most credit first, then by name.
ByCredit(credits, D) ==
    {s \in SetToSeqs(D) :
        \A j, k \in DOMAIN s :
            j < k => \/ credits[s[j]] > credits[s[k]]
                     \/ credits[s[j]] = credits[s[k]] /\ s[j] < s[k]}

\* The one in the order of Start.
InOrder(D) ==
    {s \in SetToSeqs(D) :
        \A j, k \in DOMAIN s :
            j < k => \E m, n \in DOMAIN order : m < n /\ order[m] = s[j] /\ order[n] = s[k]}

BeginPass ==
    LET D      == Demanding
        gained == Gain(D)
    IN  /\ Asleep
        /\ wake' = FALSE
        /\ IF globalRunning < MaxWorkers /\ D # {}
           THEN /\ free' = MaxWorkers - globalRunning
                /\ weights' = Total(Weight, D)
                /\ \E ranked \in IF strict THEN InOrder(D) ELSE ByCredit(gained, D) :
                      /\ credit' = IF strict THEN credit ELSE Pay(gained, D, ranked[1])
                      /\ pass' = [k \in DOMAIN ranked |-> Demand(ranked[k])]
                /\ exhausted' = Queues \ D
           ELSE UNCHANGED <<free, weights, credit, pass, exhausted>>
        /\ UNCHANGED <<config, counters, served>>

\* A wake, or the poll timer, which may fire at any time.
Wake == wake /\ BeginPass
Poll == ~wake /\ BeginPass

\* Mutant: rounded down, as by Go's division.
QuotaDown(q) == IF strict THEN free ELSE (free * Weight[q]) \div weights

Quota(q) == IF strict THEN free
            ELSE (free * Weight[q] + weights - 1) \div weights

\* Mutant: the demand's own room is not looked at.
LimitGlobal(d) == Min({Quota(d.queue), free})

Limit(d) == Min({Quota(d.queue), d.free, free})

\* Mutant: the pass goes on with no slot left.
ServeOn ==
    LET d     == Head(pass)
        limit == Limit(d)
    IN  /\ ~Asleep
        /\ \E rows \in IF d.queue \in Busy THEN {limit} ELSE 0..limit :
              /\ working' = [working EXCEPT ![d.queue] = @ + rows]
              /\ free' = free - rows
              /\ served' = IF rows > 0 THEN d.queue ELSE served
        /\ pass' = Tail(pass)
        /\ UNCHANGED <<config, credit, weights, wake, woken, released, exhausted>>

\* Serve the first demand: a Fetch, and a runJob for each row.  A Fetch that fails
\* is logged and passed over (161-167), which is the same as one without rows.
Serve ==
    LET d     == Head(pass)
        limit == Limit(d)
    IN  /\ ~Asleep
        /\ \E rows \in IF d.queue \in Busy THEN {limit} ELSE 0..limit :
              /\ working' = [working EXCEPT ![d.queue] = @ + rows]
              /\ free' = free - rows
              /\ pass' = IF free - rows <= 0 THEN << >> ELSE Tail(pass)
              /\ served' = IF rows > 0 THEN d.queue ELSE served
              /\ exhausted' = IF rows < limit \/ rows = d.free
                              THEN exhausted \union {d.queue} ELSE exhausted
        /\ UNCHANGED <<config, credit, weights, wake, woken, released>>

-----------------------------------------------------------------------------
(* The end of a job: runJob's deferred wake, then the dispatcher's deferred *)
(* decrements, last in first out.                                          *)

JobEnds(q) ==
    /\ working[q] > 0
    /\ working' = [working EXCEPT ![q] = @ - 1]
    /\ woken' = [woken EXCEPT ![q] = @ + 1]
    /\ wake' = TRUE
    /\ UNCHANGED <<config, credit, pass, free, weights, released, served, exhausted>>

LeaveGlobal(q) ==
    /\ woken[q] > 0
    /\ woken' = [woken EXCEPT ![q] = @ - 1]
    /\ released' = [released EXCEPT ![q] = @ + 1]
    /\ UNCHANGED <<config, credit, pass, free, weights, wake, working, served, exhausted>>

LeaveQueue(q) ==
    /\ released[q] > 0
    /\ released' = [released EXCEPT ![q] = @ - 1]
    /\ UNCHANGED <<config, credit, pass, free, weights, wake, working, woken, served, exhausted>>

-----------------------------------------------------------------------------

JobNext(q) == JobEnds(q) \/ LeaveGlobal(q) \/ LeaveQueue(q)

Next == Wake \/ Poll \/ Serve \/ \E q \in Queues : JobNext(q)

Spec == Init /\ [][Next]_vars

\* The loop turns, the poll timer fires, Fetches return, and jobs end.
Fairness == /\ WF_vars(Wake \/ Poll)
            /\ WF_vars(Serve)
            /\ \A q \in Queues : /\ WF_vars(JobEnds(q))
                                 /\ WF_vars(LeaveGlobal(q))
                                 /\ WF_vars(LeaveQueue(q))

FairSpec == Spec /\ Fairness

-----------------------------------------------------------------------------
(* Properties.                                                             *)

Demands == [queue : Queues, free : Nat \ {0}]

\* As much as all the other queues may owe one, or one of them all the others.
MaxCredit == Total(Weight, Queues) * (Cardinality(Queues) - 1)

\* The types of the variables; a pass under way has slots to give, and the credits
\* never run away, whichever queues come and go.
TypeOK ==
    /\ strict \in BOOLEAN /\ order \in Orders
    /\ credit \in [Queues -> -MaxCredit..MaxCredit]
    /\ pass \in Seq(Demands)
    /\ free \in 0..MaxWorkers /\ weights \in Nat
    /\ pass # << >> => free > 0
    /\ wake \in BOOLEAN
    /\ \A f \in {working, woken, released} : f \in [Queues -> Nat]
    /\ served \in Queues /\ exhausted \subseteq Queues

\* However stale the snapshot a pass works from, no queue ever runs more jobs
\* than its Concurrency and no client more than MaxWorkers
\* (dispatcher.go:123-126, 134, 152-153, 161).
CapsHold ==
    /\ \A q \in Queues : running[q] <= Concurrency[q]
    /\ globalRunning <= MaxWorkers

\* Under strict priority rows come from a queue only once every heavier one is at
\* its Concurrency or was asked in the same pass and gave less than asked for,
\* being out of work or its Fetch having failed: a pass does not wait for a queue
\* it cannot read (dispatcher.go:151-167; queues.mdx:99).
HeavierFirst ==
    [][\A q \in Queues :
          strict /\ working'[q] > working[q]
             => \A p \in Queues : Weight[p] > Weight[q] => p \in exhausted]_vars

\* Weights never lock a queue out: one that always has due jobs is served again
\* and again, whatever the others do (client.go:22-26; queues.mdx:70).
NoStarvation == ~strict => \A q \in Busy : []<>(served = q)
=============================================================================
