--------------------------- MODULE ClientLifecycle ---------------------------
(***************************************************************************)
(* dispatcher.go: Start, Stop and StopAndCancel, the goroutines they start *)
(* and the drain that ends them, composed with the completer they feed.    *)
(* The outcomes Ops of Completer stand for the jobs: an idle one can be    *)
(* claimed, a working one is in its worker.                                *)
(*                                                                         *)
(* c.mu is held over the short sections that read or write started and     *)
(* stopping, so each is one step.  The dispatch loop stands for the four   *)
(* loops of fetchWg, which differ in nothing a shutdown can tell.          *)
(***************************************************************************)
EXTENDS Completer

CONSTANTS Callers,      \* goroutines that call Stop or StopAndCancel, once
          MaxStarts     \* bound: calls of Start that succeed

ASSUME CallersAssumption == IsFiniteSet(Callers) /\ MaxStarts \in Nat

VARIABLES started, stopping,
          fetching,     \* the loops of fetchWg
          fetchAlive,   \* fetchCtx
          beating,      \* the heartbeat loop, of liveWg
          liveAlive,    \* liveCtx
          drain,        \* where the goroutine that Stop starts is
          callers,      \* where each call of Stop is
          drained,      \* the calls of Stop whose done is closed
          cancelled,    \* the jobs whose contexts cancelActive cancelled
          starts        \* bound

clientVars == <<started, stopping, fetching, fetchAlive, beating, liveAlive, drain,
                callers, drained, cancelled, starts>>
vars == <<completerVars, clientVars>>

LoopStates  == {"off", "running", "exited"}
DrainStates == {"off", "fetchers", "jobs", "beats", "completer"}
CallStates  == {"idle", "cancelling", "waiting", "grace", "nil", "error"}

Init == /\ CompleterInit
        /\ started = FALSE /\ stopping = FALSE
        /\ fetching = "off" /\ fetchAlive = FALSE
        /\ beating = "off" /\ liveAlive = FALSE
        /\ drain = "off"
        /\ callers = [s \in Callers |-> "idle"]
        /\ drained = {} /\ cancelled = {}
        /\ starts = 0

AtWork == {op \in Ops : pushes[op] \in {"working", "blocked"}}

-----------------------------------------------------------------------------

\* Mutant: Start does not ask whether the client is still draining.
StartWhileStopping == ~started

\* Otherwise Start returns an error and changes nothing.
MayStart == ~started /\ ~stopping

\* A new completer, with a channel and counters of its own.
Start ==
    /\ MayStart /\ starts < MaxStarts
    /\ starts' = starts + 1
    /\ started' = TRUE
    /\ fetchAlive' = TRUE /\ fetching' = "running"
    /\ liveAlive' = TRUE /\ beating' = "running"
    /\ ch' = << >> /\ buf' = << >> /\ calls' = << >>
    /\ closed' = FALSE /\ loop' = "receiving" /\ tries' = 0
    /\ lifetime' = TRUE /\ stopper' = "idle"
    /\ dropped' = 0 /\ lost' = {}
    /\ UNCHANGED <<pushVars, recorded, fails, stopping, drain, callers, drained, cancelled>>

\* The context given to Start is cancelled: no claims, but nothing else stops.
StartContextEnds ==
    /\ started /\ fetchAlive
    /\ fetchAlive' = FALSE
    /\ UNCHANGED <<completerVars, started, stopping, fetching, beating, liveAlive,
                   drain, callers, drained, cancelled, starts>>

\* A pass of the dispatcher may claim jobs although its context has ended.
Fetch(op) == fetching = "running" /\ Claimed(op) /\ UNCHANGED clientVars

FetcherExits ==
    /\ fetching = "running" /\ ~fetchAlive
    /\ fetching' = "exited"
    /\ UNCHANGED <<completerVars, started, stopping, fetchAlive, beating, liveAlive,
                   drain, callers, drained, cancelled, starts>>

\* Mutant: heartbeats run on the context of the fetchers.
HeartbeatExitsWithFetchers ==
    /\ beating = "running" /\ ~fetchAlive
    /\ beating' = "exited"
    /\ UNCHANGED <<completerVars, started, stopping, fetching, fetchAlive, liveAlive,
                   drain, callers, drained, cancelled, starts>>

HeartbeatExits ==
    /\ beating = "running" /\ ~liveAlive
    /\ beating' = "exited"
    /\ UNCHANGED <<completerVars, started, stopping, fetching, fetchAlive, liveAlive,
                   drain, callers, drained, cancelled, starts>>

-----------------------------------------------------------------------------
(* Stop and StopAndCancel.                                                 *)

\* Not started: the call returns nil at once, also while another one drains.
Stop(s) ==
    /\ callers[s] \in {"idle", "cancelling"}
    /\ IF started
       THEN /\ started' = FALSE /\ stopping' = TRUE
            /\ fetchAlive' = FALSE
            /\ drain' = "fetchers"
            /\ callers' = [callers EXCEPT ![s] = "waiting"]
       ELSE /\ callers' = [callers EXCEPT ![s] = "nil"]
            /\ UNCHANGED <<started, stopping, fetchAlive, drain>>
    /\ UNCHANGED <<completerVars, fetching, beating, liveAlive, drained, cancelled,
                   starts>>

\* What StopAndCancel does before it calls Stop.
CancelFirst(s) ==
    /\ callers[s] = "idle"
    /\ cancelled' = cancelled \union AtWork
    /\ callers' = [callers EXCEPT ![s] = "cancelling"]
    /\ UNCHANGED <<completerVars, started, stopping, fetching, fetchAlive, beating,
                   liveAlive, drain, drained, starts>>

\* The context of Stop ends before the drain does.
LosePatience(s) ==
    /\ callers[s] = "waiting"
    /\ cancelled' = cancelled \union AtWork
    /\ callers' = [callers EXCEPT ![s] = "grace"]
    /\ UNCHANGED <<completerVars, started, stopping, fetching, fetchAlive, beating,
                   liveAlive, drain, drained, starts>>

GraceEnds(s) ==
    /\ callers[s] = "grace"
    /\ callers' = [callers EXCEPT ![s] = "error"]
    /\ UNCHANGED <<completerVars, started, stopping, fetching, fetchAlive, beating,
                   liveAlive, drain, drained, cancelled, starts>>

StopReturnsNil(s) ==
    /\ callers[s] \in {"waiting", "grace"} /\ s \in drained
    /\ callers' = [callers EXCEPT ![s] = "nil"]
    /\ UNCHANGED <<completerVars, started, stopping, fetching, fetchAlive, beating,
                   liveAlive, drain, drained, cancelled, starts>>

-----------------------------------------------------------------------------
(* The drain, one step for each thing it waits for.                        *)

DrainVars == <<started, fetching, fetchAlive, callers, cancelled, starts>>

\* Mutant: jobs are awaited while the dispatcher may still claim some.
FetchersNotAwaited == drain = "fetchers"

FetchersDone == drain = "fetchers" /\ fetching = "exited"

AwaitFetchers ==
    /\ FetchersDone
    /\ drain' = "jobs"
    /\ UNCHANGED <<completerVars, DrainVars, drained, stopping, beating, liveAlive>>

\* Mutant: liveCancel is not called.
AwaitJobsOnly ==
    /\ drain = "jobs" /\ Quiet
    /\ drain' = "beats"
    /\ UNCHANGED <<completerVars, DrainVars, drained, stopping, beating, liveAlive>>

\* jobWg.Wait, and then liveCancel.
AwaitJobs ==
    /\ drain = "jobs" /\ Quiet
    /\ liveAlive' = FALSE
    /\ drain' = "beats"
    /\ UNCHANGED <<completerVars, DrainVars, drained, stopping, beating>>

\* liveWg.Wait, and then the completer's stop.
AwaitBeats ==
    /\ drain = "beats" /\ beating = "exited"
    /\ StopBegins
    /\ drain' = "completer"
    /\ UNCHANGED <<DrainVars, drained, stopping, beating, liveAlive>>

\* Start is allowed again, and done is closed.
AwaitCompleter ==
    /\ drain = "completer" /\ stopper = "stopped"
    /\ stopping' = FALSE
    /\ drain' = "off"
    /\ drained' = drained \union {s \in Callers : callers[s] \in {"waiting", "grace"}}
    /\ UNCHANGED <<completerVars, DrainVars, beating, liveAlive>>

DrainNext == AwaitFetchers \/ AwaitJobs \/ AwaitBeats \/ AwaitCompleter

-----------------------------------------------------------------------------

CallNext(s) == \/ Stop(s) \/ CancelFirst(s) \/ LosePatience(s)
               \/ GraceEnds(s) \/ StopReturnsNil(s)

CompleterStep == /\ \/ \E op \in Ops : PushNext(op)
                    \/ LoopNext
                    \/ StopAborts
                    \/ StopEnds
                 /\ UNCHANGED clientVars

\* Nobody is waiting for anything: the loops turn over nothing.
AtRest == /\ ~stopping /\ AtWork = {} /\ InFlight = {}
          /\ \A s \in Callers : callers[s] \in {"nil", "error"}
          /\ UNCHANGED vars

Next == \/ Start
        \/ StartContextEnds
        \/ \E op \in Ops : Fetch(op)
        \/ FetcherExits
        \/ HeartbeatExits
        \/ \E s \in Callers : CallNext(s)
        \/ DrainNext
        \/ CompleterStep
        \/ AtRest

Spec == Init /\ [][Next]_vars

\* What runs goes on running: workers return, the drain proceeds as what it
\* waits for happens, loops notice that their context has ended.
Fairness ==
    /\ \A op \in Ops : WF_vars(PushNext(op) /\ UNCHANGED clientVars)
    /\ WF_vars(LoopNext /\ UNCHANGED clientVars)
    /\ WF_vars(StopEnds /\ UNCHANGED clientVars)
    /\ WF_vars(FetcherExits)
    /\ WF_vars(HeartbeatExits)
    /\ WF_vars(DrainNext)

FairSpec == Spec /\ Fairness

-----------------------------------------------------------------------------
(* Invariants.                                                             *)

\* The types of the variables.
TypeOK ==
    /\ CompleterTypeOK
    /\ started \in BOOLEAN /\ stopping \in BOOLEAN
    /\ fetching \in LoopStates /\ beating \in LoopStates
    /\ fetchAlive \in BOOLEAN /\ liveAlive \in BOOLEAN
    /\ drain \in DrainStates
    /\ callers \in [Callers -> CallStates]
    /\ drained \subseteq Callers
    /\ cancelled \subseteq Ops
    /\ starts \in 0..MaxStarts

\* The channel is closed only when no runJob is left that could send on it,
\* which would panic, and none can start (dispatcher.go:294-300).
SendsAreSafe == closed => AtWork = {} /\ fetching = "exited"

\* As long as a job is in its worker or hands over its outcome, heartbeats are
\* sent, whichever context has ended and whoever has stopped waiting: it is not
\* rescued from under a client that shuts down (dispatcher.go:36-40, 294-297).
BeatsOutliveJobs == AtWork # {} => beating = "running" /\ liveAlive

\* A client is started again only when nothing of its earlier life is left: no
\* loop, no job, no outcome on its way, so that Start replaces no completer that
\* an earlier drain or runJob still uses (dispatcher.go:45-50, 301-303).
RestartsClean ==
    [][~started /\ started' /\ starts > 0 =>
          /\ fetching = "exited" /\ beating = "exited" /\ loop = "done"
          /\ AtWork = {} /\ InFlight = {}]_vars

-----------------------------------------------------------------------------
(* What must happen.                                                       *)

\* Once stopping, a client comes to be restartable, however long it takes the
\* workers, and whatever the backend answers (dispatcher.go:266-276).
DrainEnds == stopping ~> ~stopping

\* The outcome of every claimed job is recorded or dropped, and does not stay
\* in the completer, whether the client is stopped or runs on.
OutcomesSettle ==
    \A op \in Ops : pushes[op] = "working" ~> op \in recorded \union lost

-----------------------------------------------------------------------------
(* What the documentation says and the code does not keep.                 *)

\* The jobs whose workers have not returned.
InWorkers == {op \in Ops : pushes[op] = "working"}

\* "Stop returns nil once the drain is done, and immediately if the client was
\* never started" (dispatcher.go:264-265): no call that saw no drain to its end
\* returns nil while the client stops and a job of it is still in its worker.
NilMeansJobsEnded ==
    [][\A s \in Callers \ drained :
          callers[s] # "nil" /\ callers'[s] = "nil" => ~stopping \/ InWorkers = {}]_vars

\* "Heartbeats keep going for the whole drain" (dispatcher.go:262): until the
\* outcomes have reached the backend, which is what the drain waits for.
BeatsOutliveDrain == stopping /\ InFlight # {} => beating = "running"
=============================================================================
