---------------------------- MODULE MCDispatcher ----------------------------
(***************************************************************************)
(* Instances of Dispatcher for TLC.                                        *)
(***************************************************************************)
EXTENDS Dispatcher, ClientConfig

\* A heavy queue, two light ones; the second of three comes and goes.
MCConfig ==
    [queues |-> [q \in 1..3 |-> [concurrency |-> IF q = 3 THEN 1 ELSE 2,
                                 weight      |-> IF q = 1 THEN 3 ELSE 0]],
     maxWorkers |-> 2, heartbeatInterval |-> 0, rescueTTL |-> 0]

ASSUME MCConfigIsUsable == Usable(MCConfig)

MCQueues      == 1..3
MCWeight      == [q \in MCQueues |-> IF q = 1 THEN 3 ELSE 1]
MCConcurrency == [q \in MCQueues |-> IF q = 3 THEN 1 ELSE 2]

\* What the client makes of that configuration.
ASSUME MCConfigFilled ==
    LET filled == Filled(MCConfig)
    IN  /\ filled.queues = [q \in MCQueues |-> [concurrency |-> MCConcurrency[q],
                                               weight      |-> MCWeight[q]]]
        /\ filled.maxWorkers = MaxWorkers

\* Left alone, a client takes as many slots as its queues have and rescues after
\* three heartbeats of half a minute.
ASSUME DefaultsAsDocumented ==
    LET filled == Filled([MCConfig EXCEPT !.maxWorkers = 0])
    IN  filled.maxWorkers = 5 /\ filled.heartbeatInterval = 30 /\ filled.rescueTTL = 90
=============================================================================
