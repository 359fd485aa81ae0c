---------------------------- MODULE ClientConfig ----------------------------
(***************************************************************************)
(* NewClient of client.go: what a client makes of the parts of its Config   *)
(* that decide how it works.  Zero is unset.  Only the poll interval and    *)
(* the retentions are left out: the loops they pace run at any time.        *)
(***************************************************************************)
EXTENDS Integers, FiniteSetsExt

\* NewClient refuses a queue without Concurrency.
Usable(cfg) == \A q \in DOMAIN cfg.queues : cfg.queues[q].concurrency > 0

Or(value, default) == IF value = 0 THEN default ELSE value

\* Durations in seconds.
Filled(cfg) ==
    LET heartbeat == Or(cfg.heartbeatInterval, 30)
    IN  [queues |-> [q \in DOMAIN cfg.queues |->
                        [concurrency |-> cfg.queues[q].concurrency,
                         weight      |-> IF cfg.queues[q].weight <= 0 THEN 1
                                         ELSE cfg.queues[q].weight]],
         maxWorkers        |-> Or(cfg.maxWorkers,
                                  MapThenSumSet(LAMBDA q : cfg.queues[q].concurrency,
                                                DOMAIN cfg.queues)),
         heartbeatInterval |-> heartbeat,
         rescueTTL         |-> Or(cfg.rescueTTL, 3 * heartbeat)]
=============================================================================
