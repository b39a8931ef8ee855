----------------------------- MODULE MCProcessRR -----------------------------
\* Process under the round-robin class, for TLC.
EXTENDS ProcessInv, DefaultSched, TLC

\* TLC evaluates Queues once, but what replaces RunQueue at every use.
Queues == RR_queues(Schedulable)
RRQueues == Queues
RRInits == {RR_init(Schedulable)}

Pids == Permutations(Proc \ {idleproc, initproc})
=============================================================================
