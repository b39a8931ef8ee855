----------------------------- MODULE FifoSched -----------------------------
(***************************************************************************)
(* The class of kern/schedule/default_sched_fifo.c.  It is not preemptive: *)
(* the clock does nothing.  A queue is run_list, from its head, and the    *)
(* time_slice of every process, which this class does not use.             *)
(***************************************************************************)
EXTENDS Integers, Sequences, Functions

FIFO_init(P) == [run_list |-> <<>>, time_slice |-> [p \in P |-> 0]]

FIFO_members(q) == Range(q.run_list)

FIFO_alloc(q, p) == [q EXCEPT !.time_slice[p] = 0]

\* At the tail.
FIFO_enqueue(q, p) == [q EXCEPT !.run_list = Append(@, p)]

FIFO_dequeue(q, p) == [q EXCEPT !.run_list = SelectSeq(@, LAMBDA x : x # p)]

FIFO_pick_next(q) == Head(q.run_list)

FIFO_proc_tick(q, p) == q
FIFO_tick_resched(q, p) == FALSE
=============================================================================
