---------------------------- MODULE DefaultSched ----------------------------
(***************************************************************************)
(* The round-robin class of kern/schedule/default_sched.c.  A queue is     *)
(* run_list, from its head, and the time_slice of every process, queued or *)
(* not.  proc_num is Len(run_list).                                        *)
(***************************************************************************)
EXTENDS Sequences, FiniteSets, Functions, TimeSlice

\* The queues over the set P of processes.  run_list links a process once: it
\* is a prefix of an ordering of P.
RR_queues(P) ==
    LET n == Cardinality(P)
    IN  [run_list : {SubSeq(s, 1, k) : s \in Bijection(1..n, P), k \in 0..n},
         time_slice : [P -> 0..MaxTimeSlice]]

RR_members(q) == Range(q.run_list)

RR_init(P) == [run_list |-> <<>>, time_slice |-> [p \in P |-> 0]]

\* alloc_proc(): a new process has used up its slice.
RR_alloc(q, p) == [q EXCEPT !.time_slice[p] = 0]

\* Mutation: the process is queued at the head.
MutEnqueueHead(q, p) ==
    [q EXCEPT !.run_list = <<p>> \o @,
              !.time_slice[p] = FillSlice(@)]

\* At the tail.
RR_enqueue(q, p) ==
    [q EXCEPT !.run_list = Append(@, p),
              !.time_slice[p] = FillSlice(@)]

RR_dequeue(q, p) == [q EXCEPT !.run_list = SelectSeq(@, LAMBDA x : x # p)]

RR_pick_next(q) == Head(q.run_list)

\* pick_next() changes nothing.
RR_picked(q) == q

RR_proc_tick(q, p) == [q EXCEPT !.time_slice[p] = TickSlice(@)]

\* need_resched is set when the slice is used up.
RR_tick_resched(q, p) == RR_proc_tick(q, p).time_slice[p] = 0

\* Round robin ignores lab6_priority.
RR_set_priority(q, p, v) == q
=============================================================================
