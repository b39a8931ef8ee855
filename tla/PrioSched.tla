----------------------------- MODULE PrioSched -----------------------------
(***************************************************************************)
(* The classes of kern/schedule/default_sched_hpf.c (highest priority      *)
(* first) and default_sched_sjf.c (shortest job first, the priority being  *)
(* the length of the job).  They differ in the order of the run pool only. *)
(* A queue is the skew heap, its root rq->lab6_run_pool, and the priority  *)
(* and time_slice of every process.  Processes are pids.                   *)
(***************************************************************************)
EXTENDS SkewHeap, TimeSlice

\* The pairs for which the comparison returns -1.
proc_prio_comp_f(q) ==
    LET v(pair) == q.priority[pair[1]]
        w(pair) == q.priority[pair[2]]
    IN  {pair \in (DOMAIN q.priority) \X (DOMAIN q.priority) :
            v(pair) > w(pair) \/ (v(pair) = w(pair) /\ pair[1] < pair[2])}
proc_sjf_comp_f(q) ==
    LET v(pair) == q.priority[pair[1]]
        w(pair) == q.priority[pair[2]]
    IN  {pair \in (DOMAIN q.priority) \X (DOMAIN q.priority) :
            v(pair) < w(pair) \/ (v(pair) = w(pair) /\ pair[1] < pair[2])}

\* What the two classes have in common.
Pooled(q, p, comp) ==
    LET r == skew_heap_insert(q.heap, comp, q.run_pool, p)
    IN  [q EXCEPT !.heap = r.heap, !.run_pool = r.root,
                  !.time_slice[p] = FillSlice(@)]
\* (The links of a removed node are not read again: see StrideSched.)
Unpooled(q, p, comp) ==
    LET r == skew_heap_remove(q.heap, comp, q.run_pool, p)
    IN  [q EXCEPT !.heap = skew_heap_init(r.heap, p), !.run_pool = r.root]
Ticked(q, p) == [q EXCEPT !.time_slice[p] = TickSlice(@)]

\* alloc_proc() and lab6_set_priority() do not know the class.
prio_alloc(q, p) ==
    [q EXCEPT !.heap = skew_heap_init(@, p), !.priority[p] = 1, !.time_slice[p] = 0]
prio_set_priority(q, p, v) == [q EXCEPT !.priority[p] = IF v = 0 THEN 1 ELSE v]
prio_members(q) == Subtree(q.heap, q.run_pool)

-----------------------------------------------------------------------------
HPF_init(procs) ==
    [heap |-> NoLinks(procs), run_pool |-> Nil,
     priority |-> [p \in procs |-> 1], time_slice |-> [p \in procs |-> 0]]
\* Mutation: the order of the other class.
MutOtherOrder(q, p) == Pooled(q, p, proc_sjf_comp_f(q))
HPF_enqueue(q, p) == Pooled(q, p, proc_prio_comp_f(q))
HPF_dequeue(q, p) == Unpooled(q, p, proc_prio_comp_f(q))
HPF_pick_next(q) == q.run_pool
HPF_proc_tick(q, p) == Ticked(q, p)
HPF_tick_resched(q, p) == Ticked(q, p).time_slice[p] = 0

SJF_init(procs) ==
    [heap |-> NoLinks(procs), run_pool |-> Nil,
     priority |-> [p \in procs |-> 1], time_slice |-> [p \in procs |-> 0]]
SJF_enqueue(q, p) == Pooled(q, p, proc_sjf_comp_f(q))
SJF_dequeue(q, p) == Unpooled(q, p, proc_sjf_comp_f(q))
SJF_pick_next(q) == q.run_pool
SJF_proc_tick(q, p) == Ticked(q, p)
SJF_tick_resched(q, p) == Ticked(q, p).time_slice[p] = 0
=============================================================================
