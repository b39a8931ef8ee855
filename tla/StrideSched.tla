---------------------------- MODULE StrideSched ----------------------------
(***************************************************************************)
(* The stride class of kern/schedule/default_sched_stride.c, which the     *)
(* default build selects.  A queue is the skew heap of run pool nodes, its *)
(* root rq->lab6_run_pool, and the scheduling fields of every process,     *)
(* queued or not.                                                          *)
(***************************************************************************)
EXTENDS SkewHeap, StrideArith, TimeSlice

stride_init(procs) ==
    [heap |-> NoLinks(procs), run_pool |-> Nil,
     stride |-> [p \in procs |-> 0], priority |-> [p \in procs |-> 1],
     time_slice |-> [p \in procs |-> 0]]

\* alloc_proc(): the scheduling fields of a new process.
stride_alloc(q, p) ==
    [q EXCEPT !.heap = skew_heap_init(@, p), !.stride[p] = 0,
              !.priority[p] = 1, !.time_slice[p] = 0]

\* The pairs for which proc_stride_comp_f() returns -1.
proc_stride_comp_f(q) ==
    LET procs == DOMAIN q.stride
    IN  {pair \in procs \X procs : Before(q.stride[pair[1]], q.stride[pair[2]])}

stride_enqueue(q, p) ==
    LET r == skew_heap_insert(q.heap, proc_stride_comp_f(q), q.run_pool, p)
    IN  [q EXCEPT !.heap = r.heap, !.run_pool = r.root,
                  !.time_slice[p] = FillSlice(@)]

\* The links that skew_heap_remove() leaves in the node are not read again:
\* skew_heap_insert() sets them.  They are cleared here to have fewer states.
stride_dequeue(q, p) ==
    LET r == skew_heap_remove(q.heap, proc_stride_comp_f(q), q.run_pool, p)
    IN  [q EXCEPT !.heap = skew_heap_init(r.heap, p), !.run_pool = r.root]

stride_pick_next(q) == q.run_pool

\* pick_next() charges the process it returns, while it is still queued.
\* Mutation: a pass grows with the priority.
MutPickedCharge(q) ==
    [q EXCEPT !.stride[q.run_pool] = Plus(@, q.priority[q.run_pool])]
stride_picked(q) ==
    [q EXCEPT !.stride[q.run_pool] = Plus(@, Pass(q.priority[q.run_pool]))]

stride_proc_tick(q, p) == [q EXCEPT !.time_slice[p] = TickSlice(@)]

\* need_resched is set when the slice is used up.
stride_tick_resched(q, p) == stride_proc_tick(q, p).time_slice[p] = 0

lab6_set_priority(q, p, v) == [q EXCEPT !.priority[p] = IF v = 0 THEN 1 ELSE v]

stride_members(q) == Subtree(q.heap, q.run_pool)

-----------------------------------------------------------------------------
\* The links of the run pool form one tree.
PoolLinked(q) == IsTree(q.heap, q.run_pool, stride_members(q))

\* No process is before its parent in the run pool.
PoolOrdered(q) == IsOrdered(q.heap, proc_stride_comp_f(q), stride_members(q))

\* "pick the element from the run-queue, with the minimum value of stride"
\* (default_sched_stride.c, stride_pick_next): no queued process is before the
\* one at the top of the run pool.
PicksMin(q) ==
    \A p \in stride_members(q) :
        ~Before(q.stride[p], q.stride[stride_pick_next(q)])
=============================================================================
