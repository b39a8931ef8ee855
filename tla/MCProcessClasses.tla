-------------------------- MODULE MCProcessClasses --------------------------
\* Process under each of the scheduling classes, for TLC.
EXTENDS ProcessSlice, SchedClasses, TLC

CONSTANT Classes        \* the classes tried

ClassInits == {class_init(c, Schedulable) : c \in Classes}

\* Bound: under stride, priorities stay 1 (StrideRun has others).
bounded_set_priority(r, p, v) ==
    IF r.class = "stride" THEN r ELSE class_set_priority(r, p, v)

\* FIFO does not preempt.
class_expired(r, p) == r.class # "FIFO" /\ r.q.time_slice[p] = 0

\* The queues the operations of a class can make of r, used as sched.c does.
Results(r) ==
    LET queued == class_members(r)
    IN  (IF queued = {} THEN {} ELSE {class_picked(r)})
        \cup {class_dequeue(r, p) : p \in queued}
        \cup UNION {{class_enqueue(r, p), class_alloc(r, p), class_proc_tick(r, p)}
                    \cup {bounded_set_priority(r, p, v) : v \in Priority} :
                      p \in Schedulable \ queued}

RECURSIVE Reachable(_, _)
Reachable(seen, fresh) ==
    IF fresh = {} THEN seen
    ELSE LET next == UNION {Results(r) : r \in fresh}
         IN  Reachable(seen \cup fresh, next \ (seen \cup fresh))

\* TLC evaluates Queues once, but what replaces RunQueue at every use.
Queues == Reachable({}, ClassInits)
ClassQueues == Queues

\* Strict priority: under HPF and SJF the run pool stays a tree in which no
\* process is before its parent, although lab6_set_priority() changes the key
\* of a process (it must not be linked then), so that pick_next() returns the
\* first process by priority and pid.
PicksFirst ==
    rq.class \in {"HPF", "SJF"} =>
        /\ IsTree(rq.q.heap, rq.q.run_pool, class_members(rq))
        /\ IsOrdered(rq.q.heap, class_comp(rq), class_members(rq))
        /\ \A p \in class_members(rq) :
              p # class_pick_next(rq) => <<class_pick_next(rq), p>> \in class_comp(rq)
=============================================================================
