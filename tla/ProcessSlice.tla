---------------------------- MODULE ProcessSlice ----------------------------
(***************************************************************************)
(* Preemption in Process: what sched.c and trap.c make of the time slices  *)
(* of the scheduling class.                                                *)
(***************************************************************************)
EXTENDS ProcessInv

\* proc->time_slice is used up, in a class that preempts; q is a run queue.
CONSTANT Expired(_, _)

\* The processes P have the slices in r that they have in q.
SameSlices(P, q, r) == \A x \in P : Expired(r, x) <=> Expired(q, x)

\* What sched.c relies on: enqueue() gives a slice to a process that has none,
\* proc_tick() asks for schedule() once the slice is used up, and nothing else
\* touches a slice, but that of a new process.
ASSUME SliceContract ==
    \A q \in RunQueue :
        /\ Members(q) # {} => SameSlices(Schedulable, q, Picked(q))
        /\ \A p \in Members(q) : SameSlices(Schedulable, q, Dequeue(q, p))
        /\ \A p \in Schedulable \ Members(q) :
              /\ ~Expired(Enqueue(q, p), p)
              /\ Expired(ProcTick(q, p), p) => TickResched(q, p)
              /\ SameSlices(Schedulable \ {p}, q, Enqueue(q, p))
              /\ SameSlices(Schedulable \ {p}, q, AllocProc(q, p))
              /\ SameSlices(Schedulable \ {p}, q, ProcTick(q, p))
              /\ \A v \in Priority : SameSlices(Schedulable, q, SetPriority(q, p, v))

-----------------------------------------------------------------------------
\* Every process of the queue has a slice.
Fresh(q) == \A p \in Members(q) : ~Expired(q, p)

\* Preemption is never lost: whenever proc_tick() of a preemptive class has
\* used up the slice of the current process, its need_resched is set until
\* schedule() runs, also in kernel threads, whose traps do not reschedule, and
\* whatever slice a process has left when it sleeps, it has one when queued.
SliceExpires ==
    /\ Fresh(rq)
    /\ current # idleproc /\ Expired(rq, current) => need_resched[current]
=============================================================================
