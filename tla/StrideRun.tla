----------------------------- MODULE StrideRun -----------------------------
(***************************************************************************)
(* The stride class driven by sched.c: what fork, wakeup, preemption, exit *)
(* and lab6_set_priority() do to the run pool.  On the condition of Stride *)
(* that a process becomes runnable only with a stride near those of the    *)
(* others, which the code does not ensure, the heap implements what Stride *)
(* promises.                                                               *)
(***************************************************************************)
EXTENDS StrideSched

CONSTANTS P, Priority

VARIABLES rq, current

vars == <<rq, current>>

members == stride_members(rq)
Runnable == members \cup ({current} \ {Nil})

Init == rq = stride_init(P) /\ current = Nil

\* wakeup_proc() of a process with the fields in q.
Join(q, p) ==
    /\ p \notin Runnable
    /\ rq' = stride_enqueue(q, p)
    /\ UNCHANGED current

Fork(p) == Join(stride_alloc(rq, p), p)
Wake(p) == Join(rq, p)

\* schedule() with the run pool q.
Pick(q) ==
    IF q.run_pool = Nil THEN rq' = q /\ current' = Nil
    ELSE /\ rq' = stride_dequeue(stride_picked(q), stride_pick_next(q))
         /\ current' = stride_pick_next(q)

Preempt == Runnable # {} /\ Pick(IF current = Nil THEN rq ELSE stride_enqueue(rq, current))
Block == current # Nil /\ Pick(rq)

SetPriority(v) ==
    /\ current # Nil
    /\ rq' = lab6_set_priority(rq, current, v)
    /\ UNCHANGED current

Next ==
    \/ \E p \in P : Fork(p) \/ Wake(p)
    \/ Preempt \/ Block
    \/ \E v \in Priority : SetPriority(v)

Spec == Init /\ [][Next]_vars

NearJoins ==
    \A p \in Runnable' \ Runnable, r \in Runnable' : Near(rq'.stride[p], rq'.stride[r])
NearNext == Next /\ NearJoins
NearSpec == Init /\ [][NearNext]_vars

-----------------------------------------------------------------------------
\* The run pool stays a tree, ordered under strides that wrap around, although
\* stride_pick_next() changes the stride of a linked node; so its root is a
\* process with the smallest stride.  (Under NearSpec.)
PoolCorrect == PoolLinked(rq) /\ PoolOrdered(rq) /\ PicksMin(rq)

\* The heap implements stride scheduling: while processes join near the others,
\* every step of the class is a step of Stride.
Promise == INSTANCE Stride WITH
    NoProc <- Nil, queue <- members, stride <- rq.stride, priority <- rq.priority
StrideCorrect == Promise!NearSpec
=============================================================================
