---------------------------- MODULE SchedClasses ----------------------------
(***************************************************************************)
(* struct sched_class of kern/schedule/sched.h: sched.c calls the class it *)
(* is bound to through function pointers.  A queue is [class, q]; q is a   *)
(* queue of that class.                                                    *)
(***************************************************************************)
EXTENDS StrideSched, PrioSched, FifoSched, DefaultSched

Class == {"stride", "RR", "FIFO", "HPF", "SJF"}

\* .init
class_init(c, P) ==
    [class |-> c,
     q |-> CASE c = "stride" -> stride_init(P) [] c = "RR" -> RR_init(P)
             [] c = "FIFO" -> FIFO_init(P)
             [] c = "HPF" -> HPF_init(P)       [] c = "SJF" -> SJF_init(P)]

class_members(r) ==
    CASE r.class = "stride" -> stride_members(r.q)
      [] r.class = "RR" -> RR_members(r.q)
      [] r.class = "FIFO" -> FIFO_members(r.q)
      [] OTHER -> prio_members(r.q)

class_alloc(r, p) ==
    [r EXCEPT !.q = CASE r.class = "stride" -> stride_alloc(@, p)
                      [] r.class = "RR" -> RR_alloc(@, p)
                      [] r.class = "FIFO" -> FIFO_alloc(@, p)
                      [] OTHER -> prio_alloc(@, p)]

\* .enqueue
class_enqueue(r, p) ==
    [r EXCEPT !.q = CASE r.class = "stride" -> stride_enqueue(@, p)
                      [] r.class = "RR" -> RR_enqueue(@, p)
                      [] r.class = "FIFO" -> FIFO_enqueue(@, p)
                      [] r.class = "HPF" -> HPF_enqueue(@, p)
                      [] r.class = "SJF" -> SJF_enqueue(@, p)]

\* .dequeue
class_dequeue(r, p) ==
    [r EXCEPT !.q = CASE r.class = "stride" -> stride_dequeue(@, p)
                      [] r.class = "RR" -> RR_dequeue(@, p)
                      [] r.class = "FIFO" -> FIFO_dequeue(@, p)
                      [] r.class = "HPF" -> HPF_dequeue(@, p)
                      [] r.class = "SJF" -> SJF_dequeue(@, p)]

\* .pick_next; only stride changes anything.
class_pick_next(r) ==
    CASE r.class = "stride" -> stride_pick_next(r.q)
      [] r.class = "RR" -> RR_pick_next(r.q)
      [] r.class = "FIFO" -> FIFO_pick_next(r.q)
      [] r.class = "HPF" -> HPF_pick_next(r.q)
      [] r.class = "SJF" -> SJF_pick_next(r.q)
class_picked(r) ==
    [r EXCEPT !.q = IF r.class = "stride" THEN stride_picked(@) ELSE @]

\* .proc_tick, and whether it sets need_resched
class_proc_tick(r, p) ==
    [r EXCEPT !.q = CASE r.class = "stride" -> stride_proc_tick(@, p)
                      [] r.class = "RR" -> RR_proc_tick(@, p)
                      [] r.class = "FIFO" -> FIFO_proc_tick(@, p)
                      [] r.class = "HPF" -> HPF_proc_tick(@, p)
                      [] r.class = "SJF" -> SJF_proc_tick(@, p)]
class_tick_resched(r, p) ==
    CASE r.class = "stride" -> stride_tick_resched(r.q, p)
      [] r.class = "RR" -> RR_tick_resched(r.q, p)
      [] r.class = "FIFO" -> FIFO_tick_resched(r.q, p)
      [] r.class = "HPF" -> HPF_tick_resched(r.q, p)
      [] r.class = "SJF" -> SJF_tick_resched(r.q, p)

class_set_priority(r, p, v) ==
    [r EXCEPT !.q = CASE r.class = "stride" -> lab6_set_priority(@, p, v)
                      [] r.class \in {"RR", "FIFO"} -> @
                      [] OTHER -> prio_set_priority(@, p, v)]

-----------------------------------------------------------------------------
\* The order of the run pool, for the classes that have one.
class_comp(r) ==
    CASE r.class = "stride" -> proc_stride_comp_f(r.q)
      [] r.class = "HPF" -> proc_prio_comp_f(r.q)
      [] r.class = "SJF" -> proc_sjf_comp_f(r.q)
=============================================================================
