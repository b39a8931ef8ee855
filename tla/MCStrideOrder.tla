--------------------------- MODULE MCStrideOrder ---------------------------
(***************************************************************************)
(* MCProcessClasses, under stride, with a history variable that tells      *)
(* which strides have wrapped around.  While none has, a stride is the total a process has    *)
(* been charged since its fork, and "minimum" can mean only one thing.     *)
(***************************************************************************)
EXTENDS MCProcessClasses

VARIABLE wrapped

OrderInit == Init /\ wrapped = [p \in Schedulable |-> FALSE]

OrderNext ==
    /\ Next
    /\ wrapped' = [p \in Schedulable |->
                      /\ state[p] # "UNUSED"
                      /\ wrapped[p] \/ rq'.q.stride[p] < rq.q.stride[p]]

OrderSpec == OrderInit /\ [][OrderNext]_<<vars, wrapped>>

\* "pick the element from the run-queue, with the minimum value of stride"
\* (default_sched_stride.c, stride_pick_next), of strides that have not
\* wrapped around.
PicksMinimum ==
    LET queued == class_members(rq)
    IN  queued # {} /\ (\A p \in queued : ~wrapped[p]) =>
            \A p \in queued : rq.q.stride[class_pick_next(rq)] <= rq.q.stride[p]
=============================================================================
