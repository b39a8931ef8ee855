------------------------------- MODULE Stride -------------------------------
(***************************************************************************)
(* What stride scheduling promises, and under which condition.  A process  *)
(* of the group `Active' of runnable processes is charged Pass(priority)   *)
(* each time it is picked, and one that was charged least is picked.       *)
(*                                                                         *)
(* Wrapping strides can express this only while they are close together:   *)
(* NearSpec is Spec on the condition that a process joins the group only   *)
(* with a stride Near all others.  The code does not ensure that, see      *)
(* MCStrideOrder; what is shown under NearSpec holds of the kernel as long *)
(* as no fork and no wakeup has broken the condition.                      *)
(***************************************************************************)
EXTENDS StrideArith

CONSTANTS P, NoProc, Priority

ASSUME StrideAssumption ==
    /\ NoProc \notin P
    /\ Priority \subseteq Nat

VARIABLES
    queue,      \* the processes in the run queue
    current,    \* the process that runs, or NoProc
    stride,     \* proc->lab6_stride
    priority    \* proc->lab6_priority

vars == <<queue, current, stride, priority>>

Active == queue \cup ({current} \ {NoProc})

Init ==
    /\ queue = {} /\ current = NoProc
    /\ stride = [p \in P |-> 0]
    /\ priority = [p \in P |-> 1]

\* p becomes runnable with stride s and priority v.
Join(p, s, v) ==
    /\ p \notin Active
    /\ queue' = queue \cup {p}
    /\ stride' = [stride EXCEPT ![p] = s]
    /\ priority' = [priority EXCEPT ![p] = v]
    /\ UNCHANGED current

\* alloc_proc() starts a process with stride 0 and priority 1.
Fork(p) == Join(p, 0, 1)
\* A process that wakes up has the stride it went to sleep with.
Wake(p) == Join(p, stride[p], priority[p])

\* Mutation: the stride of the picked process is not updated.
MutNotCharged(queued, p) ==
    /\ p \in queued
    /\ \A q \in queued : ~Before(stride[q], stride[p])
    /\ queue' = queued \ {p} /\ current' = p
    /\ UNCHANGED <<stride, priority>>

\* schedule() picks p, a process with a smallest stride among the queued ones.
Dispatch(queued, p) ==
    /\ p \in queued
    /\ \A q \in queued : ~Before(stride[q], stride[p])
    /\ stride' = [stride EXCEPT ![p] = Plus(@, Pass(priority[p]))]
    /\ queue' = queued \ {p} /\ current' = p
    /\ UNCHANGED priority

\* The current process stays runnable,
Preempt(p) == Dispatch(Active, p)
\* or it sleeps or exits.
Block(p) == current # NoProc /\ Dispatch(queue, p)
Idle ==
    /\ current # NoProc /\ queue = {}
    /\ current' = NoProc
    /\ UNCHANGED <<queue, stride, priority>>

\* lab6_set_priority()
SetPriority(v) ==
    /\ current # NoProc
    /\ priority' = [priority EXCEPT ![current] = IF v = 0 THEN 1 ELSE v]
    /\ UNCHANGED <<queue, current, stride>>

Next ==
    \/ \E p \in P : Fork(p) \/ Wake(p) \/ Preempt(p) \/ Block(p)
    \/ Idle
    \/ \E v \in Priority : SetPriority(v)

Spec == Init /\ [][Next]_vars

\* The condition: a process that becomes runnable is near all that are.
NearJoins == \A p \in Active' \ Active, q \in Active' : Near(stride'[p], stride'[q])
NearNext == Next /\ NearJoins
NearSpec == Init /\ [][NearNext]_vars

-----------------------------------------------------------------------------
\* Every variable has its type.
TypeOK ==
    /\ queue \in SUBSET P /\ current \in P \cup {NoProc}
    /\ current \notin queue
    /\ stride \in [P -> Strides]
    /\ priority \in [P -> Nat \ {0}]

\* The strides of the runnable processes stay within BIG_STRIDE of each other,
\* so that the signed difference of proc_stride_comp_f() orders them, before,
\* during and after the wraparound of some of them.  (Under NearSpec.)
Window == \A a, b \in Active : Near(stride[a], stride[b])
=============================================================================
