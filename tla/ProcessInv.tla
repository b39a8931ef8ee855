----------------------------- MODULE ProcessInv -----------------------------
(***************************************************************************)
(* The inductive invariant behind the safety properties of Process.  TLC   *)
(* checks it on small instances, ProcessProofs proves it for every         *)
(* instance.                                                               *)
(***************************************************************************)
EXTENDS Process

InitPc == {"init_main", "init_check", "do_wait", "sched_wait", "wait_resumed",
           "sched_init", "do_exit"}
UserPc == {"user_main", "user", "trap_ret", "do_wait", "wait_resumed", "do_exit",
           "sched_trap", "sched_wait", "sched_exit", "exit_returned"}

\* Where a process that does not have the CPU can be.
ParkedPc == {"none", "idle", "init_main", "user_main", "user", "do_wait",
             "wait_resumed", "exit_returned"}

\* What the place where a process is says about its state.
PcState ==
    /\ pc[idleproc] \in {"idle", "sched_idle"} /\ state[idleproc] = "RUNNABLE"
    /\ pc[initproc] \in InitPc /\ state[initproc] \in {"RUNNABLE", "SLEEPING"}
    /\ \A p \in Proc \ {idleproc, initproc} :
          IF state[p] = "UNUSED" THEN pc[p] = "none" ELSE pc[p] \in UserPc
    /\ \A p \in Proc : p # current => pc[p] \in ParkedPc
    /\ \A p \in Proc :
          /\ state[p] = "ZOMBIE" <=> pc[p] \in {"sched_exit", "exit_returned"}
          /\ state[p] = "SLEEPING" => pc[p] \in {"sched_wait", "wait_resumed"}
          /\ state[p] = "SLEEPING" <=> wait_state[p] = "WT_CHILD"
    /\ pc[current] \notin {"none", "exit_returned"}
    /\ state[current] = "SLEEPING" <=> pc[current] = "sched_wait"

\* Who is whose parent.
Tree ==
    /\ parent[idleproc] = NULL /\ parent[initproc] = idleproc
    /\ \A p \in Proc \ {idleproc, initproc} :
          IF state[p] = "UNUSED" THEN parent[p] = NULL
          ELSE /\ parent[p] \in Schedulable
               /\ state[parent[p]] \in {"RUNNABLE", "SLEEPING"}

\* The parent relation has no cycle, said twice without a path: in every set
\* of processes one has its parent outside, and one has no child inside.
Rooted ==
    \A S \in SUBSET (Proc \ {idleproc, initproc}) :
        S # {} => \E p \in S : parent[p] \notin S
Leafed ==
    \A S \in SUBSET Schedulable :
        S # {} => \E p \in S : \A c \in S : parent[c] # p

\* initproc waits for any child, and leaves its loop only without children.
InitLast ==
    /\ wait_pid[initproc] = idleproc
    /\ pc[initproc] = "init_check" => Children(initproc) = {}

\* The address spaces: a process whose page table was freed without a
\* replacement is on its way out, and the hart uses the table of the current
\* process or the boot table.
Spaces ==
    /\ \A p \in Proc :
          /\ mm[p] => pgdir[p] = p /\ state[p] \in {"RUNNABLE", "SLEEPING"}
          /\ ~mm[p] => \/ pgdir[p] = idleproc
                       \/ pc[p] \in {"do_exit", "sched_exit", "exit_returned"}
          /\ pc[p] \in {"user", "trap_ret", "sched_trap"} => mm[p]
          /\ pc[p] \in {"do_wait", "sched_wait", "wait_resumed"} => mm[p] \/ p = initproc
    /\ satp = IF mm[current] THEN current ELSE idleproc

\* The inductive invariant of proc.c and sched.c: queue, tree, sleepers, page
\* tables and counters agree after every step.
IInv ==
    /\ TypeOK
    /\ RunQueueExact
    /\ PcState
    /\ Tree
    /\ Rooted
    /\ Leafed
    /\ InitLast
    /\ NoLostWakeup
    /\ Spaces
    /\ ProcCount
    /\ NoAssertionFails
    /\ NoStandstill
=============================================================================
