------------------------------ MODULE Process ------------------------------
(***************************************************************************)
(* The life cycle of ucore processes: kern/process/proc.c (fork, exec,     *)
(* exit, wait, kill, yield), the scheduling framework kern/schedule/       *)
(* sched.c, and the trap and system call paths that call them.             *)
(*                                                                         *)
(* The kernel runs on one hart.  Interrupts are masked in every trap and   *)
(* system call, and a timer interrupt taken in a kernel thread only        *)
(* touches the tick fields of `current', so the code between two calls of  *)
(* schedule() is atomic: a step here is such a piece of code, and `pc'     *)
(* says where each process continues when it is the current one.           *)
(*                                                                         *)
(* A process is named by its pid.  idleproc is pid 0, so the pid argument  *)
(* 0 of wait() is idleproc too; boot_pgdir is the page table of idleproc   *)
(* and every other page table is named after the process it is built for.  *)
(* get_pid() is any pid not in use (module GetPid).                        *)
(***************************************************************************)
EXTENDS Integers, FiniteSets

CONSTANTS
    Proc,           \* the pids 0 .. MAX_PID - 1
    idleproc,       \* pid 0
    initproc,       \* pid 1
    NULL,           \* the null pointer
    MaxProcess,     \* MAX_PROCESS of proc.h
    Priority        \* the arguments of lab6_set_priority

\* struct sched_class of sched.h.  A run queue value also holds the fields of
\* struct proc_struct that only the class reads (time_slice, stride, ...).
CONSTANTS
    RunQueue,            \* the values of the run queue
    Members(_),          \* the processes queued in it
    InitRqs,             \* the queues that init() may set up, one for each class
    AllocProc(_, _),     \* the scheduling fields as alloc_proc() sets them
    Enqueue(_, _),       \* enqueue()
    Dequeue(_, _),       \* dequeue()
    PickNext(_),         \* the process pick_next() returns
    Picked(_),           \* the queue as pick_next() leaves it
    ProcTick(_, _),      \* the queue after proc_tick()
    TickResched(_, _),   \* whether proc_tick() sets need_resched
    SetPriority(_, _, _) \* lab6_set_priority()

ASSUME ProcAssumption ==
    /\ IsFiniteSet(Proc)
    /\ idleproc \in Proc /\ initproc \in Proc /\ idleproc # initproc
    /\ NULL \notin Proc
    /\ MaxProcess \in Nat

Schedulable == Proc \ {idleproc}

\* What sched.c relies on: the queue holds what was enqueued and not yet
\* dequeued, pick_next() returns one of them, nothing else moves them.
ASSUME SchedClassContract ==
    /\ \A q \in InitRqs : q \in RunQueue /\ Members(q) = {}
    /\ \A q \in RunQueue :
        /\ Members(q) \subseteq Schedulable
        /\ Members(q) # {} =>
              /\ PickNext(q) \in Members(q)
              /\ Picked(q) \in RunQueue /\ Members(Picked(q)) = Members(q)
        /\ \A p \in Schedulable :
            /\ p \in Members(q) =>
                  /\ Dequeue(q, p) \in RunQueue
                  /\ Members(Dequeue(q, p)) = Members(q) \ {p}
            /\ p \notin Members(q) =>
                  /\ Enqueue(q, p) \in RunQueue
                  /\ Members(Enqueue(q, p)) = Members(q) \cup {p}
                  /\ AllocProc(q, p) \in RunQueue
                  /\ Members(AllocProc(q, p)) = Members(q)
                  /\ ProcTick(q, p) \in RunQueue
                  /\ Members(ProcTick(q, p)) = Members(q)
                  /\ TickResched(q, p) \in BOOLEAN
                  /\ \A v \in Priority :
                        /\ SetPriority(q, p, v) \in RunQueue
                        /\ Members(SetPriority(q, p, v)) = Members(q)

VARIABLES
    current,        \* the process that has the CPU
    state,          \* proc->state; "UNUSED" when no process has this pid
    pc,             \* where the process continues
    parent,         \* proc->parent
    mm,             \* proc->mm # NULL
    pgdir,          \* proc->pgdir
    satp,           \* the page table the hart translates with
    wait_state,     \* proc->wait_state
    wait_pid,       \* the pid argument of the do_wait() in progress
    flags,          \* proc->flags & PF_EXITING
    need_resched,   \* proc->need_resched
    nr_process,     \* the number of processes
    rq,             \* the run queue of sched.c
    panic           \* "none", or the panic() or assert() that stopped the kernel

memVars   == <<mm, pgdir, satp>>
waitVars  == <<wait_state, wait_pid>>
treeVars  == <<parent, nr_process>>
schedVars == <<current, need_resched, rq>>
vars == <<current, state, pc, parent, mm, pgdir, satp, wait_state, wait_pid,
          flags, need_resched, nr_process, rq, panic>>

State == {"UNUSED", "SLEEPING", "RUNNABLE", "ZOMBIE"}

\* Where a process that called schedule() continues when it is switched to.
\* Nothing follows "exit_returned": do_exit() panics if schedule() returns.
SchedPc == {"sched_idle", "sched_trap", "sched_wait", "sched_exit", "sched_init"}
Resume(l) == IF l = "sched_idle" THEN "idle"
             ELSE IF l = "sched_trap" THEN "user"
             ELSE IF l = "sched_wait" THEN "wait_resumed"
             ELSE IF l = "sched_exit" THEN "exit_returned"
             ELSE "do_wait"

Pc == SchedPc \cup {"none", "idle", "init_main", "init_check", "user_main",
                    "user", "trap_ret", "do_wait", "wait_resumed", "do_exit",
                    "exit_returned"}

\* Panics a workload can cause, and assertions that must never fail.
LoadPanic == {"initproc_exit", "create_user_main", "oom", "undefined_syscall",
              "misaligned_store", "exec_fault", "wait_fault"}
AssertPanic == {"wakeup_zombie", "fork_waiting", "wait_idle_or_init", "init_check"}

Children(p) == {c \in Proc : parent[c] = p}

At(label) == panic = "none" /\ pc[current] = label
Goto(label) == pc' = [pc EXCEPT ![current] = label]

-----------------------------------------------------------------------------
\* The state in which kern_init() calls cpu_idle(): proc_init() has made
\* idleproc the current process and forked initproc.
Init ==
    /\ current = idleproc
    /\ state = [p \in Proc |->
                  IF p \in {idleproc, initproc} THEN "RUNNABLE" ELSE "UNUSED"]
    /\ pc = [p \in Proc |-> IF p = idleproc THEN "idle"
                            ELSE IF p = initproc THEN "init_main" ELSE "none"]
    /\ parent = [p \in Proc |-> IF p = initproc THEN idleproc ELSE NULL]
    /\ mm = [p \in Proc |-> FALSE]
    /\ pgdir = [p \in Proc |-> idleproc]
    /\ satp = idleproc
    /\ wait_state = [p \in Proc |-> "0"]
    /\ wait_pid = [p \in Proc |-> idleproc]
    /\ flags = [p \in Proc |-> FALSE]
    /\ need_resched = [p \in Proc |-> p = idleproc]
    /\ nr_process = 2
    /\ \E q \in InitRqs : rq = Enqueue(AllocProc(q, initproc), initproc)
    /\ panic = "none"

-----------------------------------------------------------------------------
\* sched.c: idleproc is never queued.
sched_class_enqueue(q, p) == IF p # idleproc THEN Enqueue(q, p) ELSE q

\* sched.c: the run queue after wakeup_proc(p), called when `woken' holds.
wakeup_rq(q, p, woken) ==
    IF woken /\ state[p] # "RUNNABLE" /\ p # current
    THEN sched_class_enqueue(q, p) ELSE q

\* wakeup_proc() clears wait_state: the field after the processes W are woken.
\* Mutation: it does not.
MutWakeupKeeps(W) == wait_state
wakeup_wait(W) == [p \in Proc |-> IF p \in W THEN "0" ELSE wait_state[p]]

\* proc_run(): load the page table of another process and switch to it; the
\* current process is left where its schedule() will return.
proc_run(next) ==
    /\ current' = next
    /\ satp' = IF next # current THEN pgdir[next] ELSE satp
    /\ Goto(Resume(pc[current]))

\* schedule(): is the current process queued again?  Mutation: always.
MutRequeueAll == TRUE
Requeues == state[current] = "RUNNABLE"

\* schedule(): requeue a runnable current process, pick the next one (idleproc
\* if there is none), take it off the queue and switch to it.
Schedule ==
    /\ panic = "none" /\ pc[current] \in SchedPc
    /\ LET queued == IF Requeues THEN sched_class_enqueue(rq, current) ELSE rq
           next == IF Members(queued) = {} THEN idleproc ELSE PickNext(queued)
       IN  /\ rq' = IF Members(queued) = {} THEN queued
                    ELSE Dequeue(Picked(queued), next)
           /\ proc_run(next)
    /\ need_resched' = [need_resched EXCEPT ![current] = FALSE]
    /\ UNCHANGED <<state, parent, mm, pgdir, waitVars, flags, nr_process, panic>>

\* cpu_idle(): wait for need_resched.
CpuIdle ==
    /\ At("idle") /\ need_resched[current]
    /\ Goto("sched_idle")
    /\ UNCHANGED <<state, memVars, waitVars, treeVars, schedVars, flags, panic>>

\* sched_class_proc_tick(), called by the timer interrupt.  Mutation: a slice
\* that ends in a kernel thread does not ask for schedule().
MutTickUserOnly ==
    /\ rq' = IF current = idleproc THEN rq ELSE ProcTick(rq, current)
    /\ need_resched' = [need_resched EXCEPT
                          ![current] = IF current = idleproc THEN TRUE
                                       ELSE @ \/ (At("user") /\ TickResched(rq, current))]
    /\ UNCHANGED <<current, state, memVars, waitVars, treeVars, flags, panic>>
sched_class_proc_tick ==
    /\ IF current = idleproc
       THEN /\ rq' = rq
            /\ need_resched' = [need_resched EXCEPT ![current] = TRUE]
       ELSE /\ rq' = ProcTick(rq, current)
            /\ need_resched' = [need_resched EXCEPT
                                  ![current] = @ \/ TickResched(rq, current)]
    /\ UNCHANGED <<current, state, memVars, waitVars, treeVars, flags, panic>>

\* A timer interrupt in user mode.
Tick == At("user") /\ sched_class_proc_tick /\ Goto("trap_ret")

\* A timer interrupt in a kernel thread: trap() returns without rescheduling.
TickKernel ==
    /\ panic = "none"
    /\ current \in {idleproc, initproc} \/ pc[current] = "user_main"
    /\ pc[current] \notin SchedPc
    /\ sched_class_proc_tick
    /\ UNCHANGED pc

\* The end of trap() on the way back to user mode.
\* Mutation: PF_EXITING is not looked at.
MutTrapIgnoresFlags ==
    /\ At("trap_ret")
    /\ Goto(IF need_resched[current] THEN "sched_trap" ELSE "user")
    /\ UNCHANGED <<state, memVars, waitVars, treeVars, schedVars, flags, panic>>
TrapReturn ==
    /\ At("trap_ret")
    /\ Goto(IF flags[current] THEN "do_exit"
            ELSE IF need_resched[current] THEN "sched_trap" ELSE "user")
    /\ UNCHANGED <<state, memVars, waitVars, treeVars, schedVars, flags, panic>>

-----------------------------------------------------------------------------
\* do_fork() gives up at MAX_PROCESS.  Mutation: one process too many.
MutForkLimit == nr_process <= MaxProcess
ForkLimit == nr_process < MaxProcess

\* set_links() and remove_links(): the tree and the number of processes.
set_links(child) ==
    /\ parent' = [parent EXCEPT ![child] = current]
    /\ nr_process' = nr_process + 1
remove_links(child) ==
    /\ parent' = [parent EXCEPT ![child] = NULL]
    /\ nr_process' = nr_process - 1

\* copy_mm(): a child of a user process gets an address space of its own.
copy_mm(child) ==
    /\ mm' = [mm EXCEPT ![child] = mm[current]]
    /\ pgdir' = [pgdir EXCEPT ![child] = IF mm[current] THEN child ELSE idleproc]

\* The address space of the current process is dropped, in do_exit() and in
\* do_execve(): the hart goes back to boot_pgdir first.
drop_mm ==
    /\ mm' = [mm EXCEPT ![current] = FALSE]
    /\ satp' = IF mm[current] THEN idleproc ELSE satp

\* do_fork() that succeeds: the new process starts at `entry', as forkret()
\* and the copied trap frame say.
do_fork(child, entry, after) ==
    /\ ForkLimit
    /\ state[child] = "UNUSED"
    /\ state' = [state EXCEPT ![child] = "RUNNABLE"]
    /\ pc' = [pc EXCEPT ![child] = entry, ![current] = after]
    /\ set_links(child)
    /\ copy_mm(child)
    /\ rq' = wakeup_rq(AllocProc(rq, child), child, TRUE)
    /\ panic' = IF wait_state[current] = "0" THEN panic ELSE "fork_waiting"
    /\ UNCHANGED <<current, satp, waitVars, flags, need_resched>>

SysFork(child) == At("user") /\ do_fork(child, "user", "trap_ret")

\* init_main() creates the user_main thread, then calls do_wait(0, NULL).
InitMain(child) == At("init_main") /\ do_fork(child, "user_main", "do_wait")

\* A call that changes nothing here: getpid, putc, pgdir, gettime, a call that
\* fails (no memory, no process slot, bad pointer), or a fault, which
\* exception_handler() only prints.
SysReturn ==
    /\ At("user")
    /\ Goto("trap_ret")
    /\ UNCHANGED <<state, memVars, waitVars, treeVars, schedVars, flags, panic>>

SysYield ==
    /\ At("user")
    /\ need_resched' = [need_resched EXCEPT ![current] = TRUE]
    /\ Goto("trap_ret")
    /\ UNCHANGED <<current, state, memVars, waitVars, treeVars, flags, rq, panic>>

SysSetPriority(v) ==
    /\ At("user")
    /\ rq' = SetPriority(rq, current, v)
    /\ Goto("trap_ret")
    /\ UNCHANGED <<current, state, memVars, waitVars, treeVars, flags,
                   need_resched, panic>>

\* do_kill(): pid 0 is in no hash list, and a process that is already marked
\* is left alone.  A process sleeping in do_wait() is woken.
SysKill(p) ==
    /\ At("user")
    /\ p # idleproc /\ state[p] # "UNUSED" /\ ~flags[p]
    /\ LET woken == wait_state[p] = "WT_CHILD"
       IN  /\ flags' = [flags EXCEPT ![p] = TRUE]
           /\ state' = IF woken THEN [state EXCEPT ![p] = "RUNNABLE"] ELSE state
           /\ wait_state' = wakeup_wait(IF woken THEN {p} ELSE {})
           /\ rq' = wakeup_rq(rq, p, woken)
           /\ panic' = IF woken /\ state[p] = "ZOMBIE" THEN "wakeup_zombie" ELSE panic
    /\ Goto("trap_ret")
    /\ UNCHANGED <<current, memVars, wait_pid, treeVars, need_resched>>

\* do_execve() and load_icode(): the old address space is gone either way.
ExecOk(after) ==
    /\ mm' = [mm EXCEPT ![current] = TRUE]
    /\ pgdir' = [pgdir EXCEPT ![current] = current]
    /\ satp' = current
    /\ Goto(after)
    /\ UNCHANGED <<state, waitVars, treeVars, schedVars, flags, panic>>

\* Mutation: the page table is freed while the hart still uses it.
MutExecKeepsSatp ==
    /\ mm' = [mm EXCEPT ![current] = FALSE]
    /\ Goto("do_exit")
    /\ UNCHANGED <<state, pgdir, satp, waitVars, treeVars, schedVars, flags, panic>>

ExecFail ==
    /\ drop_mm
    /\ Goto("do_exit")
    /\ UNCHANGED <<state, pgdir, waitVars, treeVars, schedVars, flags, panic>>

SysExec  == At("user") /\ (ExecOk("trap_ret") \/ ExecFail)

\* user_main() runs kernel_execve(), which leaves through __trapret.
UserMain == At("user_main") /\ (ExecOk("user") \/ ExecFail)

-----------------------------------------------------------------------------
SysExit ==
    /\ At("user")
    /\ Goto("do_exit")
    /\ UNCHANGED <<state, memVars, waitVars, treeVars, schedVars, flags, panic>>

\* do_exit(): is the parent woken?  Mutation: the wakeup is lost.
MutNoWakeup == FALSE
WakesParent == wait_state[parent[current]] = "WT_CHILD"

\* Is initproc woken, because it inherits a zombie?  (The first such child
\* wakes it; it does not sleep any more if it is the parent just woken.)
WakesInit ==
    /\ wait_state[initproc] = "WT_CHILD"
    /\ ~(WakesParent /\ parent[current] = initproc)
    /\ \E c \in Children(current) : state[c] = "ZOMBIE"

\* The parents once initproc has adopted the children of the exiting process.
\* Mutation: the children keep a parent that will be freed.
MutOrphans == parent
Reparented == [p \in Proc |-> IF parent[p] = current THEN initproc ELSE parent[p]]

\* do_exit(): release the address space, become a zombie, wake the parent,
\* and hand every child to initproc, which is woken if one is a zombie.
DoExit ==
    /\ At("do_exit") /\ current # initproc
    /\ LET par == parent[current]
           woken == {p \in {par, initproc} : \/ WakesParent /\ p = par
                                             \/ WakesInit /\ p = initproc}
       IN  /\ state' = [p \in Proc |-> IF p = current THEN "ZOMBIE"
                                       ELSE IF p \in woken THEN "RUNNABLE"
                                       ELSE state[p]]
           /\ wait_state' = wakeup_wait(woken)
           /\ rq' = wakeup_rq(wakeup_rq(rq, par, WakesParent), initproc, WakesInit)
           /\ panic' = IF \E p \in woken : state[p] = "ZOMBIE"
                       THEN "wakeup_zombie" ELSE panic
    /\ parent' = Reparented
    /\ drop_mm
    /\ Goto("sched_exit")
    /\ UNCHANGED <<current, pgdir, wait_pid, flags, need_resched, nr_process>>

\* initproc must not exit; it does when it is killed, and at shutdown.
InitExit ==
    /\ At("do_exit") /\ current = initproc
    /\ panic' = "initproc_exit"
    /\ UNCHANGED <<state, pc, memVars, waitVars, treeVars, schedVars, flags>>

\* sys_wait(pid): pid 0, idleproc's, is any child.
SysWait(pid) ==
    /\ At("user")
    /\ wait_pid' = [wait_pid EXCEPT ![current] = pid]
    /\ Goto("do_wait")
    /\ UNCHANGED <<state, memVars, wait_state, treeVars, schedVars, flags, panic>>

\* The children the do_wait() of process p may reap.  Mutation: a process
\* found by its pid need not be a child.
MutAwaitsAny(p) == {c \in Proc : IF wait_pid[p] = idleproc THEN parent[c] = p
                                 ELSE wait_pid[p] = c}
Awaited(p) == {c \in Children(p) : wait_pid[p] \in {idleproc, c}}

\* What stops the kernel: an undefined system call, a misaligned store, no
\* memory in copy_range() or for the stack in load_icode(), an exec whose
\* image is in the address space that do_execve() just dropped, and a wait()
\* that is to store the exit code of the zombie it found where no page is
\* mapped: user_mem_check() looks at the area, and the stack, like the area of
\* an empty segment, has pages without memory.  A page fault of the kernel is
\* printed and taken again forever, with interrupts masked.
UserPanic ==
    /\ \/ At("user") /\ panic' \in {"oom", "undefined_syscall", "misaligned_store",
                                    "exec_fault"}
       \/ At("user_main") /\ panic' = "oom"
       \/ At("init_main") /\ panic' = "create_user_main"
       \/ /\ At("do_wait") /\ current # initproc
          /\ \E c \in Awaited(current) : state[c] = "ZOMBIE"
          /\ panic' \in {"wait_fault", "misaligned_store"}
    /\ UNCHANGED <<state, pc, memVars, waitVars, treeVars, schedVars, flags>>

\* do_wait(), found: free the zombie.  initproc's loop then calls schedule().
WaitReap(child) ==
    /\ At("do_wait")
    /\ child \in Awaited(current) /\ state[child] = "ZOMBIE"
    /\ state' = [state EXCEPT ![child] = "UNUSED"]
    /\ remove_links(child)
    /\ pgdir' = [pgdir EXCEPT ![child] = idleproc]
    /\ flags' = [flags EXCEPT ![child] = FALSE]
    /\ need_resched' = [need_resched EXCEPT ![child] = FALSE]
    /\ wait_pid' = [wait_pid EXCEPT ![child] = idleproc, ![current] = idleproc]
    /\ pc' = [pc EXCEPT ![child] = "none",
                        ![current] = IF current = initproc THEN "sched_init"
                                     ELSE "trap_ret"]
    /\ panic' = IF child \in {idleproc, initproc} THEN "wait_idle_or_init" ELSE panic
    /\ UNCHANGED <<current, mm, satp, wait_state, rq>>

\* do_wait() with a child but no zombie: sleep.  Mutation: the state stays
\* PROC_RUNNABLE.
MutSleepRunnable ==
    /\ At("do_wait")
    /\ Awaited(current) # {}
    /\ \A c \in Awaited(current) : state[c] # "ZOMBIE"
    /\ wait_state' = [wait_state EXCEPT ![current] = "WT_CHILD"]
    /\ Goto("sched_wait")
    /\ UNCHANGED <<state, memVars, wait_pid, treeVars, schedVars, flags, panic>>
WaitSleep ==
    /\ At("do_wait")
    /\ Awaited(current) # {}
    /\ \A c \in Awaited(current) : state[c] # "ZOMBIE"
    /\ state' = [state EXCEPT ![current] = "SLEEPING"]
    /\ wait_state' = [wait_state EXCEPT ![current] = "WT_CHILD"]
    /\ Goto("sched_wait")
    /\ UNCHANGED <<memVars, wait_pid, treeVars, schedVars, flags, panic>>

\* do_wait() without a child returns -E_BAD_PROC, which ends initproc's loop.
WaitNoChild ==
    /\ At("do_wait")
    /\ Awaited(current) = {}
    /\ wait_pid' = [wait_pid EXCEPT ![current] = idleproc]
    /\ Goto(IF current = initproc THEN "init_check" ELSE "trap_ret")
    /\ UNCHANGED <<state, memVars, wait_state, treeVars, schedVars, flags, panic>>

\* do_wait() after schedule(): a killed process exits, another looks again.
WaitResumed ==
    /\ At("wait_resumed")
    /\ Goto(IF flags[current] THEN "do_exit" ELSE "do_wait")
    /\ UNCHANGED <<state, memVars, waitVars, treeVars, schedVars, flags, panic>>

\* The assertions at the end of init_main(), which then returns to do_exit().
InitCheck ==
    /\ At("init_check")
    /\ panic' = IF /\ Children(initproc) = {} /\ nr_process = 2
                   /\ \A p \in Proc \ {idleproc, initproc} : state[p] = "UNUSED"
                THEN panic ELSE "init_check"
    /\ Goto("do_exit")
    /\ UNCHANGED <<state, memVars, waitVars, treeVars, schedVars, flags>>

\* panic() shuts the machine down.
Panicked == panic # "none" /\ UNCHANGED vars

-----------------------------------------------------------------------------
Syscall ==
    \/ \E child \in Proc : SysFork(child)
    \/ \E p \in Proc : SysKill(p) \/ SysWait(p)
    \/ \E v \in Priority : SysSetPriority(v)
    \/ SysReturn \/ SysYield \/ SysExec \/ SysExit

Wait == (\E c \in Proc : WaitReap(c)) \/ WaitSleep \/ WaitNoChild \/ WaitResumed

Kernel ==
    \/ CpuIdle \/ Schedule \/ TrapReturn
    \/ DoExit \/ InitExit \/ Wait
    \/ \E child \in Proc : InitMain(child)
    \/ UserMain \/ InitCheck

Next == Syscall \/ Kernel \/ Tick \/ TickKernel \/ UserPanic \/ Panicked

Spec == Init /\ [][Next]_vars

\* Kernel code runs on, and the timer keeps interrupting: an interrupt that
\* is pending when the kernel returns to user mode is taken there, so user
\* ticks are strongly fair.  No program has to do anything.
Fairness == WF_vars(Kernel) /\ WF_vars(TickKernel) /\ SF_vars(Tick)
FairSpec == Spec /\ Fairness

-----------------------------------------------------------------------------
Exists(p) == state[p] # "UNUSED"

\* Every variable of proc.c and sched.c keeps a value of its C type.
TypeOK ==
    /\ current \in Proc /\ satp \in Proc
    /\ state \in [Proc -> State]
    /\ pc \in [Proc -> Pc]
    /\ parent \in [Proc -> Proc \cup {NULL}]
    /\ mm \in [Proc -> BOOLEAN]
    /\ pgdir \in [Proc -> Proc]
    /\ wait_state \in [Proc -> {"0", "WT_CHILD"}]
    /\ wait_pid \in [Proc -> Proc]
    /\ flags \in [Proc -> BOOLEAN]
    /\ need_resched \in [Proc -> BOOLEAN]
    /\ nr_process \in Nat
    /\ rq \in RunQueue
    /\ panic \in {"none"} \cup LoadPanic \cup AssertPanic

\* The run queue holds exactly the runnable processes that do not have the
\* CPU, whatever mix of wakeups, kills and exits came before: no process is
\* queued twice, lost, or queued while it sleeps or is a zombie.
RunQueueExact ==
    Members(rq) = {p \in Schedulable : state[p] = "RUNNABLE" /\ p # current}

\* No lost wakeup: a process sleeps in do_wait() only while a child it waits
\* for exists and none of them is a zombie, across exits, kills and the
\* reparenting of zombies to a sleeping initproc.
NoLostWakeup ==
    \A p \in Proc : state[p] = "SLEEPING" =>
        /\ wait_state[p] = "WT_CHILD"
        /\ Awaited(p) # {}
        /\ \A c \in Awaited(p) : state[c] # "ZOMBIE"

\* Every process but idleproc has a parent that exists and has not exited, so
\* proc->parent never dangles and do_exit() never wakes a zombie.
ParentAlive ==
    \A p \in Schedulable : Exists(p) =>
        /\ parent[p] \in Proc
        /\ state[parent[p]] \in {"RUNNABLE", "SLEEPING"}

\* A zombie is never switched to again, so do_exit() never returns, and a
\* sleeping process has the CPU only until its schedule().
OnlyRunnableRuns ==
    state[current] = IF pc[current] = "sched_exit" THEN "ZOMBIE"
                     ELSE IF pc[current] = "sched_wait" THEN "SLEEPING"
                     ELSE "RUNNABLE"

\* The hart never translates with a page table that was freed, through exec,
\* exit and context switches, and user code runs on its own page table.
SatpLive ==
    /\ satp = idleproc \/ mm[satp]
    /\ pc[current] = "user" => satp = current

\* None of the assertions in wakeup_proc(), do_fork(), do_wait() and
\* init_main() can fail.
NoAssertionFails == panic \notin AssertPanic

\* nr_process counts the processes that exist, and stays within MAX_PROCESS
\* once the two kernel threads fit.
ProcCount ==
    /\ nr_process = Cardinality({p \in Proc : Exists(p)})
    /\ 2 <= MaxProcess => nr_process <= MaxProcess

\* Waiting never comes to a standstill: after the first switch to initproc the
\* idle loop is not entered again, so some process always is runnable.
NoStandstill == current = idleproc => pc[initproc] = "init_main"

\* No memory of a process outlives it: the address space is gone when the
\* parent reaps the zombie, and a live page table belongs to a process.
NoAddressSpaceLeak ==
    \A p \in Proc : mm[p] => state[p] \in {"RUNNABLE", "SLEEPING"} /\ pgdir[p] = p

\* A pid is freed only by the parent of the zombie, and a process becomes a
\* zombie only while it has the CPU: do_kill() never removes a process.
ExitStep ==
    \A p \in Proc :
        /\ state'[p] = "UNUSED" /\ Exists(p) =>
              state[p] = "ZOMBIE" /\ parent[p] = current
        /\ state'[p] = "ZOMBIE" /\ state[p] # "ZOMBIE" => p = current

\* Every step of the kernel follows the exit protocol of ExitStep: exit by the
\* process itself, release by its parent.
ExitProtocol == [][ExitStep]_vars

-----------------------------------------------------------------------------
\* A runnable process gets the CPU (or the kernel stops).
NoStarvation ==
    \A p \in Schedulable :
        state[p] = "RUNNABLE" ~> current = p \/ panic # "none"

\* wait() returns once an awaited child has exited: the parent reaps a child,
\* or is killed itself.  (The kernel may stop before, see UserPanic.)
WaitReturns ==
    \A p \in Schedulable :
        (/\ pc[p] \in {"do_wait", "sched_wait", "wait_resumed"}
         /\ \E c \in Awaited(p) : state[c] = "ZOMBIE")
        ~> \/ pc[p] \in {"trap_ret", "sched_init", "do_exit"}
           \/ panic # "none"

\* A killed process that is in the kernel, to exit or to wait before it does.
\* (initproc, in its wait loop, is not covered: it may find zombies forever.)
Stopping(p) ==
    flags[p] /\ pc[p] \in {"trap_ret", "do_wait", "sched_wait", "wait_resumed",
                           "do_exit", "sched_exit", "exit_returned"}

\* It never gets back to user mode, whatever it sleeps for and whoever wakes
\* it, until its parent has freed it.
StopStep == \A p \in Schedulable \ {initproc} :
                Stopping(p) => Stopping(p)' \/ ~flags'[p]
KilledForGood == [][StopStep]_vars

\* A process that is killed, wherever it is, gets there: it computes until its
\* next trap, and never again.
KilledStops ==
    /\ KilledForGood
    /\ \A p \in Schedulable \ {initproc} :
          flags[p] ~> Stopping(p) \/ ~flags[p] \/ panic # "none"

=============================================================================
