--------------------------- MODULE ProcessProofs ---------------------------
(***************************************************************************)
(* The safety properties of Process, for every number of processes, every  *)
(* MAX_PROCESS and every scheduling class that keeps the contract.         *)
(***************************************************************************)
EXTENDS ProcessSlice, FiniteSetTheorems, TLAPS

-----------------------------------------------------------------------------
\* What the contract of struct sched_class says of one call.

\* enqueue() of a process that is not queued adds it.
LEMMA EnqueueFact ==
    ASSUME NEW q \in RunQueue, NEW p \in Schedulable, p \notin Members(q)
    PROVE  Enqueue(q, p) \in RunQueue /\ Members(Enqueue(q, p)) = Members(q) \cup {p}
BY SchedClassContract

\* alloc_proc() of a process that is not queued leaves the queue alone.
LEMMA AllocFact ==
    ASSUME NEW q \in RunQueue, NEW p \in Schedulable, p \notin Members(q)
    PROVE  AllocProc(q, p) \in RunQueue /\ Members(AllocProc(q, p)) = Members(q)
BY SchedClassContract

\* proc_tick() of a process that is not queued leaves the queue alone.
LEMMA TickFact ==
    ASSUME NEW q \in RunQueue, NEW p \in Schedulable, p \notin Members(q)
    PROVE  /\ ProcTick(q, p) \in RunQueue /\ Members(ProcTick(q, p)) = Members(q)
           /\ TickResched(q, p) \in BOOLEAN
BY SchedClassContract

\* pick_next() and the dequeue() of what it returned take one process off.
LEMMA PickFact ==
    ASSUME NEW q \in RunQueue, Members(q) # {}
    PROVE  /\ PickNext(q) \in Members(q)
           /\ Dequeue(Picked(q), PickNext(q)) \in RunQueue
           /\ Members(Dequeue(Picked(q), PickNext(q))) = Members(q) \ {PickNext(q)}
<1> DEFINE p == PickNext(q)
<1>1. p \in Members(q) /\ Members(q) \subseteq Schedulable
      /\ Picked(q) \in RunQueue /\ Members(Picked(q)) = Members(q)
  BY SchedClassContract
<1>2. p \in Schedulable /\ p \in Members(Picked(q))
  BY <1>1
<1> HIDE DEF p
<1>3. Dequeue(Picked(q), p) \in RunQueue
      /\ Members(Dequeue(Picked(q), p)) = Members(Picked(q)) \ {p}
  BY <1>1, <1>2, SchedClassContract
<1> QED BY <1>1, <1>3 DEF p

-----------------------------------------------------------------------------
\* Cardinality of the two kernel threads.
LEMMA TwoThreads == Cardinality({idleproc, initproc}) = 2
<1>1. IsFiniteSet({idleproc}) /\ Cardinality({idleproc}) = 1
  BY FS_Singleton
<1>2. initproc \notin {idleproc}
  BY ProcAssumption
<1>3. Cardinality({idleproc} \cup {initproc}) = Cardinality({idleproc}) + 1
  BY <1>1, <1>2, FS_AddElement
<1>4. Cardinality({idleproc} \cup {initproc}) = 2
  BY <1>1, <1>3
<1> QED BY <1>4, {idleproc} \cup {initproc} = {idleproc, initproc}

\* The state proc_init() leaves satisfies the invariant.
LEMMA InitIInv == Init => IInv
<1> SUFFICES ASSUME Init PROVE IInv
  OBVIOUS
<1> PICK empty \in InitRqs : rq = Enqueue(AllocProc(empty, initproc), initproc)
  BY DEF Init
<1> DEFINE q == AllocProc(empty, initproc)
<1>1. initproc \in Schedulable /\ empty \in RunQueue /\ Members(empty) = {}
  BY ProcAssumption, SchedClassContract DEF Schedulable
<1>2. q \in RunQueue /\ Members(q) = {}
  BY <1>1, AllocFact
<1>3. rq \in RunQueue /\ Members(rq) = {initproc}
  BY <1>1, <1>2, EnqueueFact DEF Init
<1>4. TypeOK
  BY <1>3, ProcAssumption DEF Init, TypeOK, State, Pc, SchedPc
<1>5. RunQueueExact
  BY <1>3, ProcAssumption DEF Init, RunQueueExact, Schedulable
<1>6. PcState
  BY ProcAssumption DEF Init, PcState, InitPc, UserPc, ParkedPc
<1>7. Tree
  BY ProcAssumption DEF Init, Tree
<1>8. Rooted
  BY ProcAssumption DEF Init, Rooted
<1>9. Leafed /\ InitLast
  BY ProcAssumption DEF Init, Leafed, Schedulable, InitLast
<1>10. NoLostWakeup
  BY DEF Init, NoLostWakeup
<1>11. Spaces
  BY ProcAssumption DEF Init, Spaces
<1>12. ProcCount
  <2>1. {p \in Proc : Exists(p)} = {idleproc, initproc}
    BY ProcAssumption DEF Init, Exists
  <2> QED BY <2>1, TwoThreads, ProcAssumption DEF Init, ProcCount
<1>13. NoAssertionFails /\ NoStandstill
  BY ProcAssumption DEF Init, NoAssertionFails, NoStandstill, AssertPanic
<1> QED
  BY <1>4, <1>5, <1>6, <1>7, <1>8, <1>9, <1>10, <1>11, <1>12, <1>13 DEF IInv

-----------------------------------------------------------------------------
\* The process that has the CPU is not queued, and the others that could be
\* enqueued are not queued either.
LEMMA NotQueued ==
    ASSUME IInv, NEW p \in Proc, p = current \/ state[p] # "RUNNABLE"
    PROVE  p \notin Members(rq)
BY DEF IInv, RunQueueExact

\* A step of the current process between two labels of kernel code where it
\* stays runnable: trap return, tick, and every system call without effect on
\* another process.
LEMMA MoveIInv ==
    ASSUME IInv,
           NEW l \in Pc,
           pc' = [pc EXCEPT ![current] = l],
           UNCHANGED <<current, state, parent, memVars, wait_state, nr_process>>,
           wait_pid' \in [Proc -> Proc], flags' \in [Proc -> BOOLEAN],
           need_resched' \in [Proc -> BOOLEAN],
           rq' \in RunQueue, Members(rq') = Members(rq),
           panic' \in {"none"} \cup LoadPanic,
           \A p \in Proc : p # current => wait_pid'[p] = wait_pid[p],
           wait_pid'[initproc] = idleproc,
           l = "init_check" => Children(initproc) = {},
           state[current] = "RUNNABLE", pc[current] # "do_exit",
           l \notin {"none", "sched_wait", "sched_exit", "exit_returned"},
           l \in IF current = idleproc THEN {"idle", "sched_idle"}
                 ELSE IF current = initproc THEN InitPc ELSE UserPc,
           l \in {"user", "trap_ret", "sched_trap"} => mm[current],
           l \in {"do_wait", "wait_resumed"} => mm[current] \/ current = initproc
    PROVE  IInv'
<1> USE ProcAssumption
<1>1. TypeOK'
  BY DEF IInv, TypeOK, memVars
<1>2. RunQueueExact'
  BY DEF IInv, RunQueueExact
<1>3. PcState'
  BY DEF IInv, TypeOK, PcState
<1>4. Tree' /\ Rooted' /\ Leafed'
  BY DEF IInv, Tree, Rooted, Leafed
<1>10. InitLast'
  BY DEF IInv, TypeOK, InitLast, Children
<1>5. NoLostWakeup'
  BY DEF IInv, NoLostWakeup, Awaited, Children
<1>6. Spaces'
  BY DEF IInv, TypeOK, Spaces, memVars, PcState
<1>7. ProcCount'
  BY DEF IInv, ProcCount, Exists
<1>8. NoAssertionFails'
  BY DEF NoAssertionFails, AssertPanic, LoadPanic
<1>9. NoStandstill'
  BY DEF IInv, TypeOK, NoStandstill
<1> QED
  BY <1>1, <1>2, <1>3, <1>4, <1>5, <1>6, <1>7, <1>8, <1>9, <1>10 DEF IInv

\* The steps of the current process that only move it.
LEMMA LocalIInv ==
    ASSUME IInv,
           \/ CpuIdle \/ TrapReturn \/ SysReturn \/ SysExit \/ WaitResumed
           \/ SysYield \/ WaitNoChild \/ (\E p \in Proc : SysWait(p))
    PROVE  IInv'
<1> USE ProcAssumption
<1> USE DEF At, Goto, memVars, waitVars, treeVars, schedVars, LoadPanic
<1>t. TypeOK /\ PcState /\ Spaces /\ wait_pid[initproc] = idleproc
  BY DEF IInv, InitLast
<1>r. pc[current] \in {"idle", "trap_ret", "user", "wait_resumed", "do_wait"}
        => /\ state[current] = "RUNNABLE"
           /\ pc[current] \in {"trap_ret", "user"} =>
                 mm[current] /\ current \notin {idleproc, initproc}
           /\ pc[current] \in {"wait_resumed", "do_wait"} => mm[current] \/ current = initproc
           /\ pc[current] = "idle" => current = idleproc
           /\ current = idleproc => pc[current] = "idle"
  BY <1>t DEF TypeOK, PcState, State, InitPc, UserPc, Spaces
<1>1. CASE CpuIdle
  <2> USE DEF CpuIdle
  <2> QED BY <1>t, <1>r, <1>1, MoveIInv DEF TypeOK, Pc, SchedPc
<1>2. CASE TrapReturn
  <2> DEFINE l == IF flags[current] THEN "do_exit"
                  ELSE IF need_resched[current] THEN "sched_trap" ELSE "user"
  <2>1. l \in {"do_exit", "sched_trap", "user"} /\ pc' = [pc EXCEPT ![current] = l]
    BY <1>2 DEF TrapReturn
  <2> HIDE DEF l
  <2> QED BY <2>1, <1>t, <1>r, <1>2, MoveIInv
          DEF TrapReturn, TypeOK, Pc, SchedPc, UserPc
<1>3. CASE SysReturn
  BY <1>t, <1>r, <1>3, MoveIInv DEF SysReturn, TypeOK, Pc, SchedPc, UserPc
<1>4. CASE SysExit
  BY <1>t, <1>r, <1>4, MoveIInv DEF SysExit, TypeOK, Pc, SchedPc, UserPc
<1>5. CASE WaitResumed
  <2> DEFINE l == IF flags[current] THEN "do_exit" ELSE "do_wait"
  <2>1. l \in {"do_exit", "do_wait"} /\ pc' = [pc EXCEPT ![current] = l]
    BY <1>5 DEF WaitResumed
  <2> HIDE DEF l
  <2> QED BY <2>1, <1>t, <1>r, <1>5, MoveIInv
          DEF WaitResumed, TypeOK, Pc, SchedPc, UserPc, InitPc
<1>6. CASE SysYield
  BY <1>t, <1>r, <1>6, MoveIInv DEF SysYield, TypeOK, Pc, SchedPc, UserPc
<1>7. CASE WaitNoChild
  <2> DEFINE l == IF current = initproc THEN "init_check" ELSE "trap_ret"
  <2> QED BY <1>t, <1>r, <1>7, MoveIInv
          DEF WaitNoChild, Awaited, TypeOK, Pc, SchedPc, UserPc, InitPc, l
<1>8. CASE \E p \in Proc : SysWait(p)
  BY <1>t, <1>r, <1>8, MoveIInv DEF SysWait, TypeOK, Pc, SchedPc, UserPc
<1> QED BY <1>1, <1>2, <1>3, <1>4, <1>5, <1>6, <1>7, <1>8

\* The timer interrupt and lab6_set_priority() touch the current process only.
LEMMA TickIInv ==
    ASSUME IInv, Tick \/ TickKernel \/ (\E v \in Priority : SysSetPriority(v))
    PROVE  IInv'
<1> USE ProcAssumption
<1> USE DEF At, Goto, memVars, waitVars, treeVars, schedVars, LoadPanic
<1>t. TypeOK /\ PcState /\ Spaces /\ current \notin Members(rq)
      /\ wait_pid[initproc] = idleproc
  BY NotQueued DEF IInv, TypeOK, InitLast
<1>r. pc[current] = "user" =>
        /\ state[current] = "RUNNABLE" /\ mm[current]
        /\ current \notin {idleproc, initproc}
  BY <1>t DEF TypeOK, PcState, State, InitPc, UserPc, Spaces
<1>k. current \notin {idleproc, initproc} => current \in Schedulable
  BY <1>t DEF TypeOK, Schedulable
<1>1. ASSUME Tick PROVE IInv'
  <2>1. /\ rq' = ProcTick(rq, current)
        /\ need_resched' = [need_resched EXCEPT
                              ![current] = @ \/ TickResched(rq, current)]
    BY <1>1, <1>r DEF Tick, sched_class_proc_tick
  <2>2. rq' \in RunQueue /\ Members(rq') = Members(rq)
        /\ TickResched(rq, current) \in BOOLEAN
    BY <1>1, <1>t, <1>r, <1>k, <2>1, TickFact DEF Tick, TypeOK
  <2>3. need_resched' \in [Proc -> BOOLEAN]
    BY <2>1, <2>2, <1>t DEF TypeOK
  <2> QED BY <2>2, <2>3, <1>t, <1>r, <1>1, MoveIInv
          DEF Tick, sched_class_proc_tick, TypeOK, Pc, SchedPc, UserPc
<1>2. ASSUME TickKernel PROVE IInv'
  <2>1. rq' \in RunQueue /\ Members(rq') = Members(rq)
        /\ need_resched' \in [Proc -> BOOLEAN]
    <3>1. CASE current = idleproc
      BY <3>1, <1>2, <1>t DEF TickKernel, sched_class_proc_tick, TypeOK
    <3>2. CASE current # idleproc
      <4>1. current \in Schedulable
        BY <3>2, <1>t DEF TypeOK, Schedulable
      <4>2. /\ rq' = ProcTick(rq, current)
            /\ need_resched' = [need_resched EXCEPT
                                  ![current] = @ \/ TickResched(rq, current)]
        BY <1>2, <3>2 DEF TickKernel, sched_class_proc_tick
      <4>3. rq' \in RunQueue /\ Members(rq') = Members(rq)
            /\ TickResched(rq, current) \in BOOLEAN
        BY <4>1, <4>2, <1>t, TickFact DEF TypeOK
      <4> QED BY <4>2, <4>3, <1>t DEF TypeOK
    <3> QED BY <3>1, <3>2
  <2>2. UNCHANGED <<current, state, pc, parent, mm, pgdir, satp, wait_state,
                    wait_pid, flags, nr_process, panic>>
    BY <1>2 DEF TickKernel, sched_class_proc_tick
  <2>3. TypeOK' /\ RunQueueExact' /\ NoLostWakeup'
    BY <2>1, <2>2 DEF IInv, TypeOK, RunQueueExact, NoLostWakeup, Awaited, Children
  <2>4. PcState' /\ Tree' /\ Rooted' /\ Leafed' /\ InitLast' /\ Spaces'
    BY <2>2 DEF IInv, PcState, Tree, Rooted, Leafed, InitLast, Children, Spaces
  <2>5. ProcCount' /\ NoAssertionFails' /\ NoStandstill'
    BY <2>2 DEF IInv, ProcCount, Exists, NoAssertionFails, NoStandstill
  <2> QED BY <2>3, <2>4, <2>5 DEF IInv
<1>3. ASSUME NEW v \in Priority, SysSetPriority(v) PROVE IInv'
  <2>1. rq' \in RunQueue /\ Members(rq') = Members(rq)
    BY <1>3, <1>t, <1>r, <1>k, SchedClassContract DEF SysSetPriority, TypeOK
  <2> QED BY <2>1, <1>t, <1>r, <1>3, MoveIInv
          DEF SysSetPriority, TypeOK, Pc, SchedPc, UserPc
<1> QED BY <1>1, <1>2, <1>3

\* The assertions at the end of init_main() hold: when initproc has no child
\* there is no other process, because the parent relation is rooted in it.
LEMMA InitCheckIInv ==
    ASSUME IInv, InitCheck
    PROVE  IInv'
<1> USE ProcAssumption
<1> USE DEF At, Goto, memVars, waitVars, treeVars, schedVars, LoadPanic
<1>t. TypeOK /\ PcState /\ Spaces /\ Tree /\ Rooted /\ InitLast /\ ProcCount
  BY DEF IInv
<1>r. state[current] = "RUNNABLE" /\ current = initproc
  BY <1>t DEF InitCheck, TypeOK, PcState, State, InitPc, UserPc
<1> DEFINE S == {p \in Proc \ {idleproc, initproc} : state[p] # "UNUSED"}
<1>1. Children(initproc) = {}
  BY <1>t, <1>r DEF InitCheck, InitLast
<1>2. S = {}
  <2> SUFFICES ASSUME S # {} PROVE FALSE
    OBVIOUS
  <2>1. PICK p \in S : parent[p] \notin S
    BY <1>t DEF Rooted
  <2>2. parent[p] \in Schedulable /\ state[parent[p]] # "UNUSED"
    BY <1>t, <2>1 DEF Tree
  <2>3. parent[p] = initproc
    BY <2>1, <2>2 DEF Schedulable
  <2> QED BY <2>3, <1>1 DEF Children
<1>3. nr_process = 2
  <2>1. {p \in Proc : Exists(p)} = {idleproc, initproc}
    BY <1>2, <1>t DEF Exists, PcState
  <2> QED BY <2>1, <1>t, TwoThreads DEF ProcCount
<1>4. panic' = panic
  BY <1>1, <1>2, <1>3 DEF InitCheck
<1> QED
  BY <1>4, <1>t, <1>r, MoveIInv DEF InitCheck, InitLast, TypeOK, Pc, SchedPc, InitPc

\* A panic that a workload causes changes nothing but `panic'.
LEMMA PanicIInv ==
    ASSUME IInv, UserPanic \/ InitExit \/ Panicked
    PROVE  IInv'
<1>1. UNCHANGED <<current, state, pc, parent, mm, pgdir, satp, wait_state, wait_pid,
                  flags, need_resched, nr_process, rq>>
  BY DEF UserPanic, InitExit, Panicked, memVars, waitVars, treeVars, schedVars, vars
<1>2. panic' = panic \/ panic' \in LoadPanic
  BY DEF UserPanic, InitExit, Panicked, vars, LoadPanic
<1>3. TypeOK' /\ NoAssertionFails'
  BY <1>1, <1>2 DEF IInv, TypeOK, NoAssertionFails, LoadPanic, AssertPanic
<1>4. RunQueueExact' /\ NoLostWakeup' /\ PcState' /\ Tree' /\ Rooted' /\ Leafed'
  BY <1>1 DEF IInv, RunQueueExact, NoLostWakeup, Awaited, Children, PcState, Tree,
              Rooted, Leafed
<1>5. InitLast' /\ Spaces' /\ ProcCount' /\ NoStandstill'
  BY <1>1 DEF IInv, InitLast, Children, Spaces, ProcCount, Exists, NoStandstill
<1> QED BY <1>3, <1>4, <1>5 DEF IInv

\* do_execve(): the old page table is not in use any more when it is freed.
LEMMA ExecIInv ==
    ASSUME IInv, SysExec \/ UserMain
    PROVE  IInv'
<1> USE ProcAssumption
<1> USE DEF At, Goto, memVars, waitVars, treeVars, schedVars
<1>t. TypeOK /\ PcState /\ Spaces /\ Tree
  BY DEF IInv
<1>r. /\ pc[current] \in {"user", "user_main"}
      /\ state[current] = "RUNNABLE" /\ current \notin {idleproc, initproc}
  BY <1>t DEF SysExec, UserMain, TypeOK, PcState, State, InitPc, UserPc
<1>1. /\ UNCHANGED <<current, state, parent, wait_state, wait_pid, flags,
                     need_resched, nr_process, rq, panic>>
      /\ pc' \in {[pc EXCEPT ![current] = l] : l \in {"user", "trap_ret", "do_exit"}}
  BY DEF SysExec, UserMain, ExecOk, ExecFail
<1>2. PICK l \in {"user", "trap_ret", "do_exit"} : pc' = [pc EXCEPT ![current] = l]
  BY <1>1
<1>3. TypeOK'
  <2>1. mm' \in [Proc -> BOOLEAN] /\ pgdir' \in [Proc -> Proc] /\ satp' \in Proc
    <3>1. CASE ExecFail
      <4>1. satp' = idleproc \/ satp' = satp
        BY <3>1 DEF ExecFail, drop_mm
      <4> QED BY <3>1, <4>1, <1>t DEF TypeOK, ExecFail, drop_mm
    <3>2. CASE ExecOk("user") \/ ExecOk("trap_ret")
      <4>1. /\ mm' = [mm EXCEPT ![current] = TRUE]
            /\ pgdir' = [pgdir EXCEPT ![current] = current] /\ satp' = current
        BY <3>2 DEF ExecOk
      <4>2. mm \in [Proc -> BOOLEAN] /\ pgdir \in [Proc -> Proc] /\ current \in Proc
        BY <1>t DEF TypeOK
      <4> QED BY <4>1, <4>2
    <3> QED BY <3>1, <3>2 DEF SysExec, UserMain
  <2>2. pc' \in [Proc -> Pc]
    BY <1>t, <1>2 DEF TypeOK, Pc, SchedPc
  <2> QED BY <2>1, <2>2, <1>t, <1>1 DEF TypeOK
<1>4. PcState'
  BY <1>t, <1>r, <1>1, <1>2 DEF TypeOK, PcState, UserPc
<1>5. RunQueueExact' /\ NoLostWakeup' /\ Tree' /\ Rooted' /\ Leafed'
  BY <1>1 DEF IInv, RunQueueExact, NoLostWakeup, Awaited, Children, Tree, Rooted, Leafed
<1>6. InitLast' /\ NoStandstill'
  BY <1>t, <1>r, <1>1, <1>2 DEF IInv, TypeOK, InitLast, Children, NoStandstill
<1>7. ProcCount' /\ NoAssertionFails'
  BY <1>1 DEF IInv, ProcCount, Exists, NoAssertionFails
<1>8. Spaces'
  <2>1. CASE ExecFail
    BY <2>1, <1>t, <1>r DEF ExecFail, drop_mm, TypeOK, Spaces
  <2>2. CASE ExecOk("user") \/ ExecOk("trap_ret")
    BY <2>2, <1>t, <1>r DEF ExecOk, TypeOK, Spaces
  <2> QED BY <2>1, <2>2 DEF SysExec, UserMain
<1> QED BY <1>3, <1>4, <1>5, <1>6, <1>7, <1>8 DEF IInv

\* do_wait() goes to sleep only on children that have not exited.
LEMMA SleepIInv ==
    ASSUME IInv, WaitSleep
    PROVE  IInv'
<1> USE ProcAssumption
<1> USE DEF At, Goto, memVars, waitVars, treeVars, schedVars, WaitSleep
<1>t. TypeOK /\ PcState /\ Spaces /\ Tree /\ NoLostWakeup
  BY DEF IInv
<1>r. state[current] = "RUNNABLE" /\ current # idleproc
  BY <1>t DEF TypeOK, PcState, State, InitPc, UserPc
<1>1. TypeOK'
  BY <1>t DEF TypeOK, Pc, SchedPc, State
<1>2. RunQueueExact'
  BY <1>t DEF IInv, RunQueueExact, TypeOK
<1>3. PcState'
  BY <1>t, <1>r DEF TypeOK, PcState, UserPc, InitPc
<1>4. Tree'
  BY <1>t, <1>r DEF TypeOK, Tree
<1>5. Rooted' /\ Leafed'
  BY DEF IInv, Rooted, Leafed
<1>6. InitLast' /\ NoStandstill'
  BY <1>t, <1>r DEF IInv, TypeOK, InitLast, Children, NoStandstill
<1>7. NoLostWakeup'
  <2> SUFFICES ASSUME NEW p \in Proc, state'[p] = "SLEEPING"
               PROVE  /\ wait_state'[p] = "WT_CHILD"
                      /\ Awaited(p) # {}
                      /\ \A c \in Awaited(p) : state'[c] # "ZOMBIE"
    BY DEF NoLostWakeup, Awaited, Children
  <2>1. CASE p = current
    BY <2>1, <1>t DEF TypeOK, Awaited, Children
  <2>2. CASE p # current
    BY <2>2, <1>t DEF TypeOK, NoLostWakeup, Awaited, Children
  <2> QED BY <2>1, <2>2
<1>8. Spaces'
  BY <1>t, <1>r DEF TypeOK, Spaces
<1>9. ProcCount' /\ NoAssertionFails'
  <2>1. {p \in Proc : Exists(p)}' = {p \in Proc : Exists(p)}
    BY <1>t, <1>r DEF TypeOK, Exists
  <2> QED BY <2>1 DEF IInv, ProcCount, NoAssertionFails
<1> QED BY <1>1, <1>2, <1>3, <1>4, <1>5, <1>6, <1>7, <1>8, <1>9 DEF IInv

-----------------------------------------------------------------------------
\* do_kill() wakes the victim only if it sleeps, and then queues it.
LEMMA KillIInv ==
    ASSUME IInv, NEW v \in Proc, SysKill(v)
    PROVE  IInv'
<1> USE ProcAssumption
<1> USE DEF At, Goto, memVars, waitVars, treeVars, schedVars
<1>t. TypeOK /\ PcState /\ Spaces /\ Tree /\ NoLostWakeup /\ RunQueueExact
  BY DEF IInv
<1>r. /\ state[current] = "RUNNABLE" /\ current \notin {idleproc, initproc}
      /\ v \in Schedulable
  BY <1>t DEF SysKill, TypeOK, PcState, State, InitPc, UserPc, Schedulable
<1>1. CASE wait_state[v] # "WT_CHILD"
  <2>1. /\ UNCHANGED <<state, rq, panic>>
        /\ flags' \in [Proc -> BOOLEAN]
    BY <1>1, <1>t DEF SysKill, wakeup_rq, TypeOK
  <2>2. wait_state' = wait_state
    BY <1>1, <1>t DEF SysKill, wakeup_wait, TypeOK
  <2>3. /\ pc' = [pc EXCEPT ![current] = "trap_ret"] /\ pc[current] = "user"
        /\ UNCHANGED <<current, memVars, wait_pid, parent, nr_process, need_resched>>
        /\ panic = "none"
    BY DEF SysKill
  <2> QED BY <2>1, <2>2, <2>3, <1>t, <1>r, MoveIInv
          DEF IInv, InitLast, TypeOK, Pc, SchedPc, UserPc, Spaces
<1>2. CASE wait_state[v] = "WT_CHILD"
  <2>1. state[v] = "SLEEPING" /\ v # current /\ v \notin Members(rq)
    BY <1>2, <1>t, <1>r DEF PcState, RunQueueExact
  <2>2. /\ state' = [state EXCEPT ![v] = "RUNNABLE"]
        /\ wait_state' = [wait_state EXCEPT ![v] = "0"]
        /\ rq' = Enqueue(rq, v)
        /\ flags' = [flags EXCEPT ![v] = TRUE]
        /\ pc' = [pc EXCEPT ![current] = "trap_ret"]
        /\ UNCHANGED <<current, mm, pgdir, satp, wait_pid, parent, nr_process,
                       need_resched, panic>>
    BY <1>2, <2>1, <1>t DEF SysKill, wakeup_rq, wakeup_wait, sched_class_enqueue, TypeOK
  <2>3. rq' \in RunQueue /\ Members(rq') = Members(rq) \cup {v}
    BY <2>1, <2>2, <1>t, <1>r, EnqueueFact DEF TypeOK
  <2>c. pc[current] = "user"
    BY DEF SysKill
  <2> HIDE DEF At, Goto
  <2>4. TypeOK'
    BY <2>2, <2>3, <1>t DEF TypeOK, State, Pc, SchedPc
  <2>5. RunQueueExact'
    BY <2>1, <2>2, <2>3, <1>t, <1>r DEF RunQueueExact, TypeOK
  <2>6. PcState'
    BY <2>1, <2>2, <2>c, <1>t, <1>r DEF TypeOK, PcState, UserPc
  <2>7. Tree'
    BY <2>1, <2>2, <1>t DEF TypeOK, Tree
  <2>8. Rooted' /\ Leafed'
    BY <2>2 DEF IInv, Rooted, Leafed
  <2>9. InitLast' /\ NoStandstill'
    BY <2>2, <1>t, <1>r DEF IInv, TypeOK, InitLast, Children, NoStandstill
  <2>10. NoLostWakeup'
    BY <2>2, <1>t DEF TypeOK, NoLostWakeup, Awaited, Children
  <2>11. Spaces'
    BY <2>1, <2>2, <2>c, <1>t, <1>r DEF TypeOK, Spaces
  <2>12. ProcCount' /\ NoAssertionFails'
    <3>1. {p \in Proc : Exists(p)}' = {p \in Proc : Exists(p)}
      BY <2>1, <2>2, <1>t DEF TypeOK, Exists
    <3> QED BY <3>1, <2>2 DEF IInv, ProcCount, NoAssertionFails
  <2> QED BY <2>4, <2>5, <2>6, <2>7, <2>8, <2>9, <2>10, <2>11, <2>12 DEF IInv
<1> QED BY <1>1, <1>2

\* do_fork() adds a leaf to the tree and a process to the queue.
LEMMA ForkIInv ==
    ASSUME IInv, NEW child \in Proc, SysFork(child) \/ InitMain(child)
    PROVE  IInv'
<1> USE ProcAssumption
<1>t. TypeOK /\ PcState /\ Spaces /\ Tree /\ NoLostWakeup /\ RunQueueExact
  BY DEF IInv
<1> DEFINE init == current = initproc
           entry == IF init THEN "user_main" ELSE "user"
           after == IF init THEN "do_wait" ELSE "trap_ret"
<1>r. /\ state[current] = "RUNNABLE" /\ current # idleproc
      /\ IF init THEN pc[current] = "init_main" ELSE pc[current] = "user" /\ mm[current]
  BY <1>t DEF SysFork, InitMain, At, TypeOK, PcState, State, InitPc, UserPc, Spaces
<1>f. do_fork(child, entry, after)
  BY <1>r DEF SysFork, InitMain, At
<1>c. state[child] = "UNUSED" /\ child \notin {current, idleproc, initproc}
  BY <1>f, <1>r, <1>t DEF do_fork, PcState
<1>w. wait_state[current] = "0"
  BY <1>r, <1>t DEF PcState, TypeOK
<1>q. rq' \in RunQueue /\ Members(rq') = Members(rq) \cup {child}
  <2>1. child \in Schedulable /\ child \notin Members(rq) /\ rq \in RunQueue
    BY <1>c, <1>t DEF RunQueueExact, Schedulable, TypeOK
  <2>2. rq' = Enqueue(AllocProc(rq, child), child)
    BY <1>f, <1>c DEF do_fork, wakeup_rq, sched_class_enqueue
  <2> QED BY <2>1, <2>2, AllocFact, EnqueueFact
<1>1. /\ state' = [state EXCEPT ![child] = "RUNNABLE"]
      /\ pc' = [pc EXCEPT ![child] = entry, ![current] = after]
      /\ parent' = [parent EXCEPT ![child] = current]
      /\ mm' = [mm EXCEPT ![child] = mm[current]]
      /\ pgdir' = [pgdir EXCEPT ![child] = IF mm[current] THEN child ELSE idleproc]
      /\ nr_process' = nr_process + 1 /\ nr_process < MaxProcess
      /\ UNCHANGED <<current, satp, wait_state, wait_pid, flags, need_resched, panic>>
  BY <1>f, <1>w DEF do_fork, ForkLimit, set_links, copy_mm, waitVars
<1>e. entry \in {"user", "user_main"} /\ after \in {"do_wait", "trap_ret"}
  OBVIOUS
<1>n. \A p \in Proc : parent[p] # child
  BY <1>c, <1>t DEF Tree
<1>2. TypeOK'
  <2>1. pc' \in [Proc -> Pc] /\ pgdir' \in [Proc -> Proc]
    <3> HIDE DEF entry, after
    <3> QED BY <1>1, <1>e, <1>t DEF TypeOK, Pc, SchedPc
  <2> QED BY <2>1, <1>1, <1>q, <1>t DEF TypeOK, State
<1>3. RunQueueExact'
  BY <1>1, <1>q, <1>c, <1>t DEF RunQueueExact, TypeOK, Schedulable
<1>4. PcState'
  <2>1. CASE init
    BY <2>1, <1>1, <1>c, <1>r, <1>t DEF TypeOK, PcState, InitPc, UserPc, ParkedPc
  <2>2. CASE ~init
    BY <2>2, <1>1, <1>c, <1>r, <1>t DEF TypeOK, PcState, InitPc, UserPc, ParkedPc
  <2> QED BY <2>1, <2>2
<1> HIDE DEF init, entry, after
<1>5. Tree'
  BY <1>1, <1>c, <1>r, <1>t DEF TypeOK, Tree, Schedulable
<1>6. Rooted'
  <2> SUFFICES ASSUME NEW S \in SUBSET (Proc \ {idleproc, initproc}), S # {}
               PROVE  \E p \in S : parent'[p] \notin S
    BY DEF Rooted
  <2>1. CASE S = {child}
    BY <2>1, <1>1, <1>c, <1>t DEF TypeOK
  <2>2. CASE S # {child}
    <3>1. S \ {child} # {}
      BY <2>2
    <3>2. PICK p \in S \ {child} : parent[p] \notin S \ {child}
      BY <3>1 DEF IInv, Rooted
    <3> QED BY <3>2, <1>1, <1>n, <1>t DEF TypeOK
  <2> QED BY <2>1, <2>2
<1>7. Leafed'
  <2> SUFFICES ASSUME NEW S \in SUBSET Schedulable, S # {}
               PROVE  \E p \in S : \A c \in S : parent'[c] # p
    BY DEF Leafed
  <2>s. S \subseteq Proc
    BY DEF Schedulable
  <2>1. CASE child \in S
    BY <2>1, <2>s, <1>1, <1>c, <1>n, <1>t DEF TypeOK
  <2>2. CASE child \notin S
    <3>1. PICK p \in S : \A c \in S : parent[c] # p
      BY DEF IInv, Leafed
    <3> QED BY <3>1, <2>2, <2>s, <1>1, <1>t DEF TypeOK
  <2> QED BY <2>1, <2>2
<1>8. InitLast' /\ NoStandstill'
  <2>1. pc'[initproc] # "init_check"
    <3>1. current = initproc => pc'[initproc] = after /\ after # "init_check"
      BY <1>1, <1>e, <1>c, <1>t DEF TypeOK
    <3>2. current # initproc => pc'[initproc] = pc[initproc] /\ pc[initproc] \in ParkedPc
      BY <1>1, <1>c, <1>t DEF TypeOK, PcState
    <3> QED BY <3>1, <3>2 DEF ParkedPc
  <2> QED BY <2>1, <1>1, <1>r DEF IInv, InitLast, NoStandstill
<1>9. NoLostWakeup'
  <2> SUFFICES ASSUME NEW p \in Proc, state'[p] = "SLEEPING"
               PROVE  /\ wait_state'[p] = "WT_CHILD"
                      /\ Awaited(p)' # {}
                      /\ \A c \in Awaited(p)' : state'[c] # "ZOMBIE"
    BY DEF NoLostWakeup
  <2>1. state[p] = "SLEEPING" /\ p # current /\ p # child
    BY <1>1, <1>c, <1>r, <1>t DEF TypeOK
  <2>2. Awaited(p)' = Awaited(p)
    BY <2>1, <1>1, <1>c, <1>t DEF TypeOK, Awaited, Children, Tree
  <2>3. \A c \in Awaited(p) : state'[c] # "ZOMBIE"
    BY <2>1, <1>1, <1>t DEF TypeOK, NoLostWakeup, Awaited, Children
  <2> QED BY <2>1, <2>2, <2>3, <1>1, <1>t DEF NoLostWakeup
<1>10. Spaces'
  <2>1. CASE init
    BY <2>1, <1>1, <1>c, <1>r, <1>t DEF TypeOK, Spaces, init, entry, after
  <2>2. CASE ~init
    BY <2>2, <1>1, <1>c, <1>r, <1>t DEF TypeOK, Spaces, init, entry, after
  <2> QED BY <2>1, <2>2
<1>11. ProcCount' /\ NoAssertionFails'
  <2> DEFINE E == {p \in Proc : Exists(p)}
  <2>1. {p \in Proc : Exists(p)}' = E \cup {child}
    BY <1>1, <1>c, <1>t DEF TypeOK, Exists
  <2>2. IsFiniteSet(E) /\ child \notin E
    BY <1>c, FS_Subset DEF Exists
  <2>3. Cardinality(E \cup {child}) = Cardinality(E) + 1
    BY <2>2, FS_AddElement
  <2>4. nr_process = Cardinality(E)
    BY DEF IInv, ProcCount
  <2>5. nr_process' = Cardinality(E \cup {child})
    BY <2>3, <2>4, <1>1
  <2>6. nr_process' = Cardinality({p \in Proc : Exists(p)})'
    BY <2>1, <2>5, Zenon
  <2>7. nr_process' <= MaxProcess
    BY <1>1, <1>t DEF TypeOK
  <2> HIDE DEF E
  <2>9. ProcCount'
    BY <2>6, <2>7, Zenon DEF ProcCount
  <2>8. NoAssertionFails'
    BY <1>1 DEF IInv, NoAssertionFails
  <2> QED BY <2>8, <2>9
<1> QED BY <1>2, <1>3, <1>4, <1>5, <1>6, <1>7, <1>8, <1>9, <1>10, <1>11 DEF IInv

-----------------------------------------------------------------------------
\* do_exit(): the parent, and initproc if it inherits a zombie, are woken if
\* they sleep; nobody is left sleeping on a zombie.
LEMMA ExitIInv ==
    ASSUME IInv, DoExit
    PROVE  IInv'
<1> USE ProcAssumption
<1>t. TypeOK /\ PcState /\ Spaces /\ Tree /\ NoLostWakeup /\ RunQueueExact
  BY DEF IInv
<1> DEFINE par == parent[current]
           wakePar == wait_state[par] = "WT_CHILD"
           wakeInit == /\ wait_state[initproc] = "WT_CHILD"
                       /\ ~(wakePar /\ par = initproc)
                       /\ \E c \in Children(current) : state[c] = "ZOMBIE"
           woken == {p \in {par, initproc} : \/ wakePar /\ p = par
                                             \/ wakeInit /\ p = initproc}
<1>r. /\ pc[current] = "do_exit" /\ current \notin {idleproc, initproc}
      /\ state[current] = "RUNNABLE" /\ panic = "none"
  BY <1>t DEF DoExit, At, TypeOK, PcState, State
<1>p. par \in Schedulable /\ par # current /\ state[par] \in {"RUNNABLE", "SLEEPING"}
  <2>1. par \in Schedulable /\ state[par] \in {"RUNNABLE", "SLEEPING"}
    BY <1>t, <1>r DEF TypeOK, Tree
  <2>2. {current} \in SUBSET (Proc \ {idleproc, initproc}) /\ {current} # {}
    BY <1>t, <1>r DEF TypeOK
  <2>3. \E p \in {current} : parent[p] \notin {current}
    BY <2>2 DEF IInv, Rooted
  <2> QED BY <2>1, <2>3
<1>1. /\ state' = [p \in Proc |-> IF p = current THEN "ZOMBIE"
                                  ELSE IF p \in woken THEN "RUNNABLE"
                                  ELSE state[p]]
      /\ wait_state' = [p \in Proc |-> IF p \in woken THEN "0" ELSE wait_state[p]]
      /\ rq' = wakeup_rq(wakeup_rq(rq, par, wakePar), initproc, wakeInit)
      /\ panic' = IF \E p \in woken : state[p] = "ZOMBIE" THEN "wakeup_zombie" ELSE panic
      /\ parent' = [p \in Proc |-> IF parent[p] = current THEN initproc ELSE parent[p]]
      /\ mm' = [mm EXCEPT ![current] = FALSE]
      /\ satp' = IF mm[current] THEN idleproc ELSE satp
      /\ pc' = [pc EXCEPT ![current] = "sched_exit"]
      /\ UNCHANGED <<current, pgdir, wait_pid, flags, need_resched, nr_process>>
  BY DEF DoExit, Goto, drop_mm, WakesParent, WakesInit, Reparented, wakeup_wait
<1>w. woken \subseteq Schedulable
      /\ \A p \in woken : state[p] = "SLEEPING" /\ wait_state[p] = "WT_CHILD"
  BY <1>p, <1>t DEF PcState, Schedulable
<1>v. current \notin woken
  BY <1>w, <1>r
<1>q. rq' \in RunQueue /\ Members(rq') = Members(rq) \cup woken
  <2> DEFINE q1 == wakeup_rq(rq, par, wakePar)
  <2>0. rq \in RunQueue /\ initproc \in Schedulable
    BY <1>t DEF TypeOK, Schedulable
  <2>1. /\ q1 \in RunQueue
        /\ Members(q1) = IF wakePar THEN Members(rq) \cup {par} ELSE Members(rq)
    <3>1. CASE wakePar
      <4>1. state[par] = "SLEEPING" /\ par \notin Members(rq) /\ par # idleproc
        BY <3>1, <1>p, <1>t DEF PcState, RunQueueExact, Schedulable
      <4>2. q1 = Enqueue(rq, par)
        BY <3>1, <4>1, <1>p DEF wakeup_rq, sched_class_enqueue
      <4> QED BY <4>1, <4>2, <3>1, <2>0, <1>p, EnqueueFact
    <3>2. CASE ~wakePar
      BY <3>2, <2>0 DEF wakeup_rq
    <3> QED BY <3>1, <3>2
  <2>2. rq' = wakeup_rq(q1, initproc, wakeInit)
    BY <1>1
  <2> HIDE DEF q1
  <2>3. CASE wakeInit
    <3>1. initproc \in woken /\ state[initproc] = "SLEEPING"
      BY <2>3, <1>t DEF PcState
    <3>2. initproc \notin Members(rq) /\ ~(wakePar /\ par = initproc)
      BY <2>3, <3>1, <1>t DEF RunQueueExact
    <3>3. initproc \notin Members(q1)
      BY <2>1, <3>2
    <3>4. rq' = Enqueue(q1, initproc)
      BY <2>2, <2>3, <3>1, <1>r DEF wakeup_rq, sched_class_enqueue
    <3>5. rq' \in RunQueue /\ Members(rq') = Members(q1) \cup {initproc}
      BY <3>3, <3>4, <2>0, <2>1, EnqueueFact
    <3>6. woken = IF wakePar THEN {par, initproc} ELSE {initproc}
      BY <2>3
    <3> QED BY <3>5, <3>6, <2>1
  <2>4. CASE ~wakeInit
    <3>1. rq' = q1
      BY <2>2, <2>4 DEF wakeup_rq
    <3>2. woken = IF wakePar THEN {par} ELSE {}
      BY <2>4
    <3> QED BY <3>1, <3>2, <2>1
  <2> QED BY <2>3, <2>4
<1>z. panic' = panic
  BY <1>1, <1>w
<1>i. wait_state[initproc] = "WT_CHILD" /\ initproc \notin woken =>
        \A c \in Children(current) : state[c] # "ZOMBIE"
  OBVIOUS
<1>j. state[par] = "SLEEPING" => par \in woken
  BY <1>t, <1>p DEF PcState, Schedulable
<1> HIDE DEF woken, wakeInit, wakePar
<1>2. TypeOK'
  <2>1. state' \in [Proc -> State]
    BY <1>1, <1>t DEF TypeOK, State
  <2>2. parent' \in [Proc -> Proc \cup {NULL}]
    BY <1>1, <1>t DEF TypeOK
  <2>3. satp' \in Proc /\ mm' \in [Proc -> BOOLEAN]
    BY <1>1, <1>t DEF TypeOK
  <2>4. pc' \in [Proc -> Pc]
    BY <1>1, <1>t DEF TypeOK, Pc, SchedPc
  <2> QED BY <2>1, <2>2, <2>3, <2>4, <1>1, <1>q, <1>z, <1>t DEF TypeOK
<1>3. RunQueueExact'
  BY <1>1, <1>q, <1>v, <1>w, <1>t DEF RunQueueExact, TypeOK, Schedulable
<1>4. PcState'
  <2>1. \A p \in woken : p \in Proc /\ p # current
    BY <1>w, <1>v DEF Schedulable
  <2> QED BY <1>1, <1>r, <1>w, <2>1, <1>t DEF TypeOK, PcState, InitPc, UserPc, ParkedPc
<1>5. Tree'
  BY <1>1, <1>r, <1>w, <1>p, <1>t DEF TypeOK, Tree, Schedulable, PcState
<1>6. Rooted'
  <2> SUFFICES ASSUME NEW S \in SUBSET (Proc \ {idleproc, initproc}), S # {}
               PROVE  \E p \in S : parent'[p] \notin S
    BY DEF Rooted
  <2>1. PICK p \in S : parent[p] \notin S
    BY DEF IInv, Rooted
  <2>2. parent'[p] = initproc \/ parent'[p] = parent[p]
    BY <1>1
  <2> QED BY <2>1, <2>2
<1>7. Leafed'
  <2> SUFFICES ASSUME NEW S \in SUBSET Schedulable, S # {}
               PROVE  \E p \in S : \A c \in S : parent'[c] # p
    BY DEF Leafed
  <2>s. /\ \A c \in S : c \in Proc /\ (parent'[c] = parent[c] \/ parent'[c] = initproc)
        /\ parent'[initproc] = idleproc
    BY <1>1, <1>r, <1>t DEF Schedulable, Tree
  <2>1. CASE S \ {initproc} = {}
    BY <2>1, <2>s DEF Schedulable
  <2>2. CASE S \ {initproc} # {}
    <3>1. PICK p \in S \ {initproc} : \A c \in S \ {initproc} : parent[c] # p
      BY <2>2 DEF IInv, Leafed
    <3> QED BY <3>1, <2>s DEF Schedulable
  <2> QED BY <2>1, <2>2
<1>8. InitLast' /\ NoStandstill'
  <2>1. pc'[initproc] = pc[initproc] /\ pc[initproc] # "init_check"
    BY <1>1, <1>r, <1>t DEF TypeOK, PcState, ParkedPc
  <2> QED BY <2>1, <1>1, <1>r DEF IInv, InitLast, NoStandstill
<1>9. NoLostWakeup'
  <2> SUFFICES ASSUME NEW p \in Proc, state'[p] = "SLEEPING"
               PROVE  /\ wait_state'[p] = "WT_CHILD"
                      /\ Awaited(p)' # {}
                      /\ \A c \in Awaited(p)' : state'[c] # "ZOMBIE"
    BY DEF NoLostWakeup
  <2>1. p # current /\ p \notin woken /\ state[p] = "SLEEPING" /\ p # par
    BY <1>1, <1>j
  <2>2. wait_state[p] = "WT_CHILD" /\ Awaited(p) # {}
        /\ \A c \in Awaited(p) : state[c] # "ZOMBIE"
    BY <2>1, <1>t DEF NoLostWakeup
  <2>3. Awaited(p) \subseteq Awaited(p)'
    BY <2>1, <1>1 DEF Awaited, Children
  <2>4. ASSUME NEW c \in Awaited(p)' PROVE state'[c] # "ZOMBIE"
    <3>1. c \in Proc /\ parent'[c] = p
      BY <2>4 DEF Awaited, Children
    <3>2. c # current
      BY <3>1, <1>1, <2>1, <1>p
    <3>3. CASE parent[c] = p
      <4>1. c \in Awaited(p)
        BY <3>1, <3>3, <2>4, <1>1 DEF Awaited, Children
      <4> QED BY <4>1, <3>1, <3>2, <2>2, <1>1
    <3>4. CASE parent[c] # p
      <4>1. p = initproc /\ parent[c] = current
        BY <3>1, <3>4, <1>1
      <4>2. c \in Children(current) /\ state[c] # "ZOMBIE"
        BY <4>1, <3>1, <2>1, <2>2, <1>i DEF Children
      <4> QED BY <4>2, <3>1, <3>2, <1>1
    <3> QED BY <3>3, <3>4
  <2> QED BY <2>1, <2>2, <2>3, <2>4, <1>1
<1>10. Spaces'
  BY <1>1, <1>r, <1>v, <1>t DEF TypeOK, Spaces, PcState
<1>11. ProcCount' /\ NoAssertionFails'
  <2>1. {p \in Proc : Exists(p)}' = {p \in Proc : Exists(p)}
    BY <1>1, <1>r, <1>w, <1>t DEF TypeOK, Exists
  <2> QED BY <2>1, <1>1, <1>z DEF IInv, ProcCount, NoAssertionFails
<1> QED BY <1>2, <1>3, <1>4, <1>5, <1>6, <1>7, <1>8, <1>9, <1>10, <1>11 DEF IInv

\* do_wait() frees a zombie, which is nobody's parent and on no queue.
LEMMA ReapIInv ==
    ASSUME IInv, NEW child \in Proc, WaitReap(child)
    PROVE  IInv'
<1> USE ProcAssumption
<1>t. TypeOK /\ PcState /\ Spaces /\ Tree /\ NoLostWakeup /\ RunQueueExact
  BY DEF IInv
<1> DEFINE after == IF current = initproc THEN "sched_init" ELSE "trap_ret"
<1>r. /\ pc[current] = "do_wait" /\ panic = "none"
      /\ state[current] = "RUNNABLE" /\ current # idleproc
      /\ mm[current] \/ current = initproc
  BY <1>t DEF WaitReap, At, TypeOK, PcState, State, Spaces
<1>c. /\ state[child] = "ZOMBIE" /\ parent[child] = current
      /\ child \notin {current, idleproc, initproc}
  BY <1>r, <1>t DEF WaitReap, Awaited, Children, Tree, TypeOK
<1>1. /\ state' = [state EXCEPT ![child] = "UNUSED"]
      /\ parent' = [parent EXCEPT ![child] = NULL]
      /\ pgdir' = [pgdir EXCEPT ![child] = idleproc]
      /\ flags' = [flags EXCEPT ![child] = FALSE]
      /\ need_resched' = [need_resched EXCEPT ![child] = FALSE]
      /\ wait_pid' = [wait_pid EXCEPT ![child] = idleproc, ![current] = idleproc]
      /\ nr_process' = nr_process - 1
      /\ pc' = [pc EXCEPT ![child] = "none", ![current] = after]
      /\ UNCHANGED <<current, mm, satp, wait_state, rq, panic>>
  BY <1>c DEF WaitReap, remove_links
<1>e. after \in {"sched_init", "trap_ret"}
  OBVIOUS
<1>n. \A p \in Proc : parent[p] # child
  BY <1>c, <1>t DEF Tree
<1>k. nr_process' \in Nat /\ ProcCount'
  <2> DEFINE E == {p \in Proc : Exists(p)}
  <2>1. {p \in Proc : Exists(p)}' = E \ {child}
    BY <1>1, <1>c, <1>t DEF TypeOK, Exists
  <2>2. IsFiniteSet(E) /\ child \in E
    BY <1>c, FS_Subset DEF Exists
  <2>3. Cardinality(E \ {child}) = Cardinality(E) - 1
    BY <2>2, FS_RemoveElement
  <2>4. nr_process = Cardinality(E)
    BY DEF IInv, ProcCount
  <2>5. IsFiniteSet(E \ {child}) /\ Cardinality(E \ {child}) \in Nat
    BY <2>2, FS_Subset, FS_CardinalityType
  <2>6. nr_process \in Nat /\ (2 <= MaxProcess => nr_process <= MaxProcess)
    BY <1>t DEF IInv, ProcCount, TypeOK
  <2>7. nr_process' = Cardinality(E \ {child}) /\ nr_process' = nr_process - 1
    BY <2>3, <2>4, <1>1
  <2>8. 2 <= MaxProcess => nr_process' <= MaxProcess
    BY <2>6, <2>7
  <2> QED BY <2>1, <2>5, <2>7, <2>8 DEF ProcCount
<1>2. TypeOK'
  <2> HIDE DEF after
  <2>1. pc' \in [Proc -> Pc]
    BY <1>1, <1>e, <1>t DEF TypeOK, Pc, SchedPc
  <2> QED BY <2>1, <1>1, <1>k, <1>t DEF TypeOK, State
<1>3. RunQueueExact'
  BY <1>1, <1>c, <1>t DEF RunQueueExact, TypeOK
<1>4. PcState'
  <2>1. CASE current = initproc
    BY <2>1, <1>1, <1>c, <1>r, <1>t DEF TypeOK, PcState, InitPc, UserPc, ParkedPc
  <2>2. CASE current # initproc
    BY <2>2, <1>1, <1>c, <1>r, <1>t DEF TypeOK, PcState, InitPc, UserPc, ParkedPc
  <2> QED BY <2>1, <2>2
<1>10. Spaces'
  BY <1>1, <1>c, <1>r, <1>t DEF TypeOK, Spaces
<1>8. InitLast' /\ NoStandstill'
  <2>1. pc'[initproc] # "init_check"
    <3>1. current = initproc => pc'[initproc] = "sched_init"
      BY <1>1, <1>c, <1>t DEF TypeOK
    <3>2. current # initproc => pc'[initproc] = pc[initproc] /\ pc[initproc] \in ParkedPc
      BY <1>1, <1>c, <1>t DEF TypeOK, PcState
    <3> QED BY <3>1, <3>2 DEF ParkedPc
  <2>2. wait_pid'[initproc] = idleproc
    BY <1>1, <1>c, <1>t DEF IInv, InitLast, TypeOK
  <2> QED BY <2>1, <2>2, <1>1, <1>r DEF InitLast, NoStandstill
<1> HIDE DEF after
<1>5. Tree'
  BY <1>1, <1>c, <1>n, <1>t DEF TypeOK, Tree
<1>6. Rooted' /\ Leafed'
  <2>1. \A p \in Proc : parent'[p] = parent[p] \/ parent'[p] = NULL
    BY <1>1, <1>t DEF TypeOK
  <2>2. Rooted'
    BY <2>1 DEF IInv, Rooted
  <2>3. Leafed'
    BY <2>1 DEF IInv, Leafed, Schedulable
  <2> QED BY <2>2, <2>3
<1>9. NoLostWakeup'
  <2> SUFFICES ASSUME NEW p \in Proc, state'[p] = "SLEEPING"
               PROVE  /\ wait_state'[p] = "WT_CHILD"
                      /\ Awaited(p)' # {}
                      /\ \A c \in Awaited(p)' : state'[c] # "ZOMBIE"
    BY DEF NoLostWakeup
  <2>1. state[p] = "SLEEPING" /\ p # current /\ p # child
    BY <1>1, <1>c, <1>r, <1>t DEF TypeOK
  <2>2. Awaited(p)' = Awaited(p)
    BY <2>1, <1>1, <1>c, <1>t DEF TypeOK, Awaited, Children
  <2>3. \A c \in Awaited(p) : state'[c] # "ZOMBIE"
    BY <2>1, <1>1, <1>t DEF TypeOK, NoLostWakeup, Awaited, Children
  <2> QED BY <2>1, <2>2, <2>3, <1>1, <1>t DEF NoLostWakeup
<1>11. NoAssertionFails'
  BY <1>1 DEF IInv, NoAssertionFails
<1> QED BY <1>2, <1>3, <1>4, <1>5, <1>6, <1>8, <1>9, <1>10, <1>11, <1>k DEF IInv

-----------------------------------------------------------------------------
\* schedule() always finds a process: if initproc sleeps, the sleepers have a
\* leaf, and the child that leaf waits for is runnable.
LEMMA SomeoneRunnable ==
    ASSUME IInv
    PROVE  \E p \in Schedulable : state[p] = "RUNNABLE"
<1> USE ProcAssumption
<1> DEFINE S == {p \in Schedulable : state[p] = "SLEEPING"}
<1>t. TypeOK /\ PcState /\ Tree /\ NoLostWakeup /\ Leafed
  BY DEF IInv
<1>1. CASE S = {}
  BY <1>1, <1>t DEF PcState, Schedulable
<1>2. CASE S # {}
  <2>1. PICK p \in S : \A c \in S : parent[c] # p
    BY <1>2, <1>t DEF Leafed
  <2>2. PICK c \in Awaited(p) : state[c] # "ZOMBIE"
    BY <2>1, <1>t DEF NoLostWakeup, Schedulable
  <2>3. c \in Proc /\ parent[c] = p /\ p \in Proc
    BY <2>2 DEF Awaited, Children, Schedulable
  <2>4. c # idleproc /\ state[c] # "UNUSED"
    BY <2>3, <1>t DEF Tree, PcState
  <2>5. c \in Schedulable /\ state[c] # "SLEEPING"
    BY <2>1, <2>3, <2>4 DEF Schedulable
  <2> QED BY <2>2, <2>3, <2>4, <2>5, <1>t DEF TypeOK, State
<1> QED BY <1>1, <1>2

\* schedule() hands the CPU to a queued, hence runnable, process and loads
\* its page table.
LEMMA ScheduleIInv ==
    ASSUME IInv, Schedule
    PROVE  IInv'
<1> USE ProcAssumption
<1>t. TypeOK /\ PcState /\ Spaces /\ Tree /\ NoLostWakeup /\ RunQueueExact
  BY DEF IInv
<1> DEFINE queued == IF state[current] = "RUNNABLE"
                     THEN sched_class_enqueue(rq, current) ELSE rq
           next == PickNext(queued)
<1>1. queued \in RunQueue
      /\ Members(queued) = {p \in Schedulable : state[p] = "RUNNABLE"}
  <2>0. rq \in RunQueue /\ current \notin Members(rq)
    BY <1>t, NotQueued DEF TypeOK
  <2>1. CASE state[current] = "RUNNABLE" /\ current # idleproc
    <3>1. current \in Schedulable /\ queued = Enqueue(rq, current)
      BY <2>1, <1>t DEF TypeOK, Schedulable, sched_class_enqueue
    <3>2. queued \in RunQueue /\ Members(queued) = Members(rq) \cup {current}
      BY <3>1, <2>0, EnqueueFact
    <3> QED BY <3>1, <3>2, <2>1, <1>t DEF RunQueueExact
  <2>2. CASE ~(state[current] = "RUNNABLE" /\ current # idleproc)
    <3>1. queued = rq
      BY <2>2 DEF sched_class_enqueue
    <3> QED BY <3>1, <2>0, <2>2, <1>t DEF RunQueueExact, Schedulable
  <2> QED BY <2>1, <2>2
<1>2. Members(queued) # {}
  BY <1>1, SomeoneRunnable
<1>3. /\ rq' = Dequeue(Picked(queued), next)
      /\ current' = next
      /\ satp' = IF next # current THEN pgdir[next] ELSE satp
      /\ need_resched' = [need_resched EXCEPT ![current] = FALSE]
      /\ pc' = [pc EXCEPT ![current] = Resume(pc[current])]
      /\ UNCHANGED <<state, parent, mm, pgdir, wait_state, wait_pid, flags,
                     nr_process, panic>>
  BY <1>2 DEF Schedule, Requeues, proc_run, Goto, waitVars
<1>4. next \in Schedulable /\ state[next] = "RUNNABLE" /\ next \in Proc
  BY <1>1, <1>2, PickFact DEF Schedulable
<1>5. rq' \in RunQueue /\ Members(rq') = Members(queued) \ {next}
  BY <1>1, <1>2, <1>3, PickFact
<1>s. pc[current] \in SchedPc
  BY DEF Schedule
<1>l. /\ Resume(pc[current]) \in ParkedPc \cap Pc
      /\ current = idleproc => Resume(pc[current]) = "idle"
      /\ current = initproc => Resume(pc[current]) \in {"wait_resumed", "do_wait"}
      /\ current \notin {idleproc, initproc} =>
            Resume(pc[current]) \in {"user", "wait_resumed", "exit_returned"}
      /\ state[current] = "SLEEPING" => Resume(pc[current]) = "wait_resumed"
      /\ Resume(pc[current]) = "exit_returned" <=> pc[current] = "sched_exit"
      /\ Resume(pc[current]) = "user" <=> pc[current] = "sched_trap"
      /\ Resume(pc[current]) = "wait_resumed" <=> pc[current] = "sched_wait"
      /\ Resume(pc[current]) = "do_wait" <=> pc[current] = "sched_init"
  BY <1>s, <1>t DEF Resume, SchedPc, ParkedPc, Pc, TypeOK, PcState, InitPc, UserPc
<1> DEFINE l == Resume(pc[current])
<1> HIDE DEF queued, next, l
<1>6. TypeOK'
  <2>1. satp' \in Proc
    BY <1>3, <1>4, <1>t DEF TypeOK
  <2> QED BY <2>1, <1>3, <1>4, <1>5, <1>l, <1>t DEF TypeOK
<1>7. RunQueueExact'
  BY <1>1, <1>3, <1>5 DEF RunQueueExact
<1>8. PcState'
  <2>1. \A p \in Proc : IF p = current THEN pc'[p] = l ELSE pc'[p] = pc[p]
    BY <1>3, <1>t DEF TypeOK, l
  <2>2. next = current => pc[current] \in {"sched_trap", "sched_init", "sched_idle"}
    BY <1>4, <1>s, <1>t DEF PcState, SchedPc
  <2>3. next # current => pc[next] \in ParkedPc \ {"none", "exit_returned"}
    BY <1>4, <1>t DEF PcState, Schedulable, UserPc, InitPc
  <2>4. pc'[next] \notin {"none", "exit_returned", "sched_wait"}
    BY <2>1, <2>2, <2>3, <1>4, <1>l DEF l, ParkedPc
  <2> QED BY <2>1, <2>4, <1>3, <1>4, <1>l, <1>s, <1>t
          DEF l, PcState, InitPc, UserPc, ParkedPc, SchedPc
<1>9. Tree' /\ Rooted' /\ Leafed'
  BY <1>3 DEF IInv, Tree, Rooted, Leafed
<1>10. InitLast'
  BY <1>3, <1>l, <1>t DEF IInv, InitLast, Children, TypeOK
<1>11. NoLostWakeup'
  BY <1>3 DEF IInv, NoLostWakeup, Awaited, Children
<1>12. Spaces'
  <2>1. \A p \in Proc : IF p = current THEN pc'[p] = l ELSE pc'[p] = pc[p]
    BY <1>3, <1>t DEF TypeOK, l
  <2>2. \A p \in Proc :
          /\ mm'[p] => pgdir'[p] = p /\ state'[p] \in {"RUNNABLE", "SLEEPING"}
          /\ ~mm'[p] => \/ pgdir'[p] = idleproc
                        \/ pc'[p] \in {"do_exit", "sched_exit", "exit_returned"}
          /\ pc'[p] \in {"user", "trap_ret", "sched_trap"} => mm'[p]
          /\ pc'[p] \in {"do_wait", "sched_wait", "wait_resumed"} => mm'[p] \/ p = initproc
    BY <2>1, <1>3, <1>l, <1>s, <1>t DEF l, Spaces, PcState, UserPc, SchedPc
  <2>3. satp' = IF mm'[current'] THEN current' ELSE idleproc
    <3>1. next # current => pc[next] \in ParkedPc \ {"none", "exit_returned"}
      BY <1>4, <1>t DEF PcState, Schedulable, UserPc, InitPc
    <3> QED BY <3>1, <1>3, <1>4, <1>t DEF Spaces, ParkedPc
  <2> QED BY <2>2, <2>3 DEF Spaces
<1>13. ProcCount' /\ NoAssertionFails'
  BY <1>3 DEF IInv, ProcCount, Exists, NoAssertionFails
<1>14. NoStandstill'
  BY <1>3, <1>4 DEF NoStandstill, Schedulable
<1> QED
  BY <1>6, <1>7, <1>8, <1>9, <1>10, <1>11, <1>12, <1>13, <1>14 DEF IInv

-----------------------------------------------------------------------------
\* Every step of the kernel keeps the invariant: one lemma per operation.
LEMMA NextIInv == IInv /\ [Next]_vars => IInv'
<1> SUFFICES ASSUME IInv, [Next]_vars PROVE IInv'
  OBVIOUS
<1>1. CASE Syscall
  BY <1>1, LocalIInv, TickIInv, ForkIInv, KillIInv, ExecIInv DEF Syscall
<1>2. CASE Kernel
  <2>1. CASE Wait
    BY <2>1, LocalIInv, ReapIInv, SleepIInv DEF Wait
  <2> QED BY <2>1, <1>2, LocalIInv, ScheduleIInv, ExitIInv, PanicIInv, ForkIInv,
             ExecIInv, InitCheckIInv DEF Kernel
<1>3. CASE Tick \/ TickKernel
  BY <1>3, TickIInv
<1>4. CASE UserPanic \/ Panicked
  BY <1>4, PanicIInv
<1>5. CASE UNCHANGED vars
  <2>1. UNCHANGED <<current, state, pc, parent, mm, pgdir, satp, wait_state, wait_pid,
                    flags, need_resched, nr_process, rq, panic>>
    BY <1>5 DEF vars
  <2>2. TypeOK' /\ NoAssertionFails'
    BY <2>1 DEF IInv, TypeOK, NoAssertionFails
  <2>3. RunQueueExact' /\ NoLostWakeup' /\ PcState' /\ Tree' /\ Rooted' /\ Leafed'
    BY <2>1 DEF IInv, RunQueueExact, NoLostWakeup, Awaited, Children, PcState, Tree,
                Rooted, Leafed
  <2>4. InitLast' /\ Spaces' /\ ProcCount' /\ NoStandstill'
    BY <2>1 DEF IInv, InitLast, Children, Spaces, ProcCount, Exists, NoStandstill
  <2> QED BY <2>2, <2>3, <2>4 DEF IInv
<1> QED BY <1>1, <1>2, <1>3, <1>4, <1>5 DEF Next

\* The inductive invariant holds in every reachable state of the kernel.
THEOREM Invariance == Spec => []IInv
<1>1. Init => IInv
  BY InitIInv
<1>2. IInv /\ [Next]_vars => IInv'
  BY NextIInv
<1> QED BY <1>1, <1>2, PTL DEF Spec

\* Every variable of proc.c and sched.c keeps a value of its type.
THEOREM TypeCorrect == Spec => []TypeOK
<1>1. IInv => TypeOK
  BY DEF IInv
<1> QED BY <1>1, Invariance, PTL

\* sched.c: the run queue is exactly the runnable processes without the CPU.
THEOREM RunQueueCorrect == Spec => []RunQueueExact
<1>1. IInv => RunQueueExact
  BY DEF IInv
<1> QED BY <1>1, Invariance, PTL

\* do_exit(), do_wait() and do_kill() never lose a wakeup.
THEOREM WakeupCorrect == Spec => []NoLostWakeup
<1>1. IInv => NoLostWakeup
  BY DEF IInv
<1> QED BY <1>1, Invariance, PTL

\* Every process has a living parent.
THEOREM ParentCorrect == Spec => []ParentAlive
<1>1. IInv => ParentAlive
  <2> SUFFICES ASSUME IInv, NEW p \in Schedulable, Exists(p)
               PROVE  parent[p] \in Proc
                      /\ state[parent[p]] \in {"RUNNABLE", "SLEEPING"}
    BY DEF ParentAlive
  <2>1. CASE p = initproc
    BY <2>1, ProcAssumption DEF IInv, Tree, PcState
  <2>2. CASE p # initproc
    BY <2>2 DEF IInv, Tree, Exists, Schedulable
  <2> QED BY <2>1, <2>2
<1> QED BY <1>1, Invariance, PTL

\* A zombie never gets the CPU again: do_exit() does not return.
THEOREM RunnableCorrect == Spec => []OnlyRunnableRuns
<1>1. IInv => OnlyRunnableRuns
  BY DEF IInv, TypeOK, State, PcState, OnlyRunnableRuns, UserPc, InitPc
<1> QED BY <1>1, Invariance, PTL

\* The hart never uses a freed page table.
THEOREM PageTableCorrect == Spec => [](SatpLive /\ NoAddressSpaceLeak)
<1>1. IInv => SatpLive /\ NoAddressSpaceLeak
  BY DEF IInv, TypeOK, Spaces, SatpLive, NoAddressSpaceLeak
<1> QED BY <1>1, Invariance, PTL

\* No assertion of wakeup_proc(), do_fork(), do_wait() and init_main() fails.
THEOREM AssertionsHold == Spec => []NoAssertionFails
<1>1. IInv => NoAssertionFails
  BY DEF IInv
<1> QED BY <1>1, Invariance, PTL

\* nr_process counts the processes and respects MAX_PROCESS.
THEOREM CountCorrect == Spec => []ProcCount
<1>1. IInv => ProcCount
  BY DEF IInv
<1> QED BY <1>1, Invariance, PTL

\* After boot the idle loop is never needed: waiting has no cycle.
THEOREM NeverStandstill == Spec => []NoStandstill
<1>1. IInv => NoStandstill
  BY DEF IInv
<1> QED BY <1>1, Invariance, PTL

\* A process exits itself and is released by its parent.
THEOREM ExitProtocolCorrect == Spec => ExitProtocol
<1>1. IInv /\ [Next]_vars => [ExitStep]_vars
  <2> SUFFICES ASSUME IInv, Next PROVE ExitStep
    OBVIOUS
  <2> USE DEF memVars, waitVars, treeVars, schedVars
  <2>t. TypeOK /\ RunQueueExact
    BY DEF IInv
  <2>1. CASE state' = state
    BY <2>1 DEF ExitStep, Exists
  <2>2. ASSUME NEW v \in Proc, SysKill(v) PROVE ExitStep
    <3>1. state' \in {state, [state EXCEPT ![v] = "RUNNABLE"]}
      BY <2>2 DEF SysKill
    <3> QED BY <3>1, <2>t DEF ExitStep, Exists, TypeOK
  <2>3. ASSUME NEW child \in Proc, SysFork(child) \/ InitMain(child) PROVE ExitStep
    <3>1. state' = [state EXCEPT ![child] = "RUNNABLE"]
      BY <2>3 DEF SysFork, InitMain, do_fork
    <3> QED BY <3>1, <2>t DEF ExitStep, Exists, TypeOK
  <2>4. CASE WaitSleep
    <3>1. state' = [state EXCEPT ![current] = "SLEEPING"]
      BY <2>4 DEF WaitSleep
    <3> QED BY <3>1, <2>t DEF ExitStep, Exists, TypeOK
  <2>5. ASSUME NEW child \in Proc, WaitReap(child) PROVE ExitStep
    <3>1. /\ state' = [state EXCEPT ![child] = "UNUSED"]
          /\ state[child] = "ZOMBIE" /\ parent[child] = current
      BY <2>5 DEF WaitReap, Awaited, Children
    <3> QED BY <3>1, <2>t DEF ExitStep, Exists, TypeOK
  <2>6. CASE DoExit
    <3>1. \A p \in Proc : p # current => state'[p] \in {"RUNNABLE", state[p]}
      BY <2>6 DEF DoExit
    <3>2. state'[current] = "ZOMBIE"
      BY <2>6, <2>t DEF DoExit, TypeOK
    <3> QED BY <3>1, <3>2, <2>t DEF ExitStep, Exists, TypeOK, State
  <2>7. \/ state' = state
        \/ \E c \in Proc : \/ SysKill(c) \/ SysFork(c) \/ InitMain(c) \/ WaitReap(c)
        \/ WaitSleep \/ DoExit
    BY DEF Next, Syscall, Kernel, Wait, CpuIdle, Schedule, TrapReturn, InitExit,
           UserMain, InitCheck, Tick, TickKernel, sched_class_proc_tick, UserPanic,
           Panicked, vars, WaitNoChild, WaitResumed, SysReturn, SysYield, SysExec,
           ExecOk, ExecFail, SysExit, SysWait, SysSetPriority
  <2> QED BY <2>1, <2>2, <2>3, <2>4, <2>5, <2>6, <2>7
<1> QED BY <1>1, Invariance, PTL DEF Spec, ExitProtocol

\* A killed process that has trapped never gets back to user mode, whatever it
\* sleeps for and whoever wakes it.
THEOREM KilledStay == Spec => KilledForGood
<1>1. IInv /\ [Next]_vars => [StopStep]_vars
  <2> SUFFICES ASSUME IInv, Next,
                      NEW p \in Schedulable \ {initproc}, Stopping(p), flags'[p]
               PROVE  Stopping(p)'
    BY DEF StopStep
  <2> USE ProcAssumption DEF memVars, waitVars, treeVars, schedVars
  <2>t. TypeOK /\ PcState /\ p \in Proc /\ p # idleproc
    BY DEF IInv, Schedulable
  <2> DEFINE Kept == {"trap_ret", "do_wait", "sched_wait", "wait_resumed",
                      "do_exit", "sched_exit", "exit_returned"}
  <2>0. SUFFICES pc'[p] \in Kept
    BY DEF Stopping
  <2>s. pc[p] \in Kept /\ flags[p]
    BY DEF Stopping
  <2>1. CASE pc'[p] = pc[p]
    BY <2>1, <2>s
  <2>2. ASSUME NEW child \in Proc, SysFork(child) \/ InitMain(child) PROVE pc'[p] = pc[p]
    <3>1. \E e, a \in Pc : pc' = [pc EXCEPT ![child] = e, ![current] = a]
      BY <2>2 DEF SysFork, InitMain, do_fork, Pc, SchedPc
    <3>2. p # child /\ p # current
      BY <2>2, <2>s, <2>t DEF SysFork, InitMain, do_fork, At, PcState
    <3> QED BY <3>1, <3>2, <2>t DEF TypeOK
  <2>3. ASSUME NEW child \in Proc, WaitReap(child) PROVE pc'[p] \in Kept
    <3>1. /\ flags' = [flags EXCEPT ![child] = FALSE]
          /\ pc' = [pc EXCEPT ![child] = "none",
                              ![current] = IF current = initproc THEN "sched_init"
                                           ELSE "trap_ret"]
      BY <2>3 DEF WaitReap
    <3>2. p # child
      BY <3>1, <2>t DEF TypeOK
    <3> QED BY <3>1, <3>2, <2>s, <2>t DEF TypeOK
  <2>4. CASE Schedule
    <3>1. pc[current] \in SchedPc /\ pc' = [pc EXCEPT ![current] = Resume(pc[current])]
      BY <2>4 DEF Schedule, proc_run, Goto
    <3> QED BY <3>1, <2>s, <2>t DEF TypeOK, SchedPc, Resume
  <2>5. CASE p = current /\ (TrapReturn \/ WaitResumed)
    BY <2>5, <2>s, <2>t DEF TrapReturn, WaitResumed, At, Goto, TypeOK
  <2>6. CASE p = current /\ (WaitSleep \/ WaitNoChild \/ DoExit)
    BY <2>6, <2>t DEF WaitSleep, WaitNoChild, DoExit, Goto, TypeOK
  <2>7. CASE p = current /\ (At("user") \/ At("user_main") \/ At("idle")
                             \/ At("init_main") \/ At("init_check"))
    BY <2>7, <2>s DEF At
  <2>8. \/ pc' = pc
        \/ \E l \in Pc : pc' = [pc EXCEPT ![current] = l]
        \/ \E c \in Proc : SysFork(c) \/ InitMain(c) \/ WaitReap(c)
    BY <2>t DEF Next, Syscall, Kernel, Wait, CpuIdle, Schedule, proc_run, Resume, TrapReturn,
           InitExit, UserMain, InitCheck, Tick, TickKernel, sched_class_proc_tick,
           UserPanic, Panicked, vars, WaitNoChild, WaitResumed, WaitSleep, DoExit,
           SysReturn, SysYield, SysExec, ExecOk, ExecFail, SysExit, SysWait, SysKill,
           SysSetPriority, Goto, Pc, SchedPc
  <2>9. \/ pc' = pc
        \/ At("user") \/ At("user_main") \/ At("idle") \/ At("init_main")
        \/ At("init_check") \/ TrapReturn \/ WaitResumed \/ WaitSleep \/ WaitNoChild
        \/ DoExit \/ Schedule \/ \E c \in Proc : WaitReap(c)
    BY DEF Next, Syscall, Kernel, Wait, CpuIdle, InitExit, UserMain, InitCheck, Tick,
           TickKernel, UserPanic, Panicked, vars, SysReturn, SysYield, SysExec,
           SysExit, SysWait, SysKill, SysSetPriority, SysFork, InitMain
  <2>10. CASE p # current
    BY <2>1, <2>2, <2>3, <2>8, <2>10, <2>t DEF TypeOK
  <2> QED BY <2>1, <2>3, <2>4, <2>5, <2>6, <2>7, <2>9, <2>10
<1> QED BY <1>1, Invariance, PTL DEF Spec, KilledForGood

-----------------------------------------------------------------------------
\* The slices, on top of IInv.  A step that leaves the queue, the CPU and a
\* pending need_resched alone.
LEMMA SliceKept ==
    ASSUME SliceExpires, UNCHANGED <<current, rq>>,
           need_resched[current] => need_resched'[current]
    PROVE  SliceExpires'
BY DEF SliceExpires, Fresh

\* A step that changes the queue, but no slices and no members.
LEMMA SliceSame ==
    ASSUME IInv, SliceExpires, UNCHANGED <<current, need_resched>>,
           Members(rq') = Members(rq), SameSlices(Schedulable, rq, rq')
    PROVE  SliceExpires'
<1>1. Members(rq) \subseteq Schedulable /\ current \in Proc
  BY SchedClassContract DEF IInv, TypeOK
<1> QED BY <1>1 DEF SliceExpires, Fresh, SameSlices, Schedulable

\* enqueue() of a process that does not have the CPU.
LEMMA EnqueueSlice ==
    ASSUME NEW q \in RunQueue, Fresh(q), NEW p \in Schedulable \ Members(q),
           NEW r, r = Enqueue(q, p)
    PROVE  /\ r \in RunQueue /\ Members(r) = Members(q) \cup {p}
           /\ Fresh(r) /\ SameSlices(Schedulable \ {p}, q, r)
<1>1. r \in RunQueue /\ Members(r) = Members(q) \cup {p}
  BY EnqueueFact
<1>2. ~Expired(r, p) /\ SameSlices(Schedulable \ {p}, q, r)
  BY SliceContract
<1>3. Members(q) \subseteq Schedulable
  BY SchedClassContract
<1> QED BY <1>1, <1>2, <1>3 DEF Fresh, SameSlices

\* wakeup_proc() of a process that is not queued, if it is woken.
LEMMA WakeupSlice ==
    ASSUME IInv, NEW q \in RunQueue, Fresh(q), NEW p \in Schedulable,
           NEW w \in BOOLEAN, w /\ state[p] # "RUNNABLE" => p \notin Members(q),
           NEW r, r = wakeup_rq(q, p, w)
    PROVE  /\ r \in RunQueue /\ Fresh(r)
           /\ Members(r) \subseteq Members(q) \cup {p}
           /\ current # idleproc => (Expired(r, current) <=> Expired(q, current))
<1>1. CASE w /\ state[p] # "RUNNABLE" /\ p # current
  <2>1. r = Enqueue(q, p) /\ p \in Schedulable \ Members(q)
    BY <1>1 DEF wakeup_rq, sched_class_enqueue, Schedulable
  <2>2. r \in RunQueue /\ Members(r) = Members(q) \cup {p}
        /\ Fresh(r) /\ SameSlices(Schedulable \ {p}, q, r)
    BY <2>1, EnqueueSlice
  <2>3. current # idleproc => current \in Schedulable \ {p}
    BY <1>1 DEF IInv, TypeOK, Schedulable
  <2> QED BY <2>2, <2>3 DEF SameSlices
<1>2. CASE ~(w /\ state[p] # "RUNNABLE" /\ p # current)
  BY <1>2 DEF wakeup_rq
<1> QED BY <1>1, <1>2

\* The queue and what is expired of the process that keeps the CPU.
LEMMA SliceWoken ==
    ASSUME SliceExpires, UNCHANGED <<current, need_resched>>, Fresh(rq'),
           current # idleproc => (Expired(rq', current) <=> Expired(rq, current))
    PROVE  SliceExpires'
BY DEF SliceExpires, Fresh

\* proc_tick() takes the last tick off a slice and asks for schedule().
LEMMA TickSlices ==
    ASSUME IInv, SliceExpires, sched_class_proc_tick
    PROVE  SliceExpires'
<1>t. rq \in RunQueue /\ current \in Proc /\ need_resched \in [Proc -> BOOLEAN]
      /\ current \notin Members(rq) /\ Members(rq) \subseteq Schedulable
      /\ current' = current
  BY NotQueued, SchedClassContract DEF IInv, TypeOK, sched_class_proc_tick
<1>1. CASE current = idleproc
  <2>1. rq' = rq
    BY <1>1 DEF sched_class_proc_tick
  <2> QED BY <1>1, <1>t, <2>1 DEF SliceExpires, Fresh
<1>2. CASE current # idleproc
  <2>1. current \in Schedulable \ Members(rq)
    BY <1>2, <1>t DEF Schedulable
  <2>2. rq' = ProcTick(rq, current)
        /\ need_resched' = [need_resched EXCEPT
                              ![current] = @ \/ TickResched(rq, current)]
    BY <1>2 DEF sched_class_proc_tick
  <2>3. /\ Members(rq') = Members(rq)
        /\ Expired(rq', current) => TickResched(rq, current)
        /\ SameSlices(Schedulable \ {current}, rq, rq')
    BY <1>t, <2>1, <2>2, TickFact, SliceContract
  <2>4. TickResched(rq, current) => need_resched'[current]
    BY <2>2, <1>t
  <2>5. Fresh(rq')
    BY <1>t, <2>3 DEF SliceExpires, Fresh, SameSlices
  <2> QED BY <1>t, <2>3, <2>4, <2>5 DEF SliceExpires, Fresh
<1> QED BY <1>1, <1>2

\* do_kill() may put a sleeper in the queue.
LEMMA KillSlices ==
    ASSUME IInv, SliceExpires, NEW v \in Proc, SysKill(v)
    PROVE  SliceExpires'
<1> DEFINE w == wait_state[v] = "WT_CHILD"
<1>1. rq' = wakeup_rq(rq, v, w) /\ v \in Schedulable
      /\ UNCHANGED <<current, need_resched>>
  BY DEF SysKill, Schedulable
<1>2. rq \in RunQueue /\ Fresh(rq) /\ (state[v] # "RUNNABLE" => v \notin Members(rq))
  BY NotQueued DEF IInv, TypeOK, SliceExpires
<1>3. w \in BOOLEAN
  OBVIOUS
<1> HIDE DEF w
<1> QED BY <1>1, <1>2, <1>3, WakeupSlice, SliceWoken

\* do_fork() queues a new process, with a full slice.
LEMMA ForkSlices ==
    ASSUME IInv, SliceExpires, NEW child \in Proc, SysFork(child) \/ InitMain(child)
    PROVE  SliceExpires'
<1> USE ProcAssumption
<1> DEFINE q == AllocProc(rq, child)
<1>1. /\ rq' = wakeup_rq(q, child, TRUE) /\ state[child] = "UNUSED"
      /\ UNCHANGED <<current, need_resched>>
  BY DEF SysFork, InitMain, do_fork
<1>2. /\ rq \in RunQueue /\ current \in Proc
      /\ child \in Schedulable \ Members(rq) /\ Members(rq) \subseteq Schedulable
  BY <1>1, NotQueued, SchedClassContract DEF IInv, TypeOK, PcState, Schedulable
<1>3. child # current
  BY <1>1 DEF IInv, TypeOK, PcState, InitPc, SysFork, InitMain, At
<1>4. q \in RunQueue /\ Members(q) = Members(rq)
  BY <1>2, AllocFact
<1>5. SameSlices(Schedulable \ {child}, rq, q)
  BY <1>2, SliceContract
<1> HIDE DEF q
<1>6. Fresh(q)
  BY <1>2, <1>4, <1>5 DEF SliceExpires, Fresh, SameSlices
<1>7. current # idleproc => (Expired(q, current) <=> Expired(rq, current))
  BY <1>2, <1>3, <1>5 DEF SameSlices, Schedulable
<1>8. Fresh(rq')
      /\ (current # idleproc => (Expired(rq', current) <=> Expired(q, current)))
  BY <1>1, <1>2, <1>4, <1>6, WakeupSlice
<1> QED BY <1>1, <1>7, <1>8, SliceWoken

\* do_exit() may put the parent and initproc in the queue.
LEMMA ExitSlices ==
    ASSUME IInv, SliceExpires, DoExit
    PROVE  SliceExpires'
<1> USE ProcAssumption
<1> DEFINE par == parent[current]
           q == wakeup_rq(rq, par, WakesParent)
<1>1. rq' = wakeup_rq(q, initproc, WakesInit) /\ UNCHANGED <<current, need_resched>>
  BY DEF DoExit
<1>2. rq \in RunQueue /\ Fresh(rq) /\ initproc \in Schedulable
  BY DEF IInv, TypeOK, SliceExpires, Schedulable
<1>3. par \in Schedulable
  BY DEF DoExit, At, IInv, TypeOK, PcState, Tree
<1>4. \A p \in Schedulable : state[p] # "RUNNABLE" => p \notin Members(rq)
  BY DEF IInv, RunQueueExact
<1>5. WakesParent \in BOOLEAN /\ WakesInit \in BOOLEAN
  BY DEF WakesParent, WakesInit
<1>6. WakesInit => par # initproc
  BY DEF WakesInit, WakesParent
<1>7. /\ q \in RunQueue /\ Fresh(q) /\ Members(q) \subseteq Members(rq) \cup {par}
      /\ current # idleproc => (Expired(q, current) <=> Expired(rq, current))
  BY <1>2, <1>3, <1>4, <1>5, WakeupSlice
<1> HIDE DEF q, par
<1>8. Fresh(rq')
      /\ (current # idleproc => (Expired(rq', current) <=> Expired(q, current)))
  BY <1>1, <1>2, <1>4, <1>5, <1>6, <1>7, WakeupSlice
<1> QED BY <1>1, <1>7, <1>8, SliceWoken

\* schedule() fills the slice of the process it requeues and gives the CPU to
\* one that has a slice.
LEMMA ScheduleSlices ==
    ASSUME IInv, SliceExpires, Schedule
    PROVE  SliceExpires'
<1> DEFINE queued == IF Requeues THEN sched_class_enqueue(rq, current) ELSE rq
           next == IF Members(queued) = {} THEN idleproc ELSE PickNext(queued)
<1>t. rq \in RunQueue /\ current \in Proc /\ current \notin Members(rq) /\ Fresh(rq)
  BY NotQueued DEF IInv, TypeOK, SliceExpires
<1>1. queued \in RunQueue /\ Fresh(queued)
  <2>1. CASE Requeues /\ current # idleproc
    <3>1. queued = Enqueue(rq, current) /\ current \in Schedulable \ Members(rq)
      BY <2>1, <1>t DEF sched_class_enqueue, Schedulable
    <3> QED BY <3>1, <1>t, EnqueueSlice
  <2>2. CASE ~(Requeues /\ current # idleproc)
    BY <2>2, <1>t DEF sched_class_enqueue
  <2> QED BY <2>1, <2>2
<1>2. /\ rq' = IF Members(queued) = {} THEN queued ELSE Dequeue(Picked(queued), next)
      /\ current' = next
  BY DEF Schedule, proc_run
<1> HIDE DEF queued
<1>3. CASE Members(queued) = {}
  BY <1>1, <1>2, <1>3 DEF SliceExpires, Fresh
<1>4. CASE Members(queued) # {}
  <2>1. /\ Picked(queued) \in RunQueue /\ Members(Picked(queued)) = Members(queued)
        /\ next \in Members(queued) /\ Members(queued) \subseteq Schedulable
    BY <1>1, <1>4, SchedClassContract
  <2>2. Members(rq') = Members(queued) \ {next}
    BY <1>1, <1>2, <1>4, PickFact
  <2>3. SameSlices(Schedulable, queued, Picked(queued))
    BY <1>1, <1>4, SliceContract
  <2>4. SameSlices(Schedulable, Picked(queued), rq')
    <3>1. rq' = Dequeue(Picked(queued), next)
      BY <1>2, <1>4
    <3> HIDE DEF next
    <3> QED BY <2>1, <3>1, SliceContract
  <2>5. \A p \in Members(queued) : ~Expired(rq', p)
    BY <1>1, <2>1, <2>3, <2>4 DEF Fresh, SameSlices
  <2> QED BY <1>2, <2>1, <2>2, <2>5 DEF SliceExpires, Fresh
<1> QED BY <1>3, <1>4

\* proc_init() queues initproc with a full slice; idleproc has the CPU.
LEMMA InitSlices == Init => SliceExpires
<1> SUFFICES ASSUME Init PROVE SliceExpires
  OBVIOUS
<1>1. PICK empty \in InitRqs : rq = Enqueue(AllocProc(empty, initproc), initproc)
  BY DEF Init
<1> DEFINE q == AllocProc(empty, initproc)
<1>2. initproc \in Schedulable /\ empty \in RunQueue /\ Members(empty) = {}
  BY ProcAssumption, SchedClassContract DEF Schedulable
<1>3. q \in RunQueue /\ Members(q) = {}
  BY <1>2, AllocFact
<1>4. Fresh(q) /\ rq = Enqueue(q, initproc)
  BY <1>1, <1>3 DEF Fresh
<1> HIDE DEF q
<1>5. Fresh(rq)
  BY <1>2, <1>3, <1>4, EnqueueSlice
<1> QED BY <1>5 DEF Init, SliceExpires

\* Every step keeps what SliceExpires says.
LEMMA NextSlices == IInv /\ SliceExpires /\ [Next]_vars => SliceExpires'
<1> SUFFICES ASSUME IInv, SliceExpires, [Next]_vars PROVE SliceExpires'
  OBVIOUS
<1> USE DEF schedVars
<1>t. current \in Proc /\ rq \in RunQueue /\ need_resched \in [Proc -> BOOLEAN]
      /\ current \notin Members(rq)
  BY NotQueued DEF IInv, TypeOK
<1>1. CASE Tick \/ TickKernel
  BY <1>1, TickSlices DEF Tick, TickKernel
<1>2. ASSUME NEW v \in Proc, SysKill(v) PROVE SliceExpires'
  BY <1>2, KillSlices
<1>3. ASSUME NEW child \in Proc, SysFork(child) \/ InitMain(child) PROVE SliceExpires'
  BY <1>3, ForkSlices
<1>4. CASE DoExit
  BY <1>4, ExitSlices
<1>5. CASE Schedule
  BY <1>5, ScheduleSlices
<1>6. ASSUME NEW v \in Priority, SysSetPriority(v) PROVE SliceExpires'
  <2>1. rq' = SetPriority(rq, current, v) /\ UNCHANGED <<current, need_resched>>
    BY <1>6 DEF SysSetPriority
  <2>2. current \in Schedulable \ Members(rq)
    BY <1>6, <1>t, ProcAssumption DEF SysSetPriority, At, IInv, PcState, Schedulable
  <2>3. Members(rq') = Members(rq)
    BY <1>t, <2>1, <2>2, SchedClassContract
  <2>4. SameSlices(Schedulable, rq, rq')
    BY <1>t, <2>1, <2>2, SliceContract
  <2> QED BY <2>1, <2>3, <2>4, SliceSame
<1>7. CASE SysYield
  <2>1. UNCHANGED <<current, rq>> /\ need_resched'[current]
    BY <1>7, <1>t DEF SysYield
  <2> QED BY <2>1, SliceKept
<1>8. ASSUME NEW child \in Proc, WaitReap(child) PROVE SliceExpires'
  <2>1. UNCHANGED <<current, rq>> /\ need_resched' = [need_resched EXCEPT ![child] = FALSE]
    BY <1>8 DEF WaitReap
  <2>2. child # current
    BY <1>8 DEF WaitReap, At, IInv, TypeOK, PcState
  <2>3. need_resched'[current] = need_resched[current]
    BY <2>1, <2>2, <1>t
  <2> QED BY <2>1, <2>3, SliceKept
<1>9. CASE UNCHANGED <<current, need_resched, rq>>
  BY <1>9, SliceKept
<1>10. \/ Tick \/ TickKernel \/ DoExit \/ Schedule \/ SysYield
       \/ \E c \in Proc : SysKill(c) \/ SysFork(c) \/ InitMain(c) \/ WaitReap(c)
       \/ \E v \in Priority : SysSetPriority(v)
       \/ UNCHANGED <<current, need_resched, rq>>
  BY DEF Next, Syscall, Kernel, Wait, CpuIdle, TrapReturn, InitExit,
         UserMain, InitCheck, UserPanic, Panicked, vars, WaitSleep, WaitNoChild,
         WaitResumed, SysReturn, SysExec, ExecOk, ExecFail, SysExit, SysWait
<1> QED BY <1>1, <1>2, <1>3, <1>4, <1>5, <1>6, <1>7, <1>8, <1>9, <1>10

\* Under every class that keeps the two contracts no preemption is lost.
THEOREM SlicesCorrect == Spec => []SliceExpires
<1>1. IInv /\ SliceExpires /\ [Next]_vars => SliceExpires'
  BY NextSlices
<1> QED BY <1>1, InitSlices, Invariance, PTL DEF Spec
=============================================================================
