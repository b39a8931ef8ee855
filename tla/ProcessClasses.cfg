\* Safety under the stride, RR, FIFO, HPF and SJF classes: initproc and two user
\* processes; strides modulo 4, as if BIG_STRIDE were 1.
SPECIFICATION Spec
CONSTANTS
    Proc = {0, 1, 2, 3}
    idleproc = 0
    initproc = 1
    NULL = NULL
    Nil = Nil
    MaxProcess = 4
    MaxTimeSlice = 1
    BigStride = 1
    Priority = {1, 2}
    Classes = {"stride", "RR", "FIFO", "HPF", "SJF"}
    RunQueue <- ClassQueues
    InitRqs <- ClassInits
    Members <- class_members
    AllocProc <- class_alloc
    Enqueue <- class_enqueue
    Dequeue <- class_dequeue
    PickNext <- class_pick_next
    Picked <- class_picked
    ProcTick <- class_proc_tick
    TickResched <- class_tick_resched
    SetPriority <- bounded_set_priority
    Expired <- class_expired
INVARIANTS
    IInv
    SliceExpires
    PicksFirst
