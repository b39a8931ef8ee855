\* Strides drift apart: a sleeper keeps its stride and a new process has 0.
SPECIFICATION OrderSpec
CONSTANTS
    Proc = {0, 1, 2, 3}
    idleproc = 0
    initproc = 1
    NULL = NULL
    Nil = Nil
    MaxProcess = 4
    MaxTimeSlice = 1
    BigStride = 1
    Priority = {1, 2}
    Classes = {"stride"}
    RunQueue <- ClassQueues
    InitRqs <- ClassInits
    Members <- class_members
    AllocProc <- class_alloc
    Enqueue <- class_enqueue
    Dequeue <- class_dequeue
    PickNext <- class_pick_next
    Picked <- class_picked
    ProcTick <- class_proc_tick
    TickResched <- class_tick_resched
    SetPriority <- bounded_set_priority
    Expired <- class_expired
INVARIANT
    PicksMinimum
