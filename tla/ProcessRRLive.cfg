\* Liveness: initproc and two user processes, slices of two ticks.
SPECIFICATION FairSpec
CONSTANTS
    p0 = p0
    p1 = p1
    a = a
    b = b
    Proc = {p0, p1, a, b}
    idleproc = p0
    initproc = p1
    NULL = NULL
    MaxProcess = 4
    MaxTimeSlice = 2
    Priority = {1}
    RunQueue <- RRQueues
    InitRqs <- RRInits
    Members <- RR_members
    AllocProc <- RR_alloc
    Enqueue <- RR_enqueue
    Dequeue <- RR_dequeue
    PickNext <- RR_pick_next
    Picked <- RR_picked
    ProcTick <- RR_proc_tick
    TickResched <- RR_tick_resched
    SetPriority <- RR_set_priority
PROPERTIES
    NoStarvation
    WaitReturns
    KilledStops
