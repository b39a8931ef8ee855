\* Safety: initproc and four user pids, three of them in use at a time.
SPECIFICATION Spec
SYMMETRY Pids
CONSTANTS
    p0 = p0
    p1 = p1
    a = a
    b = b
    c = c
    d = d
    Proc = {p0, p1, a, b, c, d}
    idleproc = p0
    initproc = p1
    NULL = NULL
    MaxProcess = 5
    MaxTimeSlice = 1
    Priority = {1}
    RunQueue <- RRQueues
    InitRqs <- RRInits
    Members <- RR_members
    AllocProc <- RR_alloc
    Enqueue <- RR_enqueue
    Dequeue <- RR_dequeue
    PickNext <- RR_pick_next
    Picked <- RR_picked
    ProcTick <- RR_proc_tick
    TickResched <- RR_tick_resched
    SetPriority <- RR_set_priority
INVARIANTS
    RunQueueExact
    NoLostWakeup
    ParentAlive
    OnlyRunnableRuns
    SatpLive
    NoAssertionFails
    ProcCount
    NoStandstill
PROPERTY
    ExitProtocol
