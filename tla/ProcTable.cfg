\* Six pids, of which up to five are in use: the counter wraps around often.
SPECIFICATION TableSpec
CONSTANTS
    MaxPid = 7
    MaxProcess = 6
    NULL = NULL
INVARIANTS
    UniquePid
    PidInv
    LinksExact
PROPERTY
    CallReturns
