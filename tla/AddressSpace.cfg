\* Two processes, and memory for one and a half of the largest ones.
SPECIFICATION FairSpec
CONSTANTS
    NULL = NULL
    init1 = init1
    child2 = child2
    Space = {init1, child2}
    user_main = init1
    NPage = 16
    NEntry = 2
    PGSIZE = 2
    UserBase = 2
    UserTop = 16
    WordSize = 24
    StackSize = 4
    StackMapped = 1
    Written = 99
    Programs <- AllPrograms
    StoreAddr = {6}
    Checks <- SomeChecks
    MemSize = 5
    CharSet = {0, 1, 2}
INVARIANTS
    PagesExact
    LossBounded
    AreasExact
    FindVmaExact
    MemCheckExact
    LibraryExact
PROPERTIES
    MemoryCorrect
    CallReturns
