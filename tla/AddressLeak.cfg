\* The level 0 directory of a program like user/testbss.c is freed with valid
\* entries.
SPECIFICATION IdealSpec
CONSTANTS
    NULL = NULL
    init1 = init1
    child2 = child2
    Space = {init1, child2}
    user_main = init1
    NPage = 16
    NEntry = 2
    PGSIZE = 2
    UserBase = 2
    UserTop = 16
    WordSize = 24
    StackSize = 4
    StackMapped = 1
    Written = 99
    Programs <- AllPrograms
    StoreAddr = {6}
    MemSize = 1
    CharSet = {0}
    Checks <- SomeChecks
PROPERTY
    DirectoryFreedEmpty
