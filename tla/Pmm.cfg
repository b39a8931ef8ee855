\* Five pages, of which the last one stays free.
SPECIFICATION SpareSpec
CONSTANTS
    NPage = 5
    NULL = NULL
INVARIANTS
    FreeListExact
PROPERTIES
    FirstFitCorrect
    CallReturns
