\* Four pages, all of which may be handed out.
SPECIFICATION Spec
CONSTANTS
    NPage = 4
    NULL = NULL
INVARIANT
    NoDoubleAlloc
