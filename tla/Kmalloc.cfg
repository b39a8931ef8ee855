\* Four pages of four units.  Small blocks of two and three units, a size in
\* the gap below a page, one page, and two pages and a bit.
SPECIFICATION Spec
CONSTANTS
    NPage = 4
    PAGE_SIZE = 8
    SLOB_UNIT = 2
    BigblockSize = 3
    Sizes = {1, 3, 5, 7, 17}
    MaxOrder = 2
    NULL = NULL
INVARIANTS
    HeapExact
    Served
    GrowsOnce
PROPERTY
    CallReturns
