\* Three processes, strides modulo 8; priority 3 makes a pass of 0.
SPECIFICATION CalmSpec
CONSTANTS
    a = a
    b = b
    c = c
    P = {a, b, c}
    NoProc = NoProc
    BigStride = 2
    Priority = {0, 2, 3}
INVARIANTS
    Window
    FairShare
    ShareInv
PROPERTY
    NoStarvation
