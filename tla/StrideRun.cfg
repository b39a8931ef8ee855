\* Three processes, strides modulo 8; priority 3 makes a pass of 0.
SPECIFICATION NearSpec
SYMMETRY Procs
CONSTANTS
    a = a
    b = b
    c = c
    P = {a, b, c}
    Nil = Nil
    BigStride = 2
    MaxTimeSlice = 1
    Priority = {0, 2, 3}
INVARIANT
    PoolCorrect
PROPERTY
    StrideCorrect
