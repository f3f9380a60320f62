\* A metadata pool that cannot map pages, no worker: the failure path of
\* mc_unregister_memblk leaves free() reading buf_to_be_freed uninitialized.
CONSTANTS
    Threads = {t1, t2}
    Worker = w
    Bufs = {b1, b2, b3}
    Sizes = {1}
    FIFO_SIZE = 1
    MaxCalls = 2
    MaxChecks = 0
    MaxBadWrites = 1
    RegisterMayFail = FALSE
    UnregisterMayFail = TRUE
    NoRec = NoRec
    NoBuf = NoBuf
SPECIFICATION Spec
SYMMETRY MCSymmetry
INVARIANT ReleasedUntracked
