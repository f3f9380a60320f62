\* The registry without the worker: calls of two threads interleave.
CONSTANTS
    Threads = {t1, t2}
    Worker = w
    Bufs = {b1, b2, b3}
    Sizes = {5}
    FIFO_SIZE = 2
    MaxCalls = 3
    MaxChecks = 0
    MaxBadWrites = 1
    RegisterMayFail = FALSE
    UnregisterMayFail = FALSE
    NoRec = NoRec
    NoBuf = NoBuf
SPECIFICATION Spec
SYMMETRY MCSymmetry
INVARIANTS TypeOK CountersMatchRegistry NoFalseAlarm ReleasedUntracked
PROPERTIES RetentionBound
