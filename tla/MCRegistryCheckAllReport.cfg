\* One check-all sweep racing the calls: the sweep reads records that a
\* concurrent free has already taken out of the live table.
CONSTANTS
    Threads = {t1, t2}
    Worker = w
    Bufs = {b1, b2, b3}
    Sizes = {1}
    FIFO_SIZE = 1
    MaxCalls = 2
    MaxChecks = 1
    MaxBadWrites = 1
    RegisterMayFail = FALSE
    UnregisterMayFail = FALSE
    NoRec = NoRec
    NoBuf = NoBuf
SPECIFICATION Spec
SYMMETRY MCSymmetry
INVARIANT NoFalseAlarm
