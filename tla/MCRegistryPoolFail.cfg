\* Both metadata pools may fail, and a check-all sweep runs after a write
\* past a buffer: every call still returns.  No symmetry: the run checks a
\* liveness property.  LayoutArmed checks the entry points' buffer layout
\* (BufferLayout) once, as a constant-level invariant.
CONSTANTS
    Threads = {t1, t2}
    Worker = w
    Bufs = {b1}
    Sizes = {1}
    FIFO_SIZE = 1
    MaxCalls = 2
    MaxChecks = 1
    MaxBadWrites = 1
    RegisterMayFail = TRUE
    UnregisterMayFail = TRUE
    NoRec = NoRec
    NoBuf = NoBuf
SPECIFICATION Spec
INVARIANT LayoutArmed
PROPERTY CallsReturn
