\* the by-call-stack listing after a free, no pool failures (reproduces
\* the NULL dereference of __print_all_memblk_by_callstack; not a run)
CONSTANTS
    Ptrs = {p1, p2}
    Sizes = {1, 2}
    CS = {c1, c2}
    NoCS = NoCS
    NoReport = NoReport
    Commands = {"list_cs"}
    MaxCmds = 1
    MaxUserOps = 2
    AllocMayFail = FALSE
    SortMayFail = FALSE
    CallstackMayFail = FALSE
SYMMETRY MCSymmetry
SPECIFICATION Spec
INVARIANT NoNullDeref
