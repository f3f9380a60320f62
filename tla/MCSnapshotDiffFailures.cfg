\* every command, with the record, sort-buffer and call-stack pools all able to fail
CONSTANTS
    Ptrs = {p1, p2}
    Sizes = {1, 2}
    CS = {c1, c2}
    NoCS = NoCS
    NoReport = NoReport
    Commands = {"create", "destroy", "compare", "compare_cs", "list", "list_cs"}
    MaxCmds = 4
    MaxUserOps = 4
    AllocMayFail = TRUE
    SortMayFail = TRUE
    CallstackMayFail = TRUE
SYMMETRY MCSymmetry
SPECIFICATION Spec
INVARIANT TypeOK
