\* both compare commands, snapshot create/destroy and the flat listing; no pool failures
CONSTANTS
    Ptrs = {p1, p2, p3}
    Sizes = {1, 2}
    CS = {c1, c2}
    NoCS = NoCS
    NoReport = NoReport
    Commands = {"create", "destroy", "compare", "compare_cs", "list"}
    MaxCmds = 4
    MaxUserOps = 5
    AllocMayFail = FALSE
    SortMayFail = FALSE
    CallstackMayFail = FALSE
SYMMETRY MCSymmetry
SPECIFICATION Spec
INVARIANTS DiffMatchesRegistry GroupsClearBetweenPasses
