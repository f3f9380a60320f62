\* Five one-page buffers: a merge frees the node pageregion_cand points to,
\* and the next search starts from it.
CONSTANTS
    PAGE = 1
    Addrs = {0, 1, 2, 3, 4, 5, 6}
    BufSizes = {1, 2}
    MaxNodes = 5
    MaxBlocks = 5
    AllocMayFail = FALSE
SPECIFICATION Spec
INVARIANT UsageMatchesPages
