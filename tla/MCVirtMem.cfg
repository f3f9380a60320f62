\* One mc_get_virtual_memory_usage call over up to five buffers in seven
\* two-unit pages (two buffers may share a page), registered in every
\* order, with the metadata pools allowed to fail.  The bound reaches the
\* stale pageregion_cand of the stale_pageregion_cand run.
CONSTANTS
    PAGE = 2
    Addrs = {0, 1, 2, 3, 4, 5, 6, 7, 8, 9, 10, 11, 12, 13}
    BufSizes = {1}
    MaxNodes = 5
    MaxBlocks = 5
    AllocMayFail = TRUE
SPECIFICATION Spec
INVARIANTS ListWellFormed RegionsWithinRegistered
