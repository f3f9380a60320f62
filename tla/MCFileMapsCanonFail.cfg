\* As MCFileMaps.cfg, with the symbol table's canonicalisation allowed to
\* fail (a corrupt or truncated symbol table in one of the mapped files).
\* Not a run of the project: it reproduces the double free of
\* __init_bfd_filemap's error path.
CONSTANTS
    Callers = {w, u1, u2}
    N = 3
    MaxSessions = 6
    MapResults = {"ok"}
    BfdResults = {"ok", "canonfail"}
SYMMETRY CallerSymmetry
SPECIFICATION Spec
INVARIANT NoUndefinedBehaviour
