\* Three threads printing call stacks (the worker running a print or check
\* command, two user threads reporting illegal frees), up to three
\* executable mappings (recounted at each rebuild) and six sessions, so
\* that sessions overlap in every order and a table is rebuilt after the
\* last holder leaves.  mmap succeeds; BFD may
\* find no symbol table.
CONSTANTS
    Callers = {w, u1, u2}
    N = 3
    MaxSessions = 6
    MapResults = {"ok"}
    BfdResults = {"ok", "nosymtab"}
SYMMETRY CallerSymmetry
SPECIFICATION Spec
INVARIANT NoUndefinedBehaviour
