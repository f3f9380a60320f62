------------------------------ MODULE FileMaps ------------------------------
(***************************************************************************)
(* The executable-mapping table of memchk_filemap.c and the symbol lookup  *)
(* of memchk_symbol.c that reads it.                                      *)
(*                                                                         *)
(* Every report that prints a call stack opens a session:                 *)
(*   mc_init_filemaps_from_procmap ; mc_get_symbol per frame ;            *)
(*   mc_term_filemaps                                                     *)
(* (manage_memblk.c 79-107, buffer.c 73-87 and 119-138, manage 345-353    *)
(* and 428-436, snapshot.c 158-176 and 203-270).  Each call is made under *)
(* mc_disable_hook, which holds the global recursive hook mutex, so each  *)
(* call is one atomic step; the sessions of different threads interleave  *)
(* between calls.  The first session builds the table (one entry per      *)
(* executable line of /proc/self/maps, in an mmap'ed array), later ones   *)
(* only count themselves in __usage_cnt, and the last to leave closes the *)
(* entries' BFD handles, frees their symbol tables and unmaps the array.  *)
(* A lookup opens the entry's BFD handle and reads its symbol table the   *)
(* first time an address falls in it, and hands the symbols to BFD.       *)
(*                                                                         *)
(* No caller checks the result of mc_init_filemaps_from_procmap.          *)
(* Undefined behaviour (reading a table that is not mapped, a NULL BFD    *)
(* handle, a freed symbol table, a second free) is recorded in ub; the    *)
(* process is then taken to be gone and nothing more happens.            *)
(***************************************************************************)
EXTENDS Integers, FiniteSets

CONSTANTS
    Callers,      \* threads that print call stacks
    N,            \* most executable lines /proc/self/maps holds
    MaxSessions,  \* sessions opened in a behaviour
    MapResults,   \* outcomes of the mmap of __alloc_filemaps: "ok", "fail"
    BfdResults    \* outcomes of __init_bfd_filemap, see BfdOutcome

ASSUME N \in Nat \ {0} /\ MaxSessions \in Nat
ASSUME MapResults \subseteq {"ok", "fail"} /\ MapResults # {}
ASSUME BfdResults \subseteq {"ok", "nosymtab", "canonfail", "openfail"} /\ BfdResults # {}

Entries == 1..N

VARIABLES
    usage,      \* __usage_cnt
    cnt,        \* __cnt
    table,      \* __filemap: "null", "mapped", "failed" (MAP_FAILED), "unmapped"
    abfd,       \* __filemap[i].abfd # NULL
    symbols,    \* __filemap[i].symbols: "null", "live" or "freed" (dangling)
    inSession,  \* the caller is between its init and its term
    sessions,   \* sessions opened so far
    ub          \* "none" or the undefined behaviour the process met

vars == <<usage, cnt, table, abfd, symbols, inSession, sessions, ub>>

NoEntries == [i \in Entries |-> FALSE]
NullSymbols == [i \in Entries |-> "null"]

TypeOK ==
    /\ usage \in -MaxSessions..MaxSessions
    /\ cnt \in 0..N
    /\ table \in {"null", "mapped", "failed", "unmapped"}
    /\ abfd \in [Entries -> BOOLEAN]
    /\ symbols \in [Entries -> {"null", "live", "freed"}]
    /\ inSession \in [Callers -> BOOLEAN]
    /\ sessions \in 0..MaxSessions
    /\ ub \in {"none", "deref", "uaf", "doublefree"}

Init ==
    /\ usage = 0 /\ cnt = 0 /\ table = "null"
    /\ abfd = NoEntries /\ symbols = NullSymbols
    /\ inSession = [c \in Callers |-> FALSE]
    /\ sessions = 0
    /\ ub = "none"

\* The entries of __filemap can be read: the loops over 0..__cnt-1 touch
\* the array only when __cnt > 0.
Readable == cnt = 0 \/ table = "mapped"

-----------------------------------------------------------------------------
(* __init_filemaps under FILEMAP_LOCK, called from                        *)
(* mc_init_filemaps_from_procmap.  A table in use is shared; otherwise     *)
(* __cnt is recounted, the array is mmap'ed and every entry starts with    *)
(* abfd = symbols = NULL (__add_filemap); __cnt is what the maps hold now *)
(* (libraries come and go between rebuilds).  A failed mmap returns -1    *)
(* before __usage_cnt++ and leaves __filemap = MAP_FAILED, __cnt set.     *)
InitFilemaps(c) ==
    /\ ub = "none" /\ ~inSession[c] /\ sessions < MaxSessions
    /\ inSession' = [inSession EXCEPT ![c] = TRUE]
    /\ sessions' = sessions + 1
    /\ IF usage # 0
       THEN /\ usage' = usage + 1
            /\ UNCHANGED <<cnt, table, abfd, symbols>>
       ELSE \E r \in MapResults, n \in Entries :
              /\ cnt' = n
              /\ table' = IF r = "ok" THEN "mapped" ELSE "failed"
              /\ abfd' = IF r = "ok" THEN NoEntries ELSE abfd
              /\ symbols' = IF r = "ok" THEN NullSymbols ELSE symbols
              /\ usage' = IF r = "ok" THEN usage + 1 ELSE usage
    /\ UNCHANGED ub

(* What __init_bfd_filemap leaves in the entry, and what mc_get_symbol    *)
(* does with it:                                                           *)
(*  ok        - handle opened, symbols read (also the dynamic re-read of  *)
(*              lines 104-108); returns 0 and the symbols are used;       *)
(*  nosymtab  - handle opened, no symbol table size (storage < 0) or      *)
(*              mc_orig_malloc returned NULL; returns -1;                 *)
(*  canonfail - canonicalisation failed: the symbols are freed but the    *)
(*              pointer is kept; returns -1;                              *)
(*  openfail  - bfd_openr returned NULL and line 79 dereferences it.      *)
BfdOutcome == [ok        |-> [abfd |-> TRUE,  symbols |-> "live",  ub |-> "none"],
               nosymtab  |-> [abfd |-> TRUE,  symbols |-> "null",  ub |-> "none"],
               canonfail |-> [abfd |-> TRUE,  symbols |-> "freed", ub |-> "none"],
               openfail  |-> [abfd |-> FALSE, symbols |-> "null",  ub |-> "deref"]]

\* mc_get_symbol_from_offset can hand entry i's symbols to
\* bfd_find_nearest_line: a NULL table is allowed, a freed one is not.
SymbolsUsable(i) == symbols[i] # "freed"

(* mc_get_symbol for an address inside entry i (mc_print_callstack, one   *)
(* frame).  mc_find_and_init_bfd_filemap scans the table; an entry        *)
(* without a handle is initialised; an entry that already has one hands   *)
(* its symbols to bfd_find_nearest_line through                           *)
(* mc_get_symbol_from_offset.  A frame in an entry whose handle and       *)
(* usable symbols are already there changes nothing and is left out.      *)
GetSymbol(c, i) ==
    /\ ub = "none" /\ inSession[c] /\ i <= cnt
    /\ \/ /\ ~Readable
          /\ ub' = "deref"
          /\ UNCHANGED <<abfd, symbols>>
       \/ /\ Readable /\ ~abfd[i]
          /\ \E r \in BfdResults :
               /\ abfd' = [abfd EXCEPT ![i] = BfdOutcome[r].abfd]
               /\ symbols' = [symbols EXCEPT ![i] = BfdOutcome[r].symbols]
               /\ ub' = BfdOutcome[r].ub
       \/ /\ Readable /\ abfd[i] /\ ~SymbolsUsable(i)
          /\ ub' = "uaf"
          /\ UNCHANGED <<abfd, symbols>>
    /\ UNCHANGED <<usage, cnt, table, inSession, sessions>>

\* __term_bfd_filemap over every entry: close the handle, free the symbols.
\* Freeing a dangling symbols pointer is a double free.
TermBfdFilemaps ==
    /\ abfd' = NoEntries
    /\ symbols' = NullSymbols
    /\ ub' = IF \E i \in 1..cnt : symbols[i] = "freed" THEN "doublefree" ELSE "none"

\* Mutant: every term tears the table down, without `if (!__usage_cnt)`.
TermFilemapsNoRefcount(c) ==
    /\ ub = "none" /\ inSession[c]
    /\ inSession' = [inSession EXCEPT ![c] = FALSE]
    /\ usage' = usage - 1
    /\ TermBfdFilemaps
    /\ table' = IF table = "null" THEN "null" ELSE "unmapped"
    /\ UNCHANGED <<cnt, sessions>>

(* mc_term_filemaps under FILEMAP_LOCK: the last session out terminates   *)
(* every entry and unmaps the array (munmap of MAP_FAILED only fails).    *)
TermFilemaps(c) ==
    /\ ub = "none" /\ inSession[c]
    /\ inSession' = [inSession EXCEPT ![c] = FALSE]
    /\ usage' = usage - 1
    /\ IF usage - 1 = 0
       THEN IF Readable
            THEN /\ TermBfdFilemaps
                 /\ table' = IF table = "null" THEN "null" ELSE "unmapped"
            ELSE /\ ub' = "deref"
                 /\ UNCHANGED <<abfd, symbols, table>>
       ELSE UNCHANGED <<abfd, symbols, table, ub>>
    /\ UNCHANGED <<cnt, sessions>>

\* Every session has been closed, or the process has crashed.
Stopped ==
    /\ \/ ub # "none"
       \/ sessions = MaxSessions /\ \A c \in Callers : ~inSession[c]
    /\ UNCHANGED vars

\* A caller opens a session, looks up one frame of the call stack it prints
\* (mc_print_callstack calls mc_get_symbol per frame), or closes it.
Next ==
    \/ \E c \in Callers : InitFilemaps(c) \/ TermFilemaps(c)
    \/ \E c \in Callers, i \in Entries : GetSymbol(c, i)
    \/ Stopped

Spec == Init /\ [][Next]_vars

-----------------------------------------------------------------------------
\* __usage_cnt counts the sessions in progress: each caller that has
\* called mc_init_filemaps_from_procmap and not yet mc_term_filemaps is
\* counted once.  A failed mmap returns before __usage_cnt++ while its
\* caller still goes on to its lookups and its term, so this fails once
\* MapResults holds "fail" (hazard at memchk_filemap.c:55); it is not a run.
UsageMatchesHolders ==
    ub = "none" => usage = Cardinality({c \in Callers : inSession[c]})

\* No call of a session (a lookup in mc_get_symbol, the termination in
\* mc_term_filemaps) reads an array that is not mapped, dereferences a
\* NULL BFD handle, reads freed symbols or frees them twice.
NoUndefinedBehaviour == ub = "none"
=============================================================================
