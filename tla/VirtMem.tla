------------------------------ MODULE VirtMem ------------------------------
(***************************************************************************)
(* The virtual-memory accountant of memchk_virtmem.c.                      *)
(* mc_get_virtual_memory_usage copies the live table, registers the pages  *)
(* of every copied buffer in a sorted singly linked list of page regions,  *)
(* sums the regions' lengths and frees the list.  __register_block keeps   *)
(* the list sorted with a gap between regions, and caches the node it      *)
(* inserted last (pageregion_cand) and its predecessor as a starting point *)
(* for the next search.                                                    *)
(*                                                                         *)
(* Nodes are the slots of the pageregion pool: numbers 1..MaxNodes, handed *)
(* out lowest first as the bitmap pool does, their fields left as they     *)
(* were when freed.  HeadNode (0) is pageregion_head; Nil is NULL.        *)
(* Addresses are small naturals and PAGE is the page size in address      *)
(* units.                                                                  *)
(***************************************************************************)
EXTENDS Integers, Sequences, FiniteSets, FiniteSetsExt

CONSTANTS
    PAGE,          \* PAGE_SIZE
    Addrs,         \* buffer addresses a live block may start at
    BufSizes,      \* bufsize of a live block (user size plus redzones)
    MaxNodes,      \* pageregion slots available before the pool fails
    MaxBlocks,     \* live blocks in the copied table
    AllocMayFail   \* the metadata pools may fail (mmap failure)

ASSUME PAGE \in Nat \ {0} /\ MaxNodes \in Nat \ {0} /\ MaxBlocks \in Nat

HeadNode == 0
Nil == -1
Nodes == 1..MaxNodes

VARIABLES
    blocks,     \* the buffers of the copied live table, as [addr, size]
    todo,       \* the copied blocks not yet registered
    next,       \* next field of the head and of every pool slot
    start, end, \* fields of every pool slot
    free,       \* pool slots not allocated
    cand,       \* pageregion_cand
    prevCand,   \* prev_pageregion_cand
    phase,      \* "dup", "reg" (registering the copy) or "done"
    ret,        \* the value returned once done
    failed      \* some __register_block returned -1 (ignored by the caller)

vars == <<blocks, todo, next, start, end, free, cand, prevCand, phase, ret, failed>>

Block == [addr : Addrs, size : BufSizes]

\* Sets of at most k non-overlapping buffers lying at or above address a.
RECURSIVE Layouts(_, _)
Layouts(a, k) ==
    {{}} \cup
    IF k = 0 THEN {}
    ELSE UNION {{{b} \cup L : L \in Layouts(b.addr + b.size, k - 1)} :
                   b \in {c \in Block : c.addr >= a}}

\* start = addr & ~(PAGE_SIZE - 1); end = (addr + size + PAGE_SIZE - 1) & ~(PAGE_SIZE - 1)
PageStart(b) == (b.addr \div PAGE) * PAGE
PageEndPastPage(b) == ((b.addr + b.size + PAGE) \div PAGE) * PAGE
PageEnd(b) == ((b.addr + b.size + PAGE - 1) \div PAGE) * PAGE

\* The live table holds distinct, non-overlapping buffers; the call begins
\* with pageregion_head.next = NULL and the cache left by an earlier call.
Init ==
    /\ blocks \in Layouts(0, MaxBlocks)
    /\ todo = {}
    /\ next = [n \in Nodes \cup {HeadNode} |-> Nil]
    /\ start = [n \in Nodes |-> 0] /\ end = [n \in Nodes |-> 0]
    /\ free = Nodes
    /\ cand = Nil /\ prevCand = Nil
    /\ phase = "dup" /\ ret = 0 /\ failed = FALSE

-----------------------------------------------------------------------------
\* The nodes reached from n by next, in order (at most MaxNodes + 1 steps,
\* so that a cycle is cut rather than followed forever).
RECURSIVE ChainFrom(_, _)
ChainFrom(n, fuel) ==
    IF n = Nil \/ fuel = 0 THEN <<>> ELSE <<n>> \o ChainFrom(next[n], fuel - 1)

List == ChainFrom(next[HeadNode], MaxNodes + 1)
ListNodes == {List[i] : i \in 1..Len(List)}

\* The slot mc_allocate_pageregion hands out.
NewNode == Min(free)

\* The search loop of __register_block from node p with predecessor prev:
\* the first node before which the range is inserted (end < p->start), or
\* with which it merges (start <= p->end); Nil when the walk runs off the
\* end.
RECURSIVE Scan(_, _, _, _, _)
Scan(p, prev, s, e, fuel) ==
    IF p = Nil \/ fuel = 0 THEN [kind |-> "append", p |-> Nil, prev |-> prev]
    ELSE IF e < start[p] THEN [kind |-> "insert", p |-> p, prev |-> prev]
    ELSE IF s <= end[p] THEN [kind |-> "merge", p |-> p, prev |-> prev]
    ELSE Scan(next[p], p, s, e, fuel - 1)

\* The inner merge loop: the successors of p whose start is not beyond e,
\* and the first one that is (or Nil).
AbsorbedNone(q, e, fuel) == [gone |-> <<>>, rest |-> q]
RECURSIVE Absorbed(_, _, _)
Absorbed(q, e, fuel) ==
    IF q = Nil \/ fuel = 0 \/ start[q] > e THEN [gone |-> <<>>, rest |-> q]
    ELSE LET r == Absorbed(next[q], e, fuel - 1)
         IN [gone |-> <<q>> \o r.gone, rest |-> r.rest]

-----------------------------------------------------------------------------
\* mc_get_virtual_memory_usage: duplicate the live table (a failure returns
\* -1 at once); pageregion_head.next = NULL.
Duplicate ==
    /\ phase = "dup"
    /\ \/ /\ todo' = blocks /\ phase' = "reg"
          /\ UNCHANGED ret
       \/ /\ AllocMayFail
          /\ ret' = -1 /\ phase' = "done"
          /\ UNCHANGED todo
    /\ UNCHANGED <<blocks, next, start, end, free, cand, prevCand, failed>>

\* __allocate_pageregion failing: __register_block returns -1 with the list
\* unchanged, and the loop of mc_get_virtual_memory_usage goes on.
RegisterFails(b) ==
    /\ AllocMayFail
    /\ todo' = todo \ {b} /\ failed' = TRUE
    /\ UNCHANGED <<next, start, end, free, cand, prevCand>>

\* A successful allocation of node n for [s, e).
Fill(n, s, e) ==
    /\ free' = free \ {n}
    /\ start' = [start EXCEPT ![n] = s] /\ end' = [end EXCEPT ![n] = e]

\* __register_block for one copied block.
RegisterBlock(b) ==
    /\ phase = "reg" /\ b \in todo
    /\ UNCHANGED <<blocks, phase, ret>>
    /\ LET s == PageStart(b)
           e == PageEnd(b)
           n == NewNode
       IN
       \/ RegisterFails(b)
       \/ /\ next[HeadNode] = Nil /\ free # {}
          /\ Fill(n, s, e)
          /\ next' = [next EXCEPT ![HeadNode] = n, ![n] = Nil]
          /\ cand' = n /\ prevCand' = HeadNode
          /\ todo' = todo \ {b}
          /\ UNCHANGED failed
       \/ /\ next[HeadNode] # Nil
          /\ LET from == IF end[cand] < s THEN <<cand, prevCand>>
                         ELSE <<next[HeadNode], HeadNode>>
                 f == Scan(from[1], from[2], s, e, MaxNodes + 1)
             IN
             \/ /\ f.kind = "insert" /\ free # {}
                /\ Fill(n, s, e)
                /\ next' = [next EXCEPT ![n] = f.p, ![f.prev] = n]
                /\ cand' = n /\ prevCand' = f.prev
             \/ /\ f.kind = "merge"
                /\ LET p == f.p
                       a == Absorbed(next[p], e, MaxNodes + 1)
                       lastEnd == IF a.gone = <<>> THEN end[p] ELSE end[a.gone[Len(a.gone)]]
                   IN /\ start' = [start EXCEPT ![p] = IF s < start[p] THEN s ELSE start[p]]
                      /\ end' = [end EXCEPT ![p] = IF lastEnd > e THEN lastEnd ELSE e]
                      /\ next' = [next EXCEPT ![p] = a.rest]
                      /\ free' = free \cup {a.gone[i] : i \in 1..Len(a.gone)}
                /\ UNCHANGED <<cand, prevCand>>
             \/ /\ f.kind = "append" /\ free # {}
                /\ Fill(n, s, e)
                /\ next' = [next EXCEPT ![n] = Nil, ![f.prev] = n]
                /\ UNCHANGED <<cand, prevCand>>
          /\ todo' = todo \ {b}
          /\ UNCHANGED failed

\* __count_virtual_memory_size then __free_all_pageregions: sum the lengths
\* along the list, free every node, pageregion_head.next = NULL.
CountAndFree ==
    /\ phase = "reg" /\ todo = {}
    /\ ret' = FoldSet(LAMBDA n, acc : acc + end[n] - start[n], 0, ListNodes)
    /\ free' = free \cup ListNodes
    /\ next' = [next EXCEPT ![HeadNode] = Nil]
    /\ phase' = "done"
    /\ UNCHANGED <<blocks, todo, start, end, cand, prevCand, failed>>

Done == phase = "done" /\ UNCHANGED vars

Next ==
    \/ Duplicate
    \/ \E b \in todo : RegisterBlock(b)
    \/ CountAndFree
    \/ Done

Spec == Init /\ [][Next]_vars

-----------------------------------------------------------------------------
\* Reference for the pages a buffer touches, independent of the masks of
\* __register_block: the pages of each of its address units.
PageBase(a) == a - (a % PAGE)
Pages(b) == UNION {PageBase(a) .. PageBase(a) + PAGE - 1 : a \in b.addr .. b.addr + b.size - 1}
Region(n) == start[n] .. end[n] - 1
Registered == blocks \ todo

\* The region list stays a well-formed sorted list: it ends in NULL, it
\* visits only allocated slots, each once, and the regions are sorted and
\* do not overlap, so that __count_virtual_memory_size counts no page
\* twice.  (Touching regions are normally merged, but a search started at
\* a stale pageregion_cand can leave two of them adjacent, which is harmless
\* to the count.)
ListWellFormed ==
    /\ Len(List) <= MaxNodes
    /\ List = <<>> \/ next[List[Len(List)]] = Nil
    /\ ListNodes \cap free = {}
    /\ Cardinality(ListNodes) = Len(List)
    /\ \A i \in 1..Len(List) - 1 : end[List[i]] <= start[List[i + 1]]

\* The regions on the list never claim a page that no registered block
\* touches, so the usage returned can fall short of the truth but never
\* exceed it.
RegionsWithinRegistered ==
    UNION {Region(n) : n \in ListNodes} \subseteq UNION {Pages(b) : b \in Registered}

\* The size mc_get_virtual_memory_usage returns is the number of address
\* units in the pages the live blocks touch, each page counted once.
UsageMatchesPages ==
    (phase = "done" /\ ret # -1 /\ ~failed) =>
        ret = Cardinality(UNION {Pages(b) : b \in blocks})

=============================================================================
