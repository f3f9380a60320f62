---------------------------- MODULE SnapshotDiff ----------------------------
(***************************************************************************)
(* The snapshot/diff engine (src/memchk_snapshot.c), the call-stack       *)
(* groups it links records into (src/memchk_callstack.c) and the worker    *)
(* commands that drive them (src/memchk_manage_memblk.c 302-501).          *)
(*                                                                         *)
(* A record is [ptr, size, cs]: user pointer, user size and allocation     *)
(* call stack, or NoCS when mc_get_callstack returned NULL.  Tables are    *)
(* bags of records, since a copy table that was not destroyed can hold a   *)
(* second copy of a record.  A call stack's two group lists (current,      *)
(* snapshot) are bags of the records linked into them.                     *)
(*                                                                         *)
(* User threads register and unregister records (the live table, under    *)
(* the pointer-table lock).  A worker command duplicates the live table    *)
(* under that lock and then works on private copies; call stacks a user    *)
(* adds meanwhile have empty groups, which no step below tells apart from  *)
(* a stack added before the command.  So each command is one action.      *)
(***************************************************************************)
EXTENDS Integers, FiniteSets, Bags, BagsExt

CONSTANTS
    Ptrs,              \* user pointers
    Sizes,             \* user sizes
    CS,                \* distinct call stacks
    NoCS,              \* the NULL call stack
    Commands,          \* the worker commands the run issues
    MaxCmds,           \* bound on worker commands
    MaxUserOps,        \* bound on registrations and unregistrations
    AllocMayFail,      \* mc_allocate_alloc_memblk may return NULL
    SortMayFail,       \* mc_allocate_sort_buffer may return NULL
    CallstackMayFail,  \* mc_get_callstack may return NULL
    NoReport           \* no diff printed yet

Rec == [ptr : Ptrs, size : Sizes, cs : CS \cup {NoCS}]

VARIABLES
    live,        \* mc_alloc_memptr_hashtable: a set, one record per pointer
    callstacks,  \* the entries of mc_callstack_hashtable
    snap,        \* alloc_memptr_hashtable_snapshot
    copyCur,     \* mc_alloc_memptr_hashtable_copy
    copySnap,    \* alloc_memptr_hashtable_snapshot_copy
    grpCur,      \* grpCur[c]: same_callstack_group_next[LINK_CURRENT] list of c
    grpSnap,     \* grpSnap[c]: same_callstack_group_next[LINK_SNAPSHOT] list of c
    report,      \* the latest diff printed, with the state it was taken from
    crashed,     \* the worker dereferenced NULL
    cmds, userOps

vars == <<live, callstacks, snap, copyCur, copySnap, grpCur, grpSnap,
          report, crashed, cmds, userOps>>

NoGroups == [c \in CS |-> EmptyBag]

Init ==
    /\ live = {} /\ callstacks = {}
    /\ snap = EmptyBag /\ copyCur = EmptyBag /\ copySnap = EmptyBag
    /\ grpCur = NoGroups /\ grpSnap = NoGroups
    /\ report = NoReport /\ crashed = FALSE
    /\ cmds = 0 /\ userOps = 0

-----------------------------------------------------------------------------
(* Helpers on tables and groups.                                           *)

\* the records of table t attributed to call stack c
OnCs(t, c) == [r \in {x \in BagToSet(t) : x.cs = c} |-> t[r]]

\* mc_duplicate_all_alloc_memblk(dst, src): every record of src is copied
\* and prepended to dst; if the record pool runs dry part-way, the records
\* copied so far stay in dst and -1 is returned.
DupOk(dst, src) == dst (+) src
DupFailed(dst, src) ==
    IF AllocMayFail
    THEN {dst (+) sb : sb \in {b \in SubBag(src) : b # src}}
    ELSE {}

LinkGroupsAll(g, t) == [c \in CS |-> g[c] (+) t]
\* mc_link_same_callstack_group: link every record of t into its call
\* stack's list (a record with a NULL call stack dereferences NULL)
LinkGroups(g, t) == [c \in CS |-> g[c] (+) OnCs(t, c)]
LinksNull(t) == \E r \in BagToSet(t) : r.cs = NoCS

MatchForExactOnly(c, snp, gs) ==
    LET byPtr == {s \in BagToSet(snp) : s.ptr = c.ptr}
        exact == CHOOSE s \in byPtr : TRUE
    IN IF byPtr # {} /\ exact.size = c.size /\ exact.cs = c.cs THEN {exact} ELSE {}
\* __find_snapshot_alloc_memptr_for_current_memptr: the record found by
\* pointer if size and call stack agree, else the first record of equal
\* size in the call stack's snapshot group, else none.
MatchFor(c, snp, gs) ==
    LET byPtr == {s \in BagToSet(snp) : s.ptr = c.ptr}
        exact == CHOOSE s \in byPtr : TRUE
        inGrp == {s \in BagToSet(gs[c.cs]) : s.size = c.size}
    IN IF byPtr # {} /\ exact.size = c.size /\ exact.cs = c.cs THEN {exact}
       ELSE IF inGrp # {} THEN {CHOOSE s \in inGrp : TRUE}
       ELSE {}

\* mc_remove_ptr_hashtable: drop the first record with pointer p, if any
RemoveByPtr(t, p) ==
    LET hit == {r \in BagToSet(t) : r.ptr = p}
    IN IF hit = {} THEN t ELSE BagRemove(t, CHOOSE r \in hit : TRUE)

\* mc_unlink_memblk_from_callstack: record r leaves its call stack's group
UnlinkFromCallstack(g, r) == [g EXCEPT ![r.cs] = BagRemove(@, r)]

\* mc_reset_same_callstack_group: every call stack's group head is cleared
ResetSameCallstackGroup == NoGroups

\* offset_snapshot_against_current_alloc_memblk, over the current table in
\* its iteration order: each matched pair leaves both tables and both
\* groups and lowers both remaining counts.
RECURSIVE Offset(_, _)
Offset(todo, s) ==
    IF todo = EmptyBag THEN s
    ELSE
      LET c == CHOOSE x \in BagToSet(todo) : TRUE
          m == MatchFor(c, s.snp, s.gs)
          rest == BagRemove(todo, c)
      IN IF m = {} THEN Offset(rest, s)
         ELSE LET sm == CHOOSE x \in m : TRUE IN
              Offset(rest,
                 [cur |-> RemoveByPtr(s.cur, c.ptr),
                  snp |-> RemoveByPtr(s.snp, sm.ptr),
                  gc  |-> UnlinkFromCallstack(s.gc, c),
                  gs  |-> UnlinkFromCallstack(s.gs, sm),
                  ninc |-> s.ninc - 1, ndec |-> s.ndec - 1])

\* the groups linked, then offset
OffsetAll(cur, snp) ==
    Offset(cur, [cur |-> cur, snp |-> snp,
                 gc |-> LinkGroups(grpCur, cur), gs |-> LinkGroups(grpSnap, snp),
                 ninc |-> BagCardinality(cur), ndec |-> BagCardinality(snp)])

\* the diff as printed, kept with the live table and snapshot it was for
Printed(o) == [inc |-> o.cur, dec |-> o.snp, ninc |-> o.ninc, ndec |-> o.ndec,
               live |-> live, snap |-> snap]

-----------------------------------------------------------------------------
(* User threads.                                                           *)

\* mc_register_memblk: the record, with the call stack mc_get_callstack
\* finds or inserts (NULL if the call-stack pool is exhausted)
Register(p, sz, c) ==
    /\ ~crashed /\ userOps < MaxUserOps
    /\ p \notin {r.ptr : r \in live}
    /\ \/ /\ live' = live \cup {[ptr |-> p, size |-> sz, cs |-> c]}
          /\ callstacks' = callstacks \cup {c}
       \/ /\ CallstackMayFail
          /\ live' = live \cup {[ptr |-> p, size |-> sz, cs |-> NoCS]}
          /\ UNCHANGED callstacks
    /\ userOps' = userOps + 1
    /\ UNCHANGED <<snap, copyCur, copySnap, grpCur, grpSnap, report, crashed, cmds>>

\* mc_unregister_memblk: the record leaves the live table and the freeing
\* call stack f is found or inserted
Unregister(r, f) ==
    /\ ~crashed /\ userOps < MaxUserOps
    /\ live' = live \ {r}
    /\ callstacks' = callstacks \cup {f}
    /\ userOps' = userOps + 1
    /\ UNCHANGED <<snap, copyCur, copySnap, grpCur, grpSnap, report, crashed, cmds>>

-----------------------------------------------------------------------------
(* Worker commands.                                                        *)

Cmd(name) == name \in Commands /\ cmds < MaxCmds /\ ~crashed /\ cmds' = cmds + 1

\* mc_create_snapshot: destroy the old snapshot, duplicate the live table
CreateSnapshot ==
    /\ Cmd("create")
    /\ snap' \in {DupOk(EmptyBag, SetToBag(live))} \cup DupFailed(EmptyBag, SetToBag(live))
    /\ UNCHANGED <<live, callstacks, copyCur, copySnap, grpCur, grpSnap, report, crashed, userOps>>

\* mc_destroy_snapshot
DestroySnapshot ==
    /\ Cmd("destroy")
    /\ snap' = EmptyBag
    /\ UNCHANGED <<live, callstacks, copyCur, copySnap, grpCur, grpSnap, report, crashed, userOps>>
CompareFlatNoReset(c1, c2) ==
    LET o == OffsetAll(c1, c2) IN
    /\ report' = Printed(o)
    /\ grpCur' = o.gc /\ grpSnap' = o.gs
\* mc_compare_snapshot_and_current_alloc_memblk: link, offset, print both
\* remainders, reset both groups' heads
CompareFlat(c1, c2) ==
    LET o == OffsetAll(c1, c2) IN
    /\ report' = Printed(o)
    /\ grpCur' = ResetSameCallstackGroup /\ grpSnap' = ResetSameCallstackGroup

\* mc_compare_snapshot_and_current_alloc_memblk_per_callstack: as above,
\* but "no block changed" returns before the reset, and so does a failed
\* sort-buffer allocation, before anything is printed
ComparePerCallstack(c1, c2) ==
    LET o == OffsetAll(c1, c2) IN
    \/ /\ o.ninc + o.ndec = 0
       /\ report' = Printed(o)
       /\ grpCur' = o.gc /\ grpSnap' = o.gs
    \/ /\ o.ninc + o.ndec # 0 /\ SortMayFail
       /\ grpCur' = o.gc /\ grpSnap' = o.gs
       /\ UNCHANGED report
    \/ /\ o.ninc + o.ndec # 0
       /\ report' = Printed(o)
       /\ grpCur' = ResetSameCallstackGroup /\ grpSnap' = ResetSameCallstackGroup

\* The two duplicates that open mc_compare_with_snapshot(_by_callstack):
\* a failure returns at once, leaving the partial copies in place.
\* Once both copies succeed, the flat or the per-call-stack compare follows.
DupBoth(perCs) ==
    LET c1 == DupOk(copyCur, SetToBag(live))
        c2 == DupOk(copySnap, snap)
    IN
    \/ /\ copyCur' \in DupFailed(copyCur, SetToBag(live))
       /\ UNCHANGED <<copySnap, grpCur, grpSnap, report, crashed>>
    \/ /\ copyCur' = c1
       /\ copySnap' \in DupFailed(copySnap, snap)
       /\ UNCHANGED <<grpCur, grpSnap, report, crashed>>
    \/ /\ LinksNull(c1 (+) c2)
       /\ crashed' = TRUE
       /\ copyCur' = c1 /\ copySnap' = c2
       /\ UNCHANGED <<grpCur, grpSnap, report>>
    \/ /\ ~LinksNull(c1 (+) c2)
       /\ IF perCs THEN ComparePerCallstack(c1, c2) ELSE CompareFlat(c1, c2)
       \* the caller's mc_destroy_all_alloc_memblk of both copies
       /\ copyCur' = EmptyBag /\ copySnap' = EmptyBag
       /\ UNCHANGED crashed

\* mc_compare_with_snapshot
CompareWithSnapshot ==
    /\ Cmd("compare")
    /\ DupBoth(FALSE)
    /\ UNCHANGED <<live, callstacks, snap, userOps>>

\* mc_compare_with_snapshot_by_callstack
CompareWithSnapshotByCallstack ==
    /\ Cmd("compare_cs")
    /\ DupBoth(TRUE)
    /\ UNCHANGED <<live, callstacks, snap, userOps>>

\* mc_print_all_memblk: duplicate (a failure returns without destroying the
\* partial copy), print, destroy the copy
PrintAllMemblk ==
    /\ Cmd("list")
    /\ \/ copyCur' \in DupFailed(copyCur, SetToBag(live))
       \/ copyCur' = EmptyBag
    /\ UNCHANGED <<live, callstacks, snap, copySnap, grpCur, grpSnap, report, crashed, userOps>>

\* __print_all_memblk_by_callstack counts every call stack of the table,
\* fills the sort array only with those whose group is non-empty, and then
\* sorts and prints as many entries as it counted: an unfilled (NULL)
\* entry is dereferenced.
ArrayHasNull(g) == Cardinality({c \in callstacks : g[c] # EmptyBag}) < Cardinality(callstacks)

\* mc_print_all_memblk_by_callstack: duplicate, link the copy to the
\* current groups, print by call stack, reset the current groups, destroy
PrintAllMemblkByCallstack ==
    /\ Cmd("list_cs")
    /\ LET c1 == DupOk(copyCur, SetToBag(live))
           g == LinkGroups(grpCur, c1)
       IN
       \/ /\ copyCur' \in DupFailed(copyCur, SetToBag(live))
          /\ UNCHANGED <<grpCur, crashed>>
       \/ /\ LinksNull(c1) \/ ArrayHasNull(g)
          /\ crashed' = TRUE
          /\ copyCur' = c1
          /\ UNCHANGED grpCur
       \/ /\ ~LinksNull(c1)
          /\ ~ArrayHasNull(g) \/ SortMayFail
          /\ grpCur' = ResetSameCallstackGroup
          /\ copyCur' = EmptyBag
          /\ UNCHANGED crashed
    /\ UNCHANGED <<live, callstacks, snap, copySnap, grpSnap, report, userOps>>

Halted == (crashed \/ (cmds = MaxCmds /\ userOps = MaxUserOps)) /\ UNCHANGED vars

Next ==
    \/ \E p \in Ptrs, sz \in Sizes, c \in CS : Register(p, sz, c)
    \/ \E r \in live, f \in CS : Unregister(r, f)
    \/ CreateSnapshot \/ DestroySnapshot
    \/ CompareWithSnapshot \/ CompareWithSnapshotByCallstack
    \/ PrintAllMemblk \/ PrintAllMemblkByCallstack
    \/ Halted

Spec == Init /\ [][Next]_vars

-----------------------------------------------------------------------------
Bag(S) == [S -> Nat \ {0}]
KeyBag(b) == BagOfAll(LAMBDA r : <<r.cs, r.size>>, b)

TypeOK ==
    /\ live \subseteq Rec /\ callstacks \subseteq CS
    /\ \A t \in {snap, copyCur, copySnap} : IsABag(t) /\ BagToSet(t) \subseteq Rec
    /\ \A c \in CS : \A r \in BagToSet(grpCur[c]) \cup BagToSet(grpSnap[c]) : r \in Rec /\ r.cs = c
    /\ report = NoReport \/ (report.ninc \in Int /\ report.ndec \in Int)
    /\ crashed \in BOOLEAN
    /\ cmds \in 0..MaxCmds /\ userOps \in 0..MaxUserOps

\* A diff printed by either compare command says what changed between the
\* snapshot and the live table at that moment: per call stack and size,
\* the increased records are the live ones the snapshot lacks and the
\* decreased ones the snapshot records no longer live, and the printed
\* counts are their numbers (spec.md 4.7, including snapshot idempotence).
DiffMatchesRegistry ==
    report # NoReport =>
        /\ KeyBag(report.inc) = KeyBag(SetToBag(report.live)) (-) KeyBag(report.snap)
        /\ KeyBag(report.dec) = KeyBag(report.snap) (-) KeyBag(SetToBag(report.live))
        /\ report.ninc = BagCardinality(report.inc)
        /\ report.ndec = BagCardinality(report.dec)

\* Between worker commands no call stack's current or snapshot group list
\* holds a record: the heads are reset after every reporting pass, so the
\* next link does not chain onto records already returned to the pool.
GroupsClearBetweenPasses == grpCur = NoGroups /\ grpSnap = NoGroups

\* The worker never dereferences NULL while listing or comparing.
NoNullDeref == ~crashed
=============================================================================
