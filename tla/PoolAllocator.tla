--------------------------- MODULE PoolAllocator ----------------------------
(***************************************************************************)
(* The bitmap pool allocator of memchk (src/memchk_allocator.c), which     *)
(* holds the tool's own records.  One chain of page-sized pools serves one *)
(* object size: pool 0 is the static head page, later pools are mapped in  *)
(* batches of MMAP_BATCH_PAGE_NUM pages and appended to the chain.  Each   *)
(* pool has NumBlk slots tracked by three bitmap words (1 = free) and a    *)
(* num_free count; the head caches next_available_pool.  Both operations   *)
(* run whole under the allocator mutex, so each is one atomic action; the  *)
(* four chains of memchk_alloc_blk.c are independent, so one is modelled.  *)
(* Pools are numbered in chain order, a slot is <<pool, index>>.           *)
(***************************************************************************)
EXTENDS Integers, FiniteSets, FiniteSetsExt

CONSTANTS
    W,            \* bits per bitmap word (sizeof(uint64_t) * 8 in the code)
    NumBlk,       \* num_memblk_in_pool: (PAGE_SIZE - header size) / object size
    BATCH,        \* MMAP_BATCH_PAGE_NUM
    MaxPools,     \* bound on the pools the model may map
    MaxOps,       \* bound on allocations plus frees
    MapMayFail,   \* whether mmap of a new batch may fail
    NoSlot        \* the NULL pointer mc_allocator_alloc returns on failure

ASSUME W \in Nat \ {0} /\ NumBlk \in 1..(3 * W) /\ BATCH \in Nat \ {0}
ASSUME MaxPools \in Nat \ {0} /\ MaxOps \in Nat /\ MapMayFail \in BOOLEAN

Words == 0..2                       \* uint64_t bitmap[3]
AllOnes == 2^W - 1                  \* (uint64_t)-1
Slots == (0..(MaxPools - 1)) \X (0..(NumBlk - 1))

VARIABLES
    npools,      \* pools in the chain
    bitmap,      \* bitmap[p][w]: word w of pool p's free-slot bitmap
    numFree,     \* numFree[p]: header->num_free
    nextAvail,   \* top->next_available_pool
    ret,         \* the value the latest mc_allocator_alloc returned
    issued,      \* slots returned to callers and not yet freed (history)
    ops          \* operations performed so far

vars == <<npools, bitmap, numFree, nextAvail, ret, issued, ops>>

Pools == 0..(npools - 1)

-----------------------------------------------------------------------------
(* Bit arithmetic on a word held as a natural number.                      *)

RECURSIVE Ffs(_)
\* __builtin_ffsl: one plus the index of the least significant set bit, 0 if none
Ffs(x) == IF x = 0 THEN 0 ELSE IF x % 2 = 1 THEN 1 ELSE 1 + Ffs(x \div 2)

BitOf(x, k) == (x \div 2^k) % 2

\* the word and the bit within it that __set_bitmap / __clear_bitmap touch
WordOf(i) == IF i < W THEN 0 ELSE IF i < 2 * W THEN 1 ELSE 2
ShiftOf(i) == i - WordOf(i) * W

WithBit(x, k) == IF BitOf(x, k) = 1 THEN x ELSE x + 2^k
WithoutBit(x, k) == IF BitOf(x, k) = 1 THEN x - 2^k ELSE x

\* __set_bitmap(header, index)
SetBitmap(bm, i) == [bm EXCEPT ![WordOf(i)] = WithBit(@, ShiftOf(i))]

ClearBitmapSameWord(bm, i) == [bm EXCEPT ![0] = WithoutBit(@, i % W)]
\* __clear_bitmap(header, index)
ClearBitmap(bm, i) == [bm EXCEPT ![WordOf(i)] = WithoutBit(@, ShiftOf(i))]

GetLowestBitStrict(bm, n) ==
    LET r0 == Ffs(bm[0]) r1 == Ffs(bm[1]) r2 == Ffs(bm[2]) IN
    IF r0 # 0 THEN (IF r0 < n THEN r0 - 1 ELSE -1)
    ELSE IF n <= W THEN -1
    ELSE IF r1 # 0 THEN (IF r1 + W < n THEN r1 + W - 1 ELSE -1)
    ELSE IF n <= 2 * W THEN -1
    ELSE IF r2 + 2 * W < n THEN r2 + 2 * W - 1 ELSE -1
\* __get_lowest_bit(header): index of the lowest free slot below n, or -1;
\* a word is consulted only when n reaches into it
GetLowestBit(bm, n) ==
    LET r0 == Ffs(bm[0]) r1 == Ffs(bm[1]) r2 == Ffs(bm[2]) IN
    IF r0 # 0 THEN (IF r0 <= n THEN r0 - 1 ELSE -1)
    ELSE IF n <= W THEN -1
    ELSE IF r1 # 0 THEN (IF r1 + W <= n THEN r1 + W - 1 ELSE -1)
    ELSE IF n <= 2 * W THEN -1
    ELSE IF r2 + 2 * W <= n THEN r2 + 2 * W - 1 ELSE -1

\* Reference: the least free slot index below n, by definition.
IsFree(bm, i) == BitOf(bm[WordOf(i)], ShiftOf(i)) = 1
LowestFreeRef(bm, n) ==
    LET free == {i \in 0..(n - 1) : IsFree(bm, i)}
    IN IF free = {} THEN -1 ELSE Min(free)

-----------------------------------------------------------------------------
\* __init_header: a fresh pool with every bit set and num_free = NumBlk
FreshBitmap == [w \in Words |-> AllOnes]

\* mc_allocator_init on the static head page (via mc_alloc_blk_init)
Init ==
    /\ npools = 1
    /\ bitmap = [p \in {0} |-> FreshBitmap]
    /\ numFree = [p \in {0} |-> NumBlk]
    /\ nextAvail = 0
    /\ ret = NoSlot
    /\ issued = {}
    /\ ops = 0

\* The pool the forward walk from next_available_pool stops at: the first
\* pool at or after it in chain order with num_free # 0, or -1 at the end.
WalkFrom(h) ==
    LET cand == {p \in h..(npools - 1) : numFree[p] # 0}
    IN IF cand = {} THEN -1 ELSE Min(cand)

AppendBatchShort(f, v) ==
    [p \in 0..(npools + BATCH - 2) |-> IF p \in Pools THEN f[p] ELSE v]
\* The loop of __init_header calls over a fresh batch: BATCH pools appended
\* after the tail, each with value v of the per-pool field f.
AppendBatch(f, v) ==
    [p \in 0..(npools + BATCH - 1) |-> IF p \in Pools THEN f[p] ELSE v]

\* Take slot idx of pool h: __get_bufaddr, __clear_bitmap, num_free--.
Take(h, idx, np, bm, nf) ==
    /\ bitmap' = [bm EXCEPT ![h] = ClearBitmap(@, idx)]
    /\ numFree' = [nf EXCEPT ![h] = @ - 1]
    /\ npools' = np
    /\ ret' = <<h, idx>>
    /\ issued' = issued \cup {<<h, idx>>}

\* mc_allocator_alloc: try the cached pool; if it has no free bit, walk on
\* from it, and past the tail map a batch of BATCH fresh pools (each
\* __init_header appends one), or return NULL if mmap fails.
MallocAlloc ==
    /\ ops < MaxOps
    /\ ops' = ops + 1
    /\ LET h0 == nextAvail
           i0 == GetLowestBit(bitmap[h0], NumBlk)
           hw == WalkFrom(h0)
       IN
       \/ /\ i0 # -1
          /\ Take(h0, i0, npools, bitmap, numFree)
          /\ UNCHANGED nextAvail
       \/ /\ i0 = -1 /\ hw # -1
          /\ nextAvail' = hw
          /\ Take(hw, GetLowestBit(bitmap[hw], NumBlk), npools, bitmap, numFree)
       \/ /\ i0 = -1 /\ hw = -1
          /\ npools + BATCH <= MaxPools
          /\ nextAvail' = npools
          /\ Take(npools, GetLowestBit(FreshBitmap, NumBlk), npools + BATCH,
                  AppendBatch(bitmap, FreshBitmap), AppendBatch(numFree, NumBlk))
       \/ /\ i0 = -1 /\ hw = -1 /\ MapMayFail
          /\ ret' = NoSlot
          /\ UNCHANGED <<npools, bitmap, numFree, nextAvail, issued>>

FreeNoCount(s) ==
    LET h == s[1] IN
    /\ s \in issued
    /\ ops < MaxOps
    /\ ops' = ops + 1
    /\ bitmap' = [bitmap EXCEPT ![h] = SetBitmap(@, s[2])]
    /\ issued' = issued \ {s}
    /\ IF numFree[h] > numFree[nextAvail] THEN nextAvail' = h
                                          ELSE UNCHANGED nextAvail
    /\ UNCHANGED <<npools, numFree, ret>>
\* mc_allocator_free of a slot a caller holds: set its bit, num_free++, and
\* recache the pool if it now has more free slots than the cached one
MallocFree(s) ==
    LET h == s[1] nf == [numFree EXCEPT ![h] = @ + 1] IN
    /\ s \in issued
    /\ ops < MaxOps
    /\ ops' = ops + 1
    /\ bitmap' = [bitmap EXCEPT ![h] = SetBitmap(@, s[2])]
    /\ numFree' = nf
    /\ issued' = issued \ {s}
    /\ IF nf[h] > nf[nextAvail] THEN nextAvail' = h ELSE UNCHANGED nextAvail
    /\ UNCHANGED <<npools, ret>>

Done == ops = MaxOps /\ UNCHANGED vars

Next == MallocAlloc \/ (\E s \in issued : MallocFree(s)) \/ Done

Spec == Init /\ [][Next]_vars

-----------------------------------------------------------------------------
TypeOK ==
    /\ npools \in 1..MaxPools
    /\ bitmap \in [Pools -> [Words -> 0..AllOnes]]
    /\ numFree \in [Pools -> 0..NumBlk]
    /\ nextAvail \in Pools
    /\ ret \in Slots \cup {NoSlot}
    /\ issued \subseteq Slots
    /\ ops \in 0..MaxOps

\* The slots whose bit is clear: what the bitmap says is handed out.
InUseMap == {s \in Pools \X (0..(NumBlk - 1)) : ~IsFree(bitmap[s[1]], s[2])}

\* Every pool's num_free equals the number of set bits below NumBlk, so
\* the walk's "num_free # 0" test and __get_lowest_bit agree about which
\* pools have room (a disagreement hands out index -1).
NumFreeMatchesBitmap ==
    \A p \in Pools :
        numFree[p] = Cardinality({i \in 0..(NumBlk - 1) : IsFree(bitmap[p], i)})

\* The slots the allocator has handed out and not taken back are exactly
\* those its bitmaps mark used: no slot is handed to two callers, none leaks.
IssuedMatchesBitmap == issued = InUseMap

\* The pool allocator implements the abstract slot allocator, with the
\* slots in use read off the bitmaps: every allocation returns a slot no
\* caller holds and marks exactly that one used.
Abs == INSTANCE SlotAllocator WITH inUse <- InUseMap
AbsSpec == Abs!Spec

\* __get_lowest_bit agrees with the reference on every bitmap the code can
\* produce: any bits below NumBlk, every bit at or past it still set.
Reachable(bm) == \A i \in NumBlk..(3 * W - 1) : IsFree(bm, i)
LowestBitCorrect ==
    \A p \in Pools : Reachable(bitmap[p]) =>
        GetLowestBit(bitmap[p], NumBlk) = LowestFreeRef(bitmap[p], NumBlk)

\* spec.md 4.1: a new batch is mapped only when no pool of the chain has a
\* free slot ("linearly scan sibling pools ... if none exists, map").
NoBatchWhileFree ==
    [][npools' > npools => \A p \in Pools : numFree[p] = 0]_vars
=============================================================================
