------------------------------ MODULE Registry ------------------------------
(***************************************************************************)
(* The registry manager of memchk (src/memchk_manage_memblk.c) with the    *)
(* delayed-free ring, the redzone guard (src/memchk_buffer.c) and the      *)
(* intercepted entry points malloc, free and realloc (src/memchk_hook.c),  *)
(* run by several user threads, and the check-all sweep run by the         *)
(* signal worker thread.                                                   *)
(*                                                                         *)
(* A buffer of the real allocator is a model value of Bufs; its contents  *)
(* are abstracted to the pattern of each of its three regions (leading     *)
(* redzone, user region, trailing redzone).  A record of the live or the   *)
(* freed table is the pair of its buffer and its user size: the user       *)
(* pointer is a function of the buffer.  Each hash-table operation runs    *)
(* under the pointer-table lock and is one step; the manage lock is        *)
(* modelled explicitly because check-all holds it across its whole sweep.  *)
(***************************************************************************)
EXTENDS Integers, FiniteSets, FiniteSetsExt

CONSTANTS
    Threads,      \* user threads calling malloc/free/realloc
    Worker,       \* the signal worker thread running check-all
    Bufs,         \* buffers the real allocator can hand out
    Sizes,        \* user sizes passed to malloc and realloc
    FIFO_SIZE,    \* capacity of the delayed-free ring
    MaxCalls,     \* bound: intercepted calls per user thread
    MaxChecks,    \* bound: check-all sweeps run by the worker
    MaxBadWrites, \* bound: buffer lifetimes the program writes out of bounds or after free
    RegisterMayFail,   \* mc_allocate_alloc_memblk may fail to map a pool
    UnregisterMayFail, \* mc_allocate_free_memblk may fail to map a pool
    NoRec,        \* empty ring slot / no record
    NoBuf         \* NULL buffer

ASSUME FIFO_SIZE \in Nat \ {0}
ASSUME Worker \notin Threads
ASSUME {RegisterMayFail, UnregisterMayFail} \subseteq BOOLEAN
ASSUME Sizes \subseteq Nat \ {0}

HISTO_BINS == 10
HISTO_MAGNIFICATION == 4

\* Region patterns: REDZONE_PATTERN, INITBUF_PATTERN, FREEDBUF_PATTERN,
\* data written by the program, and bytes the tool does not control.
Pat == {"RZ", "INIT", "FREED", "DATA", "JUNK"}
Mem == [lead : Pat, usr : Pat, trail : Pat]
Rec == [buf : Bufs, size : Sizes]
Kinds == {"underrun", "overrun", "uaf", "illegal", "double"}

VARIABLES
    heap,            \* real allocator's view of each buffer: "free" or "used"
    mem,             \* contents of each buffer
    allocTab,        \* mc_alloc_memptr_hashtable
    freeTab,         \* free_memptr_hashtable
    ring,            \* free_memblk_array
    fifoIdx,         \* free_fifo_idx
    numAllocMemblk,  \* num_alloc_memblk
    numAllocCnt,     \* num_alloc_cnt
    numFreeCnt,      \* num_free_cnt
    allocatedSize,   \* allocated_size
    histogram,       \* histogram[]
    manageHolder,    \* owner of the manage lock __mtx, or NoRec
    pc, call, ptr, cur, newp, sz, rec, old, rel, calls, \* user thread locals
    wpc, wvisited, wcur, checks,                        \* worker locals
    held,            \* pointers the program holds
    ufreed,          \* pointers the program has passed to free/realloc
    epoch,           \* lifetime of each buffer: bumped when libc hands it out
    corrupt,         \* <<buf, epoch>> written out of bounds by the program
    uafw,            \* <<buf, epoch>> written by the program after free
    dfree,           \* <<buf, epoch>> passed to free/realloc a second time
    log,             \* reports written to the diagnostic sink
    freeSeq          \* num_free_cnt when the buffer entered the ring

tool == <<heap, mem, allocTab, freeTab, ring, fifoIdx, numAllocMemblk,
          numAllocCnt, numFreeCnt, allocatedSize, histogram, manageHolder>>
tloc == <<pc, call, ptr, cur, newp, sz, rec, old, rel, calls>>
wloc == <<wpc, wvisited, wcur, checks>>
hist == <<held, ufreed, epoch, corrupt, uafw, dfree, log, freeSeq>>
vars == <<tool, tloc, wloc, hist>>

-----------------------------------------------------------------------------
(* Helpers translated from the code.                                       *)

\* __update_histogram: the bin of a user size (powers of 4, last bin open).
HistoBin(s) ==
    Min({i \in 0 .. HISTO_BINS - 1 : s <= HISTO_MAGNIFICATION ^ (i + 1)}
        \cup {HISTO_BINS - 1})

\* Mutant: the bin is always incremented, whatever the direction.
UpdateHistogramOneWay(h, s, d) == [h EXCEPT ![HistoBin(s)] = @ + 1]

UpdateHistogram(h, s, d) == [h EXCEPT ![HistoBin(s)] = @ + d]

\* mc_set_allocated_buffer(init_usrptr): arm both redzones, and fill the
\* user region only at first registration.
SetAllocatedBuffer(m, init) ==
    [lead |-> "RZ", usr |-> IF init THEN "INIT" ELSE m.usr, trail |-> "RZ"]

\* mc_check_allocated_buffer: the kinds it reports for a buffer.
CheckAllocatedBuffer(m) ==
    {k \in {"underrun", "overrun"} :
        IF k = "underrun" THEN m.lead # "RZ" ELSE m.trail # "RZ"}

\* Mutant: the pattern is written over the user region only.
SetFreedBufferUserOnly(m) == [m EXCEPT !.usr = "FREED"]

\* mc_set_freed_buffer: the whole buffer gets FREEDBUF_PATTERN.
SetFreedBuffer(m) == [lead |-> "FREED", usr |-> "FREED", trail |-> "FREED"]

\* mc_check_freed_buffer: any byte differing from FREEDBUF_PATTERN.
FreedBufferIntact(m) == m.lead = "FREED" /\ m.usr = "FREED" /\ m.trail = "FREED"

\* Mutant: the index is never wrapped.
NextFifoIdxNoWrap(i) == i + 1

\* Mutant: the index wraps one slot early.
NextFifoIdxEarly(i) == IF i + 2 >= FIFO_SIZE THEN 0 ELSE i + 1

\* the ring index after an insertion (free_fifo_idx++, wrap at FIFO_SIZE)
NextFifoIdx(i) == IF i + 1 = FIFO_SIZE THEN 0 ELSE i + 1

\* mc_orig_free: glibc keeps its free-list links at the start of the chunk.
LibcFree(b) ==
    /\ heap' = [heap EXCEPT ![b] = "free"]
    /\ mem' = [mem EXCEPT ![b].lead = "JUNK"]

\* mc_find_ptr_hashtable: the records of a table for a pointer (none: NULL).
FindPtr(tab, b) == {r \in tab : r.buf = b}

\* mc_remove_ptr_hashtable: the tables that can result from unlinking the
\* node of a pointer; the table is left alone when it has none.
RemovePtr(tab, b) ==
    IF FindPtr(tab, b) = {} THEN {tab} ELSE {tab \ {r} : r \in FindPtr(tab, b)}

Report(kinds, b) == log' = log \cup {[kind |-> k, buf |-> b, ep |-> epoch[b]] : k \in kinds}

-----------------------------------------------------------------------------
Init ==
    /\ heap = [b \in Bufs |-> "free"]
    /\ mem = [b \in Bufs |-> [lead |-> "JUNK", usr |-> "JUNK", trail |-> "JUNK"]]
    /\ allocTab = {}
    /\ freeTab = {}
    /\ ring = [i \in 0 .. FIFO_SIZE - 1 |-> NoRec]
    /\ fifoIdx = 0
    /\ numAllocMemblk = 0
    /\ numAllocCnt = 0
    /\ numFreeCnt = 0
    /\ allocatedSize = 0
    /\ histogram = [i \in 0 .. HISTO_BINS - 1 |-> 0]
    /\ manageHolder = NoRec
    /\ pc = [t \in Threads |-> "idle"]
    /\ call = [t \in Threads |-> "none"]
    /\ ptr = [t \in Threads |-> NoBuf]
    /\ cur = [t \in Threads |-> NoBuf]
    /\ newp = [t \in Threads |-> NoBuf]
    /\ sz = [t \in Threads |-> 0]
    /\ rec = [t \in Threads |-> NoRec]
    /\ old = [t \in Threads |-> NoRec]
    /\ rel = [t \in Threads |-> NoBuf]
    /\ calls = [t \in Threads |-> 0]
    /\ wpc = "idle"
    /\ wvisited = {}
    /\ wcur = NoRec
    /\ checks = 0
    /\ held = {}
    /\ ufreed = {}
    /\ epoch = [b \in Bufs |-> 0]
    /\ corrupt = {}
    /\ uafw = {}
    /\ dfree = {}
    /\ log = {}
    /\ freeSeq = [b \in Bufs |-> 0]

-----------------------------------------------------------------------------
(* The program: calls into the intercepted entry points, and the memory   *)
(* errors the tool exists to detect.                                       *)

\* The bookkeeping of a call's entry, shared by malloc, free and realloc.
Enter(t, c, p, next) ==
    /\ pc[t] = "idle"
    /\ calls[t] < MaxCalls
    /\ pc' = [pc EXCEPT ![t] = next]
    /\ call' = [call EXCEPT ![t] = c]
    /\ ptr' = [ptr EXCEPT ![t] = p]
    /\ calls' = [calls EXCEPT ![t] = @ + 1]

CallMalloc(t, s) ==
    /\ Enter(t, "malloc", NoBuf, "m_orig")
    /\ sz' = [sz EXCEPT ![t] = s]
    /\ UNCHANGED <<tool, cur, newp, rec, old, rel, wloc, hist>>

\* free(ptr) on a pointer the program holds or has already freed (a double
\* free), or realloc(ptr, s) on a pointer it holds.  realloc(ptr, 0) is
\* free(ptr); realloc(NULL, s) is malloc(s) and is not a separate case.
CallRelease(t, b, c, s) ==
    /\ Enter(t, c, b, IF s = 0 THEN "f_remove" ELSE "r_find")
    /\ cur' = [cur EXCEPT ![t] = b]
    /\ sz' = [sz EXCEPT ![t] = s]
    /\ newp' = [newp EXCEPT ![t] = NoBuf]
    /\ held' = held \ {b}
    /\ ufreed' = ufreed \cup {b}
    /\ dfree' = IF b \in ufreed THEN dfree \cup {<<b, epoch[b]>>} ELSE dfree
    /\ UNCHANGED <<tool, rec, old, rel, wloc, epoch, corrupt, uafw, log, freeSeq>>

CallFree(t, b) == CallRelease(t, b, "free", 0)
CallRealloc(t, b, s) == CallRelease(t, b, "realloc", s)

\* Out-of-bounds writes into a held block, and a write through a pointer
\* already passed to free while the tool still holds its buffer.
BadWriteAllowed(b) ==
    \/ <<b, epoch[b]>> \in corrupt \cup uafw
    \/ Cardinality(corrupt \cup uafw) < MaxBadWrites

WriteOutOfBounds(b, region) ==
    /\ b \in held
    /\ BadWriteAllowed(b)
    /\ mem' = [mem EXCEPT ![b][region] = "JUNK"]
    /\ corrupt' = corrupt \cup {<<b, epoch[b]>>}
    /\ UNCHANGED <<heap, allocTab, freeTab, ring, fifoIdx, numAllocMemblk,
                   numAllocCnt, numFreeCnt, allocatedSize, histogram,
                   manageHolder, tloc, wloc, held, ufreed, epoch, uafw, dfree,
                   log, freeSeq>>

WriteAfterFree(b) ==
    /\ b \in ufreed \ held
    /\ heap[b] = "used"
    /\ BadWriteAllowed(b)
    /\ mem' = [mem EXCEPT ![b].usr = "DATA"]
    /\ uafw' = uafw \cup {<<b, epoch[b]>>}
    /\ UNCHANGED <<heap, allocTab, freeTab, ring, fifoIdx, numAllocMemblk,
                   numAllocCnt, numFreeCnt, allocatedSize, histogram,
                   manageHolder, tloc, wloc, held, ufreed, epoch, corrupt,
                   dfree, log, freeSeq>>

-----------------------------------------------------------------------------
(* malloc (memchk_hook.c) and mc_register_memblk.                          *)

\* The locals of a user thread's current call.
TLocals == <<call, ptr, cur, newp, sz, rec, old, rel>>

\* The intercepted call returns to the program; its locals are dead.
Returns(t) ==
    /\ pc' = [pc EXCEPT ![t] = "idle"]
    /\ call' = [call EXCEPT ![t] = "none"]
    /\ ptr' = [ptr EXCEPT ![t] = NoBuf]
    /\ cur' = [cur EXCEPT ![t] = NoBuf]
    /\ newp' = [newp EXCEPT ![t] = NoBuf]
    /\ sz' = [sz EXCEPT ![t] = 0]
    /\ rec' = [rec EXCEPT ![t] = NoRec]
    /\ old' = [old EXCEPT ![t] = NoRec]
    /\ rel' = [rel EXCEPT ![t] = NoBuf]

\* What the caller does with malloc's result p: malloc returns it; realloc
\* returns NULL if it is NULL, else (memcpy, then) frees the old pointer.
MallocReturns(t, p) ==
    IF call[t] = "malloc" \/ p = NoBuf
    THEN /\ Returns(t)
         /\ IF p = NoBuf /\ call[t] = "realloc"
            THEN /\ held' = held \cup {ptr[t]}
                 /\ ufreed' = ufreed \ {ptr[t]}
            ELSE /\ held' = IF p = NoBuf THEN held ELSE held \cup {p}
                 /\ UNCHANGED ufreed
    ELSE /\ pc' = [pc EXCEPT ![t] = "f_remove"]
         /\ cur' = [cur EXCEPT ![t] = ptr[t]]
         /\ newp' = [newp EXCEPT ![t] = p]
         /\ UNCHANGED <<call, ptr, sz, rec, old, rel, held, ufreed>>

\* mc_orig_malloc(size + 2 * REDZONE_SIZE): the real allocator hands out a
\* free buffer, or NULL when it has none.
MallocOrig(t) ==
    /\ pc[t] = "m_orig"
    /\ \/ \E b \in Bufs :
             /\ heap[b] = "free"
             /\ heap' = [heap EXCEPT ![b] = "used"]
             /\ cur' = [cur EXCEPT ![t] = b]
             /\ epoch' = [epoch EXCEPT ![b] = @ + 1]
             /\ ufreed' = ufreed \ {b}
             /\ freeSeq' = [freeSeq EXCEPT ![b] = 0]
             /\ pc' = [pc EXCEPT ![t] = "m_reg"]
             /\ UNCHANGED <<call, ptr, newp, sz, rec, old, rel, held>>
       \/ /\ \A b \in Bufs : heap[b] = "used"
          /\ MallocReturns(t, NoBuf)
          /\ UNCHANGED <<heap, epoch, freeSeq>>
    /\ UNCHANGED <<mem, allocTab, freeTab, ring, fifoIdx, numAllocMemblk,
                   numAllocCnt, numFreeCnt, allocatedSize, histogram,
                   manageHolder, calls, wloc, corrupt, uafw, dfree, log>>

\* mc_register_memblk up to the hash insertion: allocate the record (the
\* pool may fail: the error is printed and malloc still returns the user
\* pointer, untracked), arm the redzones, fill the user region, and insert
\* the record in the live table.  The buffer is reachable by nobody else
\* until the insertion, so the three are one step.
MallocRegister(t) ==
    /\ pc[t] = "m_reg"
    /\ \/ /\ RegisterMayFail
          /\ MallocReturns(t, cur[t])
          /\ UNCHANGED <<mem, allocTab>>
       \/ /\ mem' = [mem EXCEPT ![cur[t]] = SetAllocatedBuffer(@, TRUE)]
          /\ allocTab' = allocTab \cup {[buf |-> cur[t], size |-> sz[t]]}
          /\ pc' = [pc EXCEPT ![t] = "m_cnt"]
          /\ UNCHANGED <<TLocals, held, ufreed>>
    /\ UNCHANGED <<heap, freeTab, ring, fifoIdx, numAllocMemblk,
                   numAllocCnt, numFreeCnt, allocatedSize, histogram,
                   manageHolder, calls, wloc, epoch, corrupt, uafw, dfree,
                   log, freeSeq>>

\* The counters and the histogram, under the manage lock.
MallocCount(t) ==
    /\ pc[t] = "m_cnt"
    /\ manageHolder = NoRec
    /\ numAllocCnt' = numAllocCnt + 1
    /\ numAllocMemblk' = numAllocMemblk + 1
    /\ allocatedSize' = allocatedSize + sz[t]
    /\ histogram' = UpdateHistogram(histogram, sz[t], 1)
    /\ MallocReturns(t, cur[t])
    /\ UNCHANGED <<heap, mem, allocTab, freeTab, ring, fifoIdx, numFreeCnt,
                   manageHolder, calls, wloc, epoch, corrupt, uafw, dfree,
                   log, freeSeq>>

-----------------------------------------------------------------------------
(* free (memchk_hook.c) and mc_unregister_memblk.                          *)

\* Mutant: a lookup that misses is retried instead of failing.
ReallocFindRetry(t) ==
    /\ pc[t] = "r_find"
    /\ IF FindPtr(allocTab, ptr[t]) # {}
       THEN pc' = [pc EXCEPT ![t] = "m_orig"]
       ELSE UNCHANGED pc
    /\ UNCHANGED <<tool, TLocals, calls, wloc, hist>>

\* realloc: mc_handle_realloc_memblk looks the pointer up in the live
\* table; when it is not there realloc prints to stdout and returns NULL.
ReallocFind(t) ==
    /\ pc[t] = "r_find"
    /\ IF FindPtr(allocTab, ptr[t]) # {}
       THEN /\ pc' = [pc EXCEPT ![t] = "m_orig"]
            /\ UNCHANGED <<TLocals, held, ufreed>>
       ELSE /\ Returns(t)
            /\ held' = held \cup {ptr[t]}
            /\ ufreed' = ufreed \ {ptr[t]}
    /\ UNCHANGED <<tool, calls, wloc, epoch, corrupt, uafw, dfree, log,
                   freeSeq>>

\* free(): mc_orig_free(buf_to_be_freed) unless it is NULL, and the call
\* (free, or the realloc that freed its old pointer) returns.
FinishFree(t, x) ==
    /\ IF x = NoBuf THEN UNCHANGED <<heap, mem>> ELSE LibcFree(x)
    /\ held' = IF newp[t] = NoBuf THEN held ELSE held \cup {newp[t]}
    /\ Returns(t)

\* Variables the free path never touches.
FreeFrame == <<calls, wloc, ufreed, epoch, corrupt, uafw, dfree>>

\* __handle_illegally_freed_buffer: a double free if the freed table has
\* the pointer, an illegal free otherwise.
HandleIllegallyFreed(b) ==
    Report({IF FindPtr(freeTab, b) # {} THEN "double" ELSE "illegal"}, b)

\* mc_remove_ptr_hashtable on the live table; a pointer not there is
\* reported and *buf_to_be_freed = NULL: nothing is released.
FreeRemove(t) ==
    /\ pc[t] = "f_remove"
    /\ \/ \E r \in FindPtr(allocTab, cur[t]) :
             /\ allocTab' = allocTab \ {r}
             /\ rec' = [rec EXCEPT ![t] = r]
             /\ pc' = [pc EXCEPT ![t] = "f_check"]
             /\ UNCHANGED <<heap, mem, call, ptr, cur, newp, sz, old, rel,
                            held, log>>
       \/ /\ FindPtr(allocTab, cur[t]) = {}
          /\ HandleIllegallyFreed(cur[t])
          /\ FinishFree(t, NoBuf)
          /\ UNCHANGED allocTab
    /\ UNCHANGED <<freeTab, ring, fifoIdx, numAllocMemblk, numAllocCnt,
                   numFreeCnt, allocatedSize, histogram, manageHolder,
                   FreeFrame, freeSeq>>

\* mc_check_allocated_buffer(alloc_memblk, 1), then mc_allocate_free_memblk.
\* On a pool failure the live record is released and -1 returned without
\* setting *buf_to_be_freed, which free() reads uninitialized: NULL or any
\* stale buffer address.
FreeCheck(t) ==
    /\ pc[t] = "f_check"
    /\ Report(CheckAllocatedBuffer(mem[cur[t]]), cur[t])
    /\ \/ /\ pc' = [pc EXCEPT ![t] = "f_setfreed"]
          /\ UNCHANGED <<heap, mem, held, TLocals>>
       \/ /\ UnregisterMayFail
          /\ \E x \in Bufs \cup {NoBuf} : FinishFree(t, x)
    /\ UNCHANGED <<allocTab, freeTab, ring, fifoIdx, numAllocMemblk,
                   numAllocCnt, numFreeCnt, allocatedSize, histogram,
                   manageHolder, FreeFrame, freeSeq>>

\* mc_set_freed_buffer(free_memblk), then mc_add_ptr_hashtable on the
\* freed table (the freed record is reachable by nobody before that).
FreeSetFreed(t) ==
    /\ pc[t] = "f_setfreed"
    /\ mem' = [mem EXCEPT ![cur[t]] = SetFreedBuffer(@)]
    /\ freeTab' = freeTab \cup {rec[t]}
    /\ pc' = [pc EXCEPT ![t] = "f_ring"]
    /\ UNCHANGED <<heap, allocTab, ring, fifoIdx, numAllocMemblk,
                   numAllocCnt, numFreeCnt, allocatedSize, histogram,
                   manageHolder, TLocals, held, FreeFrame, log, freeSeq>>

\* Under the manage lock: the counters, the histogram, and the ring slot
\* swap.  The record previously in the slot is evicted after the unlock;
\* an empty slot leaves buf_to_be_freed NULL and free returns.
FreeRing(t) ==
    /\ pc[t] = "f_ring"
    /\ manageHolder = NoRec
    /\ numFreeCnt' = numFreeCnt + 1
    /\ numAllocMemblk' = numAllocMemblk - 1
    /\ allocatedSize' = allocatedSize - rec[t].size
    /\ histogram' = UpdateHistogram(histogram, rec[t].size, -1)
    /\ ring' = [ring EXCEPT ![fifoIdx] = rec[t]]
    /\ fifoIdx' = NextFifoIdx(fifoIdx)
    /\ freeSeq' = [freeSeq EXCEPT ![cur[t]] = numFreeCnt + 1]
    /\ IF ring[fifoIdx] = NoRec
       THEN FinishFree(t, NoBuf)
       ELSE /\ old' = [old EXCEPT ![t] = ring[fifoIdx]]
            /\ pc' = [pc EXCEPT ![t] = "f_evict"]
            /\ UNCHANGED <<heap, mem, call, ptr, cur, newp, sz, rec, rel, held>>
    /\ UNCHANGED <<allocTab, freeTab, numAllocCnt, manageHolder, FreeFrame,
                   log>>

\* Mutant: the buffer being freed is released instead of the evicted one.
FreeEvictSwap(t) ==
    /\ pc[t] = "f_evict"
    /\ freeTab' \in RemovePtr(freeTab, old[t].buf)
    /\ rel' = [rel EXCEPT ![t] = cur[t]]
    /\ pc' = [pc EXCEPT ![t] = "f_release"]
    /\ UNCHANGED <<heap, mem, allocTab, ring, fifoIdx, numAllocMemblk,
                   numAllocCnt, numFreeCnt, allocatedSize, histogram,
                   manageHolder, call, ptr, cur, newp, sz, rec, old, held,
                   FreeFrame, log, freeSeq>>

\* Mutant: the evicted buffer is released without leaving the freed table.
FreeEvictKeep(t) ==
    /\ pc[t] = "f_evict"
    /\ rel' = [rel EXCEPT ![t] = old[t].buf]
    /\ pc' = [pc EXCEPT ![t] = "f_release"]
    /\ UNCHANGED <<tool, call, ptr, cur, newp, sz, rec, old, held, FreeFrame,
                   log, freeSeq>>

\* The eviction: mc_check_freed_buffer(old_free_memblk), the removal from
\* the freed table, *buf_to_be_freed = old buffer, mc_free_free_memblk.
FreeEvict(t) ==
    /\ pc[t] = "f_evict"
    /\ LET b == old[t].buf
       IN /\ Report(IF FreedBufferIntact(mem[b]) THEN {} ELSE {"uaf"}, b)
          /\ freeTab' \in RemovePtr(freeTab, b)
          /\ rel' = [rel EXCEPT ![t] = b]
    /\ pc' = [pc EXCEPT ![t] = "f_release"]
    /\ UNCHANGED <<heap, mem, allocTab, ring, fifoIdx, numAllocMemblk,
                   numAllocCnt, numFreeCnt, allocatedSize, histogram,
                   manageHolder, call, ptr, cur, newp, sz, rec, old, held,
                   FreeFrame, freeSeq>>

\* mc_orig_free(buf_to_be_freed) for the evicted buffer.
FreeRelease(t) ==
    /\ pc[t] = "f_release"
    /\ FinishFree(t, rel[t])
    /\ UNCHANGED <<allocTab, freeTab, ring, fifoIdx, numAllocMemblk,
                   numAllocCnt, numFreeCnt, allocatedSize, histogram,
                   manageHolder, FreeFrame, log, freeSeq>>

-----------------------------------------------------------------------------
(* mc_check_all_memblk on the worker: the manage lock is held for the     *)
(* whole sweep, the pointer-table lock is not taken, so the tables may    *)
(* change under the iteration; the node order is the bucket order.         *)

WorkerLocked == <<heap, allocTab, freeTab, ring, fifoIdx, numAllocMemblk,
                  numAllocCnt, numFreeCnt, allocatedSize, histogram, tloc,
                  hist>>

CheckAllStart ==
    /\ wpc = "idle"
    /\ checks < MaxChecks
    /\ manageHolder = NoRec
    /\ manageHolder' = Worker
    /\ wpc' = "w_alloc"
    /\ wvisited' = {}
    /\ UNCHANGED <<heap, mem, allocTab, freeTab, ring, fifoIdx,
                   numAllocMemblk, numAllocCnt, numFreeCnt, allocatedSize,
                   histogram, tloc, wcur, checks, hist>>

\* for_each_hashnode over a table: visit a node not yet visited, or leave.
CheckAllNext(tab, here, chk, after) ==
    /\ wpc = here
    /\ \/ \E r \in tab \ wvisited :
             /\ wcur' = r
             /\ wvisited' = wvisited \cup {r}
             /\ wpc' = chk
       \/ /\ tab \subseteq wvisited
          /\ wvisited' = {}
          /\ wpc' = after
          /\ wcur' = NoRec

CheckAllLiveNext ==
    /\ CheckAllNext(allocTab, "w_alloc", "w_chk", "w_free")
    /\ UNCHANGED <<WorkerLocked, mem, manageHolder, checks>>

\* mc_check_allocated_buffer(alloc_memblk, 0); re-arm on a violation.
CheckAllLiveCheck ==
    /\ wpc = "w_chk"
    /\ LET ks == CheckAllocatedBuffer(mem[wcur.buf])
       IN /\ log' = log \cup {[kind |-> k, buf |-> wcur.buf, ep |-> epoch[wcur.buf]] : k \in ks}
          /\ wpc' = IF ks = {} THEN "w_alloc" ELSE "w_rearm"
    /\ UNCHANGED <<heap, mem, allocTab, freeTab, ring, fifoIdx, numAllocMemblk,
                   numAllocCnt, numFreeCnt, allocatedSize, histogram,
                   manageHolder, tloc, wvisited, wcur, checks, held, ufreed,
                   epoch, corrupt, uafw, dfree, freeSeq>>

\* mc_set_allocated_buffer(alloc_memblk, 0)
CheckAllLiveRearm ==
    /\ wpc = "w_rearm"
    /\ mem' = [mem EXCEPT ![wcur.buf] = SetAllocatedBuffer(@, FALSE)]
    /\ wpc' = "w_alloc"
    /\ UNCHANGED <<WorkerLocked, manageHolder, wvisited, wcur, checks>>

CheckAllFreedNext ==
    /\ \/ /\ CheckAllNext(freeTab, "w_free", "w_fchk", "idle")
          /\ IF wpc' = "idle"
             THEN /\ manageHolder' = NoRec
                  /\ checks' = checks + 1
             ELSE UNCHANGED <<manageHolder, checks>>
    /\ UNCHANGED <<WorkerLocked, mem>>

\* mc_check_freed_buffer(free_memblk); re-arm on a violation.
CheckAllFreedCheck ==
    /\ wpc = "w_fchk"
    /\ IF FreedBufferIntact(mem[wcur.buf])
       THEN /\ wpc' = "w_free"
            /\ UNCHANGED log
       ELSE /\ wpc' = "w_frearm"
            /\ log' = log \cup {[kind |-> "uaf", buf |-> wcur.buf, ep |-> epoch[wcur.buf]]}
    /\ UNCHANGED <<heap, mem, allocTab, freeTab, ring, fifoIdx, numAllocMemblk,
                   numAllocCnt, numFreeCnt, allocatedSize, histogram,
                   manageHolder, tloc, wvisited, wcur, checks, held, ufreed,
                   epoch, corrupt, uafw, dfree, freeSeq>>

\* mc_set_freed_buffer(free_memblk)
CheckAllFreedRearm ==
    /\ wpc = "w_frearm"
    /\ mem' = [mem EXCEPT ![wcur.buf] = SetFreedBuffer(@)]
    /\ wpc' = "w_free"
    /\ UNCHANGED <<WorkerLocked, manageHolder, wvisited, wcur, checks>>

-----------------------------------------------------------------------------
\* Every call has returned, every sweep has run: the run is over.
Finished ==
    /\ \A t \in Threads : pc[t] = "idle" /\ calls[t] = MaxCalls
    /\ wpc = "idle" /\ checks = MaxChecks
    /\ UNCHANGED vars

ThreadStep(t) ==
    \/ MallocOrig(t) \/ MallocRegister(t) \/ MallocCount(t)
    \/ ReallocFind(t)
    \/ FreeRemove(t) \/ FreeCheck(t) \/ FreeSetFreed(t) \/ FreeRing(t)
    \/ FreeEvict(t) \/ FreeRelease(t)

WorkerStep ==
    \/ CheckAllStart \/ CheckAllLiveNext \/ CheckAllLiveCheck
    \/ CheckAllLiveRearm \/ CheckAllFreedNext \/ CheckAllFreedCheck
    \/ CheckAllFreedRearm

Program ==
    \/ \E t \in Threads, s \in Sizes : CallMalloc(t, s)
    \/ \E t \in Threads, b \in held \cup ufreed : CallFree(t, b)
    \/ \E t \in Threads, b \in held, s \in Sizes \cup {0} : CallRealloc(t, b, s)
    \/ \E b \in Bufs : \/ WriteOutOfBounds(b, "lead")
                       \/ WriteOutOfBounds(b, "trail")
                       \/ WriteAfterFree(b)

Next ==
    \/ Program
    \/ \E t \in Threads : ThreadStep(t)
    \/ WorkerStep
    \/ Finished

\* Every thread runs its intercepted call to the end, and the worker its
\* sweep: each is a pthread the scheduler keeps running.  The program's
\* own calls and writes are not required to happen.
Fairness ==
    /\ \A t \in Threads : WF_vars(ThreadStep(t))
    /\ WF_vars(WorkerStep)

Spec == Init /\ [][Next]_vars /\ Fairness

-----------------------------------------------------------------------------
(* Properties.                                                             *)

TypeOK ==
    /\ heap \in [Bufs -> {"free", "used"}]
    /\ mem \in [Bufs -> Mem]
    /\ allocTab \subseteq Rec /\ freeTab \subseteq Rec
    /\ ring \in [0 .. FIFO_SIZE - 1 -> Rec \cup {NoRec}]
    /\ fifoIdx \in 0 .. FIFO_SIZE - 1
    /\ {numAllocCnt, numFreeCnt} \subseteq Nat
    /\ numAllocMemblk \in Int /\ allocatedSize \in Int
    /\ histogram \in [0 .. HISTO_BINS - 1 -> Int]
    /\ manageHolder \in Threads \cup {Worker, NoRec}
    /\ pc \in [Threads -> {"idle", "m_orig", "m_reg", "m_cnt", "r_find",
                            "f_remove", "f_check", "f_setfreed", "f_ring",
                            "f_evict", "f_release"}]
    /\ cur \in [Threads -> Bufs \cup {NoBuf}]
    /\ rec \in [Threads -> Rec \cup {NoRec}]
    /\ old \in [Threads -> Rec \cup {NoRec}]
    /\ rel \in [Threads -> Bufs \cup {NoBuf}]
    /\ calls \in [Threads -> 0 .. MaxCalls]
    /\ wpc \in {"idle", "w_alloc", "w_chk", "w_rearm", "w_free", "w_fchk",
                "w_frearm"}
    /\ checks \in 0 .. MaxChecks
    /\ log \subseteq [kind : Kinds, buf : Bufs, ep : Nat]

\* The share of a quantity f of the records the counters account for: the
\* records of the live table, less those inserted by a malloc that has not
\* reached MANAGE_LOCK yet, plus those a free has taken out of the table
\* and not yet deducted.  Summed per record and per thread: two in-flight
\* calls can carry equal records.
Accounted(f(_)) ==
    MapThenSumSet(f, allocTab)
    - MapThenSumSet(LAMBDA t : IF pc[t] = "m_cnt"
                               THEN f([buf |-> cur[t], size |-> sz[t]]) ELSE 0,
                    Threads)
    + MapThenSumSet(LAMBDA t : IF pc[t] \in {"f_check", "f_setfreed", "f_ring"}
                               THEN f(rec[t]) ELSE 0,
                    Threads)

\* num_alloc_memblk, allocated_size and the histogram, updated under the
\* manage lock by mc_register_memblk and mc_unregister_memblk, always
\* describe the records of the live table, and num_alloc_cnt - num_free_cnt
\* equals num_alloc_memblk (what mc_print_memblk_histogram prints).
CountersMatchRegistry ==
    /\ numAllocMemblk = Accounted(LAMBDA r : 1)
    /\ allocatedSize = Accounted(LAMBDA r : r.size)
    /\ \A i \in 0 .. HISTO_BINS - 1 :
          histogram[i] = Accounted(LAMBDA r : IF HistoBin(r.size) = i THEN 1 ELSE 0)
    /\ numAllocCnt - numFreeCnt = numAllocMemblk

\* Every report the tool writes is about a real error of the program: an
\* underrun or overrun report from mc_check_allocated_buffer, or a
\* use-after-free report from mc_check_freed_buffer, is about a buffer
\* lifetime the program wrote out of bounds, wrote after free, or freed
\* twice (after which the program's own view of the buffer is void); an
\* illegal or double free report from __handle_illegally_freed_buffer
\* follows a second free of that buffer.
NoFalseAlarm ==
    \A e \in log :
        /\ e.kind \in {"underrun", "overrun", "uaf"} =>
              <<e.buf, e.ep>> \in corrupt \cup uafw \cup dfree
        /\ e.kind \in {"illegal", "double"} => \E d \in dfree : d[1] = e.buf

\* A buffer the tool has handed back to the real allocator (mc_orig_free in
\* free) is referenced by no record of the live table, the freed table or
\* the delayed-free ring.
ReleasedUntracked ==
    \A b \in Bufs : heap[b] = "free" =>
        /\ \A r \in allocTab \cup freeTab : r.buf # b
        /\ \A i \in 0 .. FIFO_SIZE - 1 : ring[i] = NoRec \/ ring[i].buf # b

\* A freed buffer is kept out of the real allocator until FIFO_SIZE later
\* frees have passed through free_memblk_array: the ring is a FIFO whose
\* eviction is the only path to mc_orig_free.
RetentionBound ==
    [][\A b \in Bufs :
         heap[b] = "used" /\ heap'[b] = "free" =>
             freeSeq[b] > 0 /\ numFreeCnt >= freeSeq[b] + FIFO_SIZE]_vars

\* The tool never writes into memory it has returned to the real
\* allocator: the redzone and freed patterns written by check-all and the
\* free path land only in buffers it owns.
ToolNeverWritesReleased ==
    [][\A b \in Bufs :
         heap[b] = "free" /\ heap'[b] = "free" => mem'[b] = mem[b]]_vars

\* Every intercepted malloc, free and realloc returns to the program: a
\* thread waiting for the manage lock, which check-all holds across its
\* sweep, gets it once the sweep ends, and no path of mc_register_memblk,
\* mc_unregister_memblk or realloc loops or is left without a return.
CallsReturn == \A t \in Threads : pc[t] # "idle" ~> pc[t] = "idle"

=============================================================================
