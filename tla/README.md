# TLA+ models of memchk

memchk is an `LD_PRELOAD` heap debugger. It replaces `malloc`, `free`,
`realloc` and friends. Around every user buffer it puts two 16-byte redzones
(`0x5a`), and it fills fresh user memory with `0xa5`. It keeps every live
allocation in a hash table. It holds freed buffers back from libc in a
128-slot delayed-free ring, filled with `0xcc`, so that a later write through
a stale pointer can be detected. On a signal, a worker thread runs
diagnostic commands (check-all, status, snapshots, listings).

This directory holds TLA+ models of the parts whose correctness depends on
interleavings, failures and bounded resources, together with TLC
configurations that check them.

## 1. Inventory

### Components, their state and operations

| component | source | state | operations |
|---|---|---|---|
| interception entry points | `memchk_hook.c` | `do_not_hook` counter under a recursive hook lock | `malloc`, `free`, `realloc`, `calloc`, aligned allocators |
| registry manager | `memchk_manage_memblk.c` | live table, freed table, delayed-free ring and its index, counters (`num_alloc_memblk`, `num_alloc_cnt`, `num_free_cnt`, `allocated_size`), histogram, manage lock | `mc_register_memblk`, `mc_unregister_memblk`, `mc_handle_realloc_memblk`, `mc_check_all_memblk`, getters, print functions, snapshot create/destroy/compare |
| redzone guard | `memchk_buffer.c` | the bytes of each buffer | set/check allocated, set/check freed |
| hash tables | `memchk_hashtable.c` | bucket chains, one recursive lock shared by all pointer tables, a separate call-stack table lock | add, remove (first match), find |
| pool allocator | `memchk_allocator.c`, `memchk_alloc_blk.c` | `mmap`ped pools with a bitmap of free slots, `num_free`, a `next_available` cache, one allocator lock | alloc (scan from cache, else map a batch of 4 pages), free (clear the bit, re-cache) |
| call-stack engine | `memchk_callstack.c` | call-stack table with usage counts; per-call-stack group lists of blocks | get (find or insert), link/unlink a block in a group, reset |
| snapshot and diff | `memchk_snapshot.c` | snapshot table copy, per-call-stack groups | duplicate, destroy, compare (exact match, else same call stack and size) |
| virtual-memory accountant | `memchk_virtmem.c` | sorted list of page regions from a pool | register block (merge), count, free all |
| signal dispatcher | `memchk_signal.c` | `__cmd`, mutex, condition variable, worker thread | handlers call `notify`; the worker waits, then executes the command while holding the mutex |
| file maps and symbol lookup | `memchk_filemap.c`, `memchk_symbol.c` | an `mmap`ped table of executable mappings, each with a BFD handle and a symbol table; `__usage_cnt`; a file-map mutex | init (share or build), find-and-init per frame, term (the last session tears down) |
| bootstrap, log, client, utilities | `memchk_init.c`, `memchk_log.c`, `memchk_client.c`, `memchk_util.c`, `memchk_sort.c` | `dlsym` pointers, the log file | I/O and formatting |

### How the components interact

A user thread's `malloc` calls libc for `size + 32` bytes. It then calls
`mc_register_memblk`, which:
1. takes a record from the pool allocator;
2. arms the redzones;
3. inserts the record into the live table (pointer-table lock);
4. updates the counters (manage lock).

`free` calls `mc_unregister_memblk`, which:
1. removes the record from the live table;
2. checks the redzones;
3. takes a freed record from the pool;
4. fills the buffer with `0xcc`;
5. inserts the record into the freed table;
6. under the manage lock, updates the counters and swaps the record into ring slot `free_fifo_idx`;
7. after the unlock, checks the evicted record's buffer, removes it from the freed table, and hands its buffer back to `free`, which calls libc.

`realloc` looks the pointer up, calls `malloc`, copies, and calls `free`.

The worker's check-all holds the manage lock for a whole sweep of both
tables. It does *not* take the pointer-table lock, and it re-arms any buffer
that fails its check.

### What is hard

- Each of the steps above is a separate critical section under a different
  lock. Another thread, or the check-all sweep, sees the tables and the
  counters between those steps.
- check-all reads records that frees are concurrently unlinking and
  releasing.
- A pool failing in the middle of unregistration leaves `free()` reading
  an uninitialized pointer.
- The delayed-free ring must keep each buffer for exactly `FIFO_SIZE` frees.
- Double frees of pointers that libc has already reissued to another
  thread.
- The signal dispatcher's one-slot command hand-off, and handlers running
  on threads that hold locks.
- Bounded pools: the `next_available` cache and batch mapping.
- The page-region merge list.
- The file-map table shared by several threads' call-stack printing
  through a reference count, and the BFD error paths behind it.

### What makes each component correct

- **Registry:**
  - the counters and histogram always describe the live table;
  - every report is about a real program error;
  - a buffer returned to libc is referenced by no table and no ring slot;
  - the ring holds every freed buffer for `FIFO_SIZE` later frees;
  - the tool never writes memory it has returned to libc;
  - every call returns.
- **Pool allocator:** no slot is issued twice; `num_free` equals the
  bitmap's free count; a freed slot is reusable. The plan also asks that
  no new batch be mapped while a slot is free.
- **Call-stack engine:** at most one entry per distinct stack; usage
  counts equal the number of referencing records; group lists stay
  well-formed doubly-linked lists.
- **Snapshot and diff:** the remaining records equal the bag difference
  of the current and the snapshot (call stack, size) pairs.
- **Virtual-memory accountant:** the region list is a sorted list of
  disjoint regions; its pages are pages of registered blocks; the usage
  returned counts each page that a live block touches once.
- **File maps:** `__usage_cnt` counts the open sessions; no lookup
  reads an unmapped table or freed symbols; the last session out releases
  every BFD handle and symbol table.
- **Dispatcher:** no command is lost or run twice; every stored command
  runs; no thread waits, through a chain of locks, for itself.

## 2. Plan

Most important first:

1. **`Registry`**, with `MCRegistry` (done). It covers the registry manager,
   the redzone guard, the pointer tables, and `malloc`/`free`/`realloc`, run
   by several user threads, plus the check-all sweep of the worker. Pool
   failures are nondeterministic choices.
2. **`PoolAllocator`** (done), with `SlotAllocator`. It models bitmap pools with
   a word-width parameter, the `next_available` cache, batch mapping, and
   `__get_lowest_bit` as an operator checked against a reference. It is
   shown to refine an abstract set allocator, `SlotAllocator`, via
   `INSTANCE ... WITH`.
3. **`CallStack`**: the group lists are modelled in `SnapshotDiff`; what is
   left is the usage count and the table's own locking, which nothing reads.
4. **`SnapshotDiff`** (done), with `MCSnapshotDiff`. It covers duplicate,
   compare, per-call-stack compare and the listings, and checks the result
   against a bag difference (`Bags`). The call-stack groups are part of it.
5. **`VirtMem`** (done): `__register_block` over a small page space,
   checked against a set-of-pages reference (section 6).
6. **`Dispatcher`** (done): `notify`, the worker loop, and handlers on
   threads that hold locks (section 7).
7. **`FileMaps`** (done): the shared executable-mapping table and the
   symbol lookup, with mmap and BFD failures (section 8).
8. **`BufferLayout`** (done): the size and address arithmetic of every
   allocation entry point, checked once from `MCRegistry` (section 9).
9. **`DelayedFreeFifo`**: an abstract FIFO of freed buffers that `Registry`'s
   ring is shown to refine (ring and index mapped to a sequence).

## 3. Module `Registry`

### State

| TLA+ variable | code |
|---|---|
| `allocTab`, `freeTab` | `mc_alloc_memptr_hashtable`, `free_memptr_hashtable`, as sets of records `[buf, size]` |
| `ring`, `fifoIdx` | `free_memblk_array`, `free_fifo_idx` |
| `numAllocMemblk`, `numAllocCnt`, `numFreeCnt`, `allocatedSize`, `histogram` | the counters of the same names |
| `manageHolder` | owner of the manage lock `__mtx` |
| `heap` | libc's view of each buffer (`free`/`used`) |
| `mem` | the pattern in each buffer's leading redzone, user region and trailing redzone |
| `pc`, `call`, `ptr`, `cur`, `newp`, `sz`, `rec`, `old`, `rel` | the program counter and locals of each user thread's call |
| `wpc`, `wvisited`, `wcur`, `checks` | the worker's sweep position |
| `held`, `ufreed`, `epoch`, `corrupt`, `uafw`, `dfree`, `log`, `freeSeq` | history: what the program holds and has freed, buffer lifetimes, the program's real errors, the reports written, and `num_free_cnt` at each ring entry |

### Actions

Each action is one critical section of the code, in the code's order:

- `MallocOrig`: libc `malloc`; NULL when no buffer is free.
- `MallocRegister`: record allocation, which may fail, plus redzones plus
  insertion.
- `MallocCount`: the counters under the manage lock.
- `ReallocFind`: `mc_handle_realloc_memblk`.
- `FreeRemove`: unlink, or report illegal/double.
- `FreeCheck`: check the redzones, then allocate the freed record, which
  may fail. On failure, `free()` releases whatever its uninitialized local
  holds.
- `FreeSetFreed`: freed pattern plus insertion.
- `FreeRing`: the counters and ring swap under the manage lock.
- `FreeEvict`: check, unlink and hand over the evicted buffer.
- `FreeRelease`: libc `free`.
- `CheckAll*`: the sweep.
- `CallMalloc`, `CallFree`, `CallRealloc`, `WriteOutOfBounds`,
  `WriteAfterFree`: the program, including double frees and the errors
  `mctest.c` makes.

Some neighbouring steps are merged into one action where the state between
them is reachable by nobody else: a fresh buffer before its insertion, and
a freed record before its insertion.

### Properties

- `CountersMatchRegistry`: the counters, byte total and histogram equal
  those of the live table, corrected per thread for records in flight
  between the table step and the counter step. Also
  `num_alloc_cnt - num_free_cnt = num_alloc_memblk`.
- `NoFalseAlarm`: every report is about a buffer lifetime the program
  really corrupted, wrote after free, or freed twice.
- `ReleasedUntracked`: a buffer libc owns is in no table and no ring slot.
- `RetentionBound` (action): a buffer goes back to libc only when at least
  `FIFO_SIZE` frees have entered the ring after it.
- `ToolNeverWritesReleased` (action): a buffer libc owns is never written
  by the tool.
- `CallsReturn` (liveness): every intercepted call returns.

### Runs

| run | cfg | expect | shows |
|---|---|---|---|
| `registry_threads` | `MCRegistry.cfg` | pass | two threads, no worker: all of the first five properties hold (247k states, about 25 s) |
| `registry_pool_failure` | `MCRegistryPoolFail.cfg` | pass | every call returns even with both pools failing and a check-all sweep, after a write past a buffer, holding the manage lock; and, once, the entry points' buffer layout `LayoutArmed` (142k states, about 25 s) |
| `checkall_false_report` | `MCRegistryCheckAllReport.cfg` | violation | check-all reports underrun/overrun on a record a concurrent free just unlinked and filled with `0xcc` (code bug). With `ToolNeverWritesReleased` as the property, the same cfg also shows the sweep writing `0xcc` into a buffer already returned to libc. |
| `unregister_failure_release` | `MCRegistryUnregisterFail.cfg` | violation | the uninitialized `buf_to_be_freed` makes `free()` release a buffer still in the tables (code bug) |

### Bounds

Common to all runs:
- two threads, so every pair of steps interleaves;
- three buffers, so libc can run out and reissue buffers;
- a single user size: 5 (histogram bin 1, so the bin search runs past its
  first iteration) in `MCRegistry.cfg`, and 1 elsewhere. The properties do
  not tell two sizes apart beyond the sums they add.

By run:
- `MCRegistry.cfg` uses `FIFO_SIZE = 2` with `MaxCalls = 3` per thread.
  That is enough frees to fill the ring, evict from it, and wrap the
  index.
- The worker runs use `FIFO_SIZE = 1` and two calls per thread, so an
  eviction happens with two frees.
- `MaxChecks` is 1 in the worker runs: one sweep, interleaved at every
  node visit.
- `MaxBadWrites` is 1: one corrupted lifetime is enough to exercise every
  report path and re-arm.
- `MCRegistryPoolFail.cfg` has one buffer: without symmetry, the liveness
  check of two buffers takes over ten minutes, and one buffer already
  reaches every failure path, the sweep's detection branch and its
  re-arm.

The sweep is not checked against `CountersMatchRegistry` and
`ReleasedUntracked` in a passing run of its own: it does not touch the
counters or the tables, and the pool-failure run cannot check them,
since an unregistration failure breaks them (that is the
`unregister_failure_release` finding).

Symmetry is over threads and buffers, which are model values used only
for equality. `MCRegistryPoolFail.cfg` checks liveness and has no symmetry.

### Fairness

Each user thread and the worker has weak fairness on its own steps. They
are pthreads that the scheduler keeps running, and every lock they wait
for is released by a sweep that ends. The program's own calls and writes
have no fairness, since a program may stop calling.

## 4. Module `PoolAllocator`

`src/memchk_allocator.c` gives the tool its own fixed-size records: the
alloc and free metadata, call stacks and page regions. Each kind has a
chain of pools, with a static head page and later pools mapped in batches
of `MMAP_BATCH_PAGE_NUM` pages. A pool holds `num_memblk_in_pool` slots,
three 64-bit bitmap words (bit set = free) and `num_free`. The head caches
`next_available_pool`.

### State and actions

Pools are numbered in chain order: `__init_header` appends each new pool
after the tail. The model has these variables:
- `bitmap[p][w]`: the words, as naturals below `2^W`;
- `numFree[p]`: `num_free`;
- `nextAvail`: the cached pool;
- `npools`: the number of pools;
- `ret`: the last value `mc_allocator_alloc` returned;
- `issued`: the slots callers hold.

Both entry points hold the allocator mutex for their whole body, so each
is one action:
- **`MallocAlloc`** (`mc_allocator_alloc`) has four disjuncts:
  - the cached pool has a free bit, and that slot is taken;
  - `WalkFrom`, the `while (header && !header->num_free)` loop, reaches a
    later pool with `num_free # 0`, which becomes the cached pool;
  - the walk runs off the tail, so `AppendBatch` (the `__init_header`
    loop) adds `BATCH` fresh pools and the first slot of the first one is
    taken;
  - mmap fails and `NoSlot` is returned.
- **`MallocFree`** (`mc_allocator_free`) sets the bit and increments
  `num_free`. It recaches the pool if its `num_free` now exceeds the
  cached pool's.

`GetLowestBit` translates `__get_lowest_bit`, including its early returns
and its bound tests. `Ffs` is `__builtin_ffsl`, written as a recursive
operator.

### Properties and runs

| run | cfg | expect | shows |
|---|---|---|---|
| `pool_allocator` | `MCPoolAllocator.cfg` | pass | `NumFreeMatchesBitmap`, `IssuedMatchesBitmap` and the refinement `AbsSpec` of `SlotAllocator` (every allocation returns a slot nobody holds and marks exactly it) hold, and `LowestBitCorrect`: `__get_lowest_bit` equals the least free index on every bitmap reached (39k states) |

`NoBatchWhileFree` states spec.md 4.1's "scan sibling pools for a free
slot; map a new batch only if none exists". It is not in a run. With
`W = 1`, `NumBlk = 2`, `BATCH = 4`, `MaxPools = 9`, `MaxOps = 12` and
`MapMayFail = FALSE`, TLC finds it violated. The forward walk from the
cached pool misses a slot freed in an earlier pool, and a new batch is
mapped while that slot is free. This is listed as a hazard
(allocator.c:133).

### Bounds

- `W = 2` and `NumBlk = 3`, so a pool spans a word boundary, as the real
  71- and 167-slot pools do.
- `BATCH = 4`, as in the code. `MaxPools = 9` allows two batches.
- 16 operations. That is enough to fill the head pool, map a batch, walk
  past a full cached pool, free into earlier pools, and recache.
- `MapMayFail` is `TRUE`.

`NumBlk` is at most `3W`: a bitmap cannot represent more slots. The run
keeps `NumBlk < 3W`, as every real pool has (under 192 slots). At `NumBlk = 3W`
`__get_lowest_bit` returns slot 1 of a full pool: with `W = 1, NumBlk = 3`
TLC finds `AbsSpec` and `LowestBitCorrect` violated after the fourth
allocation. That latent bug (line 94) is listed as a hazard.

No fairness is assumed: the allocator promises nothing about progress
beyond each call returning, and each call is a single step.

## 5. Module `SnapshotDiff`

The snapshot/diff engine (`memchk_snapshot.c`) and the worker commands that
drive it (`memchk_manage_memblk.c` 302-501) work on copies of the live
table. The call-stack group lists (`memchk_callstack.c`) hold those copies.

### State

- **Records** are `[ptr, size, cs]`. `cs` is `NoCS` when `mc_get_callstack`
  returned NULL.
- **The live table** is a set with one record per pointer.
- **The snapshot and the two copy tables** (`..._copy`,
  `..._snapshot_copy`) are **bags**. After a failed command a copy table
  can hold the same record twice, and a set would hide that.
- **Group lists**: `grpCur[c]` and `grpSnap[c]` are bags of the records
  linked into call stack `c`'s two lists.
- **`report`** is the latest diff printed, kept with the live table and
  snapshot it was computed for.
- **`crashed`** records a NULL dereference by the worker.

### Actions

User threads `Register`, with the call stack found or inserted, or NULL
when the call-stack pool is exhausted. They `Unregister`, which inserts
the freeing call stack.

Each worker command (`work_thread` in `memchk_signal.c`) is one action:
- create and destroy the snapshot;
- compare, flat or by call stack;
- list all allocations, flat or by call stack.

Each command first duplicates the live table under the pointer-table lock,
then works only on private copies. A call stack a user inserts meanwhile
has empty groups, and no step tells it apart from an earlier one.

The matching loop is the recursive operator `Offset`. `MatchFor` tries the
exact pointer match first, then the first equal-size record of the call
stack's snapshot group. Iteration order and "first" are `CHOOSE`. The
spec leaves the choice open, and the properties are about counts per
call stack and size, which no choice changes.

Every early return is a disjunct. The failures are the constants
`AllocMayFail` (record pool), `SortMayFail` (sort buffer) and
`CallstackMayFail` (call-stack pool).

### Properties and runs

| run | cfg | expect | shows |
|---|---|---|---|
| `snapshot_diff` | `MCSnapshotDiff.cfg` | pass | `DiffMatchesRegistry`: each printed diff is the bag difference of live table and snapshot per (call stack, size), with pointer churn. Group heads are clear between passes (`GroupsClearBetweenPasses`). 72k states. |
| `snapshot_failures` | `MCSnapshotDiffFailures.cfg` | pass | every command and every early return, with all three pools failing. `TypeOK` (each group holds only its own call stack's records) holds (662k states) |

Three bugs are hazards in `PROJECT.json`, found by the properties
above under other constants:
- **The by-call-stack listing (manage_memblk.c:393):** the sort array is
  sized by every call stack's count and filled only for non-empty groups,
  so after a single free the sort and the print loop dereference a NULL
  entry. `MCSnapshotDiffListByCallstack.cfg` (`Commands = {"list_cs"}`,
  `MaxCmds = 1`, `MaxUserOps = 2`) has TLC find `NoNullDeref` violated.
  It is not a run, since any listing after a free shows it.
- **A copy that fails part-way (manage_memblk.c:467):** it is never
  destroyed, so the next compare reports an allocation twice. With
  `AllocMayFail = TRUE`, `Commands = {"create", "compare"}`, `MaxCmds = 3`
  and `MaxUserOps = 2`, TLC finds `DiffMatchesRegistry` violated.
- **A sort buffer that fails (snapshot.c:221):** the group reset is
  skipped. With `SortMayFail = TRUE`, `Commands = {"create", "compare_cs"}`
  and `MaxCmds = 2`, TLC finds `GroupsClearBetweenPasses` violated. In
  `snapshot_failures`, a later compare then prints "-1 blocks decreased",
  which is why `TypeOK` types the counts as integers.

### Bounds

- **`snapshot_diff`:** three pointers, two sizes, two call stacks, five
  user operations and four commands. That allows a snapshot, a free and
  re-registration at the same site under a new address, and two compares.
- **`snapshot_failures`:** two pointers, four user operations and four
  commands.

Symmetry is over pointers and call stacks, which are model values. No
fairness is needed: every property is a safety property.

### Not modelled here

- **Printing:** sort order, formatting and symbol lookup. The sort matters
  only where it dereferences the array.
- **The usage count of a call stack:** it is written and never read.
- **A build defect:** `mc_compare_with_snapshot_by_callstack` calls
  `mc_compare_snapshot_and_current_alloc_memblk_by_callstack`, but only
  `..._per_callstack` is defined, and `mc_sort_per_callstack` is never
  defined. The model takes the intended functions.

## 6. Module `VirtMem`

`VirtMem` models `mc_get_virtual_memory_usage` (`memchk_virtmem.c`). The
function copies the live table and registers the pages of every copied
buffer in a sorted singly linked list of page regions. It then sums the
regions' lengths and frees the list.

### State

- **The pool:** its nodes are slots `1..MaxNodes`, with `next`, `start`
  and `end` fields. `free` is the slots not allocated, handed out lowest
  first as the bitmap pool does. A freed slot keeps its fields.
- **Sentinels:** `HeadNode` (0) is `pageregion_head` and `Nil` is `NULL`.
- **The cache:** `cand` and `prevCand` are `pageregion_cand` and
  `prev_pageregion_cand`.
- **The copied blocks:** `blocks`, as `[addr, size]` records, and `todo`,
  those not yet registered. `Init` enumerates every table of up to
  `MaxBlocks` non-overlapping buffers, through the recursive `Layouts`.

### Actions

- `Duplicate`: the table copy, or its failure, which returns -1 at once.
- `RegisterBlock(b)`: `__register_block`, with four outcomes:
  - the first region of an empty list;
  - an insert before the first region beyond the range, which updates the
    cache;
  - a merge, in which `Absorbed` is the inner loop that frees the regions
    the range reaches;
  - an append.

  The search starts at the cached node when `end[cand] < s`, and at the
  head otherwise. `Scan` is the search loop, a recursive operator. Pool
  exhaustion in any of the three allocations is `RegisterFails`, whose
  -1 the caller ignores.
- `CountAndFree`: `__count_virtual_memory_size` and
  `__free_all_pageregions`, in one step.

### Properties and runs

| run | cfg | expect | shows |
|---|---|---|---|
| `virtmem` | `MCVirtMem.cfg` | pass | `ListWellFormed` (NULL-terminated, only allocated slots, each once, sorted and disjoint) and `RegionsWithinRegistered` hold over every table of up to five one-unit buffers in 14 addresses with page size 2, every registration order and every pool failure (999k states, about 20 s) |
| `stale_pageregion_cand` | `MCVirtMemStaleCand.cfg` | violation | `UsageMatchesPages`: the usage returned is the number of units in the pages the live blocks touch. It is violated: a merge frees the node `pageregion_cand` points to, the next search starts from it, and the new region is linked onto a node no longer on the list (code bug, virtmem.c:100). With one-unit pages and five one-unit blocks at 0, 1, 2, 4 and 6, registered in the order 0, 6, 2, 1, 4, it returns 4 pages instead of 5. Registering 1 frees the `[2,3)` node that `pageregion_cand` points to. Registering 4 starts from it, gets the same slot back from the pool, and links the new node to itself. |

The reference for `UsageMatchesPages` and `RegionsWithinRegistered` is
`Pages(b)`, which takes each address unit of a buffer to its page. It
does not use the masks of lines 50-51, so a wrong rounding in
`PageStart` or `PageEnd` shows up as a violation.

A stale search can also leave two touching regions unmerged. This is
harmless to the count, so `ListWellFormed` asks for `<=` between
consecutive regions rather than a gap.

### Bounds

- **`MCVirtMem.cfg`:** five nodes for five blocks, so the pool fails
  only when `AllocMayFail` chooses it.
- **`MCVirtMemStaleCand.cfg`:** page size 1 and buffers of one or two
  units. The loss needs five blocks, registered in an order in which a
  merge absorbs the cached node and a later block lies beyond it. The
  pass cfg reaches this too: with `UsageMatchesPages` as the invariant,
  TLC finds it violated under `MCVirtMem.cfg`'s constants.

No fairness is assumed: the function is sequential, and all three
properties are safety properties.

## 7. Module `Dispatcher`

`Dispatcher` models the signal dispatcher of `memchk_signal.c` and the
locks it meets.
- A signal handler runs on whichever thread the kernel picks and calls
  `notify`: lock `__mtx`, store `__cmd`, signal `__cond`, unlock.
- The worker holds `__mtx` except inside `pthread_cond_wait`, and runs
  each command with it held.

Only the lock steps are modelled. `Registry` and `SnapshotDiff` model
what the commands do to the data.

### State and actions

- **Locks:** `owner` and `depth` per lock. `hook` and `ptr` are
  recursive (`PTHREAD_RECURSIVE_MUTEX_INITIALIZER_NP`). The others are
  normal mutexes, and a thread that relocks one waits for itself:
  - `mtx`, the dispatcher's `__mtx`;
  - `alloc`;
  - `cstab`, the hash tables' `__callstack_mtx`;
  - `csmtx`, `memchk_callstack.c`'s `CALLSTACK_LOCK`;
  - `manage`.
- **User threads:** `UserStep` takes the next lock or unlock step of
  `malloc` or `free` (`UserLocks`), in code order and nested as in the
  code. `GetCallstack` is `mc_get_callstack`: a hook section, then
  under `CALLSTACK_LOCK` the table lookup, the pool allocation and the
  insertion. `free` ends with the evicted buffer's removal from the
  freed table (manage_memblk.c:214) and its pool release. A corruption
  report's `mc_disable_hook` is left out.
- **Commands:** `CmdSteps` is each command's sequence of lock and unlock
  steps under `__mtx`. A table copy and a table destruction take the pool
  lock inside the pointer-table lock.
- **The worker's steps:**
  - `WorkerStart` is the first lock.
  - `WorkerTest` is the `if (__cmd == 0)` test.
  - `WorkerWake` is the return from `pthread_cond_wait`. It runs
    whatever `__cmd` holds, 0 included, because the test is an `if` and
    not a `while`.
  - `WorkerExec` runs the command, then sets `__cmd = 0`.
  - `SpuriousWakeup` is a return from `pthread_cond_wait` without a
    signal.
- **Signals:** `Deliver(t, c)` is the client's `kill`, which the kernel
  delivers to a thread in `SigThreads`.
  - It pushes a handler frame on `t`, which stops `t`'s own code
    (`Running`).
  - A different signal can nest, since `signal()` blocks only the same
    one.
  - The client's getopt loop sends one `kill` per option, back to back,
    and `kill` returns once the signal is sent. So `Deliver` has no
    guard other than the bound `MaxSignals`.
  - `HandlerLock` and `HandlerNotify` are the two halves of `notify`.
  - A signal thread that is not a user thread runs no allocator code,
    like a program thread that is blocked in a join.

### Properties and runs

| run | cfg | expect | shows |
|---|---|---|---|
| `dispatcher` | `MCDispatcher.cfg` | pass | `CommandsRun`: a command stored in `__cmd` is eventually run and cleared. The signals go to two threads outside the allocator, while two user threads run `malloc` and `free` and the worker races them. 589k states, about 40 s. |
| `dispatcher_deadlock` | `MCDispatcherDeadlock.cfg` | violation | `NoWaitCycle`: no set of threads waits on each other. Handlers may run on every thread, and it fails: a handler run on the worker while it holds `__mtx` waits for itself (code bug, signal.c:93). |

`CommandsRun` is the handshake between `notify` and the worker's
`pthread_cond_wait`. It has to survive the worker's start racing the
first signal, spurious wakeups, and a command stored while the worker is
busy. The mutant that drops `pthread_cond_signal` breaks it. The run
limits where handlers run: on user threads or the worker they deadlock,
which is the violation run. It also gives the signals a single command,
since two different signals on one thread nest and self-deadlock.

`NoWaitCycle` says that the transitive closure (`Relation`) of the
wait-for relation `WaitsFor` is irreflexive. `WaitsFor` relates a thread
to the owner of the lock it is blocked on. Under the violation run's
constants, TLC also finds two other cycles:
- **Nested handlers:** with `SigThreads = {u1, u2}`, a second handler
  runs on a thread whose first handler holds `__mtx`.
- **Handler on a user thread:** with `SigThreads = {u1, u2}` and
  `Cmds = {"create"}`, `u1` is inside `free` holding `__ptr_mtx` when a
  handler interrupts it. The worker, running `create` under `__mtx`,
  waits for `__ptr_mtx`, and the handler waits for `__mtx`
  (signal.c:45).

The lost command is a hazard rather than a run. Under the pass run's
constants, TLC finds `RunsMatchNotifies` violated: two notifies before
the worker clears `__cmd` leave one run for two commands (signal.c:94).

### Bounds and fairness

- **Threads:** two user threads with one call each, the worker, and two
  signal threads. A user thread holds each of its locks, nested ones
  included, at some point while the worker runs a command.
- **Signals:** three `create` signals in the pass run. `create` nests
  the pool lock in the pointer-table lock. The violation run has two
  signals over `create` and `check`.

Each user thread, the worker, and each thread's handler frames have weak
fairness: they are threads and handlers that the kernel keeps running.
`Deliver` and `SpuriousWakeup` have none, since the client may stop
sending and a spurious wakeup may never come. Deadlock is checked in the
pass run. `SpuriousWakeup` keeps a parked worker enabled, so TLC stops
only on a real lock cycle. The violation run does not check deadlock,
because its invariant states the cycle directly.

## 8. Module `FileMaps`

`FileMaps` (with `MCFileMaps` for caller symmetry) models
`memchk_filemap.c` and the lookup of `memchk_symbol.c`. Every report
that prints a call stack runs a *session*:
1. `mc_init_filemaps_from_procmap`;
2. `mc_get_symbol` for each frame, from `mc_print_callstack`;
3. `mc_term_filemaps`.

The callers are the illegal-free report of a user thread
(manage_memblk.c 79-107), the buffer checks (buffer.c 73-87, 119-138),
and the worker's listings and compares (manage_memblk.c 345-353 and
428-436, snapshot.c 158-176 and 203-270). Each of the three calls is made
under `mc_disable_hook`, which holds the global recursive hook lock. Each
call is therefore one atomic step, and the sessions of different threads
interleave between calls. No caller checks the result of the init.

### State and actions

| variable | code |
|---|---|
| `usage`, `cnt` | `__usage_cnt`, `__cnt` |
| `table` | `__filemap`: NULL, mapped, `MAP_FAILED`, or unmapped |
| `abfd[i]`, `symbols[i]` | the entry's BFD handle (open or NULL) and its symbol table (NULL, live, or freed but still pointed to) |
| `inSession[c]`, `sessions` | the caller is between its init and its term; sessions opened |
| `ub` | the undefined behaviour met, after which the process is gone |

| action | code |
|---|---|
| `InitFilemaps(c)` | `__init_filemaps`: a table in use is shared by `__usage_cnt++`. Otherwise it is rebuilt with the current number of mappings and every entry cleared, and a failed `mmap` returns before the count is incremented |
| `GetSymbol(c, i)` | `mc_find_and_init_bfd_filemap` for a frame in entry `i`, then `mc_get_symbol`'s use of the symbols. `BfdOutcome` is what `__init_bfd_filemap` leaves behind on each of its paths |
| `TermFilemaps(c)` | `mc_term_filemaps`: the count is decremented, and the last session runs `__term_bfd_filemap` on every entry and unmaps the table |

A lookup in an entry that already has its handle and usable symbols
changes nothing, so it is left out. The address ranges and names are
abstracted to the entry index. BFD's own search is abstracted to whether
the symbols it is handed are usable.

### Properties and runs

| run | cfg | expect | shows |
|---|---|---|---|
| `filemap` | `MCFileMaps.cfg` | pass | `NoUndefinedBehaviour`: across three callers' overlapping sessions, no lookup or term reads an unmapped table, a NULL handle or freed symbols, or frees them twice. 604 states. |

Its mutant is a term that tears the table down without testing the
count. The table is then unmapped under a caller still in its session.
`UsageMatchesHolders` (`__usage_cnt` equals the number of open sessions)
is stated but is not part of the run. With `mmap` always succeeding, it
only restates the `++` and `--`. It fails when `mmap` fails (below).

Three error paths of the code are hazards in `PROJECT.json`. TLC finds
each under other constants:
- **Canonicalisation fails (filemap.c:100):** the symbols are freed and
  the pointer kept. The last term frees them again, and a later frame in
  that file hands them to BFD. `MCFileMapsCanonFail.cfg`
  (`BfdResults = {"ok", "canonfail"}`) has TLC find
  `NoUndefinedBehaviour` violated in three steps.
- **`mmap` fails (filemap.c:55):** `__filemap = MAP_FAILED` with `__cnt`
  set, and the count is not incremented. With
  `MapResults = {"ok", "fail"}`, `UsageMatchesHolders` is violated after
  the init, and `NoUndefinedBehaviour` one lookup later. The term then
  drives the count to -1, so the next init does not rebuild the table.
- **`bfd_openr` returns NULL (filemap.c:79):** the result is dereferenced
  at once. `BfdResults` containing `"openfail"` shows it.

### Bounds

- **Callers:** three threads (the worker and two user threads). They are
  symmetric model values.
- **Mappings and sessions:** up to three executable mappings and six
  sessions. Each rebuild recounts the mappings, since libraries are loaded
  and unloaded between reports. Every order of two or three overlapping
  sessions occurs. A table is torn down and rebuilt with a different
  count after handles were opened in the earlier one.
- **Outcomes:** in the run, `mmap` succeeds and BFD either reads the
  symbols or finds none.

There is no fairness: callers may stop at any time. `Stopped` is the
final stutter once all sessions have closed.

## 9. Module `BufferLayout`

`Registry` treats a buffer as three regions: a leading redzone, the user
region and a trailing redzone. `BufferLayout` checks that every entry point
of `memchk_hook.c` registers such a layout. It is a module of pure
operators, with no variables. `MCRegistry` instantiates it as `Layout`.

- **Data:** a request is a record of the entry point, `nmems`, the
  alignment and the size. `posix_memalign`, `aligned_alloc` and
  `memalign` share their check and `__aligned_allocator`, so they are one
  entry point.
- **Operators:**
  - `Route` gives what each entry point hands on: the malloc path, or
    `__aligned_allocator` with an alignment, and the user size.
    `calloc` passes the wrapped product. `valloc` and `pvalloc` call
    `memalign(PAGE_SIZE, ...)`. `PvallocSize` is pvalloc's round-up.
  - `Accepted` is the early returns: a zero product for `calloc`, and a
    zero or non-power-of-two alignment (`IsPowerOf2`).
  - `BufSize`, `UsrPtr` and `AlignAddr` are the sums and the align-up
    mask of `malloc` and `__aligned_allocator`.
  - `Leading` and `Trailing` are the extents `mc_set_allocated_buffer`
    arms.
- **Arithmetic:** size_t arithmetic wraps modulo `2^SizeBits`. The mask
  `& ~(a - 1)` of a power of two `a` is `x - x % a`. Addresses are
  user-space addresses and do not wrap.

### Properties and runs

- **`LayoutArmed`:** for every accepted request whose sizes do not wrap,
  and every buffer address the allocator may return:
  - both redzones are at least `REDZONE_SIZE`;
  - the two redzones and the user region tile the buffer;
  - the user pointer has the requested alignment;
  - the user region is at least as large as requested.

  It is constant-level, so TLC evaluates it once in
  `registry_pool_failure` (about 100,000 request and address pairs). The
  mutant `AlignAddrDown`, which drops the `+ alignment - 1`, breaks it.
- **`RequestNeverWraps`:** no accepted request wraps a size. It is stated
  in `MCRegistry` but is not a run, because all twelve run slots are taken.
  TLC finds it false at once. There are three counterexamples:
  - `calloc` of 8 by 8;
  - `malloc` near `SIZE_MAX`;
  - `pvalloc` of the last page, which rounds to 0.

  These are the hazards listed at `memchk_hook.c:35`, `:125` and `:210`.

### Bounds

- **size_t:** 6 bits. Every size_t value is enumerated as a size, and as
  a `calloc` count.
- **Constants:** `memchk.h`'s constants are scaled by 1/8. `REDZONE_SIZE`
  is 2 and `PAGE_SIZE` is 8. glibc's 16-byte malloc alignment becomes 2.
- **Alignments:** every alignment from 0 to 32, so powers of two both
  below and above the redzone occur, along with non-powers.
- **Buffers:** at the sixteen 2-aligned addresses below 32. For every
  alignment these give every 2-aligned residue of `buf + REDZONE_SIZE`, so
  every amount of padding the allocator's alignment allows occurs.

The `int` extents of `mc_check_allocated_buffer` are not modelled. They
truncate only for alignments of 2 GiB and more.

## 10. Not modelled, and why

- **`calloc`'s memset:** no property tells zeroed contents apart. Its
  size arithmetic is in `BufferLayout`.
- **The `do_not_hook` bypass:** the tool's internal allocations never
  reach the registry.
- **The `realloc` memcpy:** user data is not distinguished.
- **Bootstrap:** it runs once before the program's threads exist.
- **Log, utilities, sort:** I/O and formatting. `memchk_log.c` only opens the log file, reads the process name and prints. BFD's symbol search
  inside `mc_get_symbol_from_offset` and the `/proc/self/maps` parsing
  are abstracted in `FileMaps` to what they leave in the table. The
  client's option parsing is not modelled; its `send_signal` is
  `Deliver` in `Dispatcher`.
- **The vmarea bookkeeping of `memchk_virtmem.c`:** `__init_filemaps`,
  `__register_pageregion` and `__print_vmareas` parse `/proc/self/maps`
  and print per-area usage. They do not change the value returned.
- **`get_status`:** a handler that only reads two counters and prints.
- **A build defect in the dispatcher:** `mc_get_physical_memory_status`
  calls `mc_get_physical_memory_usage`, which no file defines, and nothing
  calls `mc_get_virtual_memory_usage`. `VirtMem` models the accountant as
  if the client's `-M` reached it.
