---------------------------- MODULE BufferLayout ----------------------------
(***************************************************************************)
(* The size and address arithmetic of memchk's allocation entry points     *)
(* (src/memchk_hook.c) and the redzone extents that mc_set_allocated_buffer *)
(* arms from the registered layout (src/memchk_buffer.c).                  *)
(*                                                                         *)
(* Every entry point asks the real allocator for one buffer and registers  *)
(* (buf, usrptr, bufsize, usrsize); the leading redzone is                *)
(* usrptr - buf and the trailing one bufsize - leading - usrsize.          *)
(* Registry abstracts a buffer to these three regions; this module checks *)
(* that the entry points compute such a layout.  size_t arithmetic wraps   *)
(* modulo 2^SizeBits; addresses are user-space addresses, far below the    *)
(* top of the address space, and do not wrap.                              *)
(***************************************************************************)
EXTENDS Integers

CONSTANTS
    SizeBits,          \* width of size_t
    REDZONE_SIZE,      \* memchk.h
    PAGE_SIZE,         \* memchk.h
    MALLOC_ALIGNMENT,  \* alignment of the buffers the real allocator returns
    MaxAlign,          \* alignments requested: 0..MaxAlign
    Addrs              \* buffer addresses the real allocator may return

ASSUME SizeBits \in Nat \ {0} /\ REDZONE_SIZE \in Nat /\ PAGE_SIZE \in Nat \ {0}
ASSUME \A b \in Addrs : b % MALLOC_ALIGNMENT = 0

SIZE_MOD == 2^SizeBits
SizeT == 0..(SIZE_MOD - 1)

\* Unsigned size_t arithmetic.
Wrap(x) == x % SIZE_MOD

\* __is_power_of_2: __builtin_popcountl(val) == 1
IsPowerOf2(val) == \E k \in 0..(SizeBits - 1) : val = 2^k

\* Mutant: the mask applied without adding alignment - 1, rounding down.
AlignAddrDown(addr, alignment) ==
    IF alignment = 0 THEN addr
    ELSE addr - (addr % alignment)

\* __align_addr: (addr + alignment - 1) & ~(alignment - 1), the mask
\* clearing the low bits of a power of two
AlignAddr(addr, alignment) ==
    IF alignment = 0 THEN addr
    ELSE LET x == addr + alignment - 1 IN x - (x % alignment)

\* pvalloc's size, rounded up to a page: (size + PAGE_SIZE - 1) & ~(PAGE_SIZE - 1)
PvallocSize(size) == LET x == Wrap(size + PAGE_SIZE - 1) IN x - (x % PAGE_SIZE)

(* A call of an entry point.  posix_memalign, aligned_alloc and memalign  *)
(* share their check and __aligned_allocator and are one "memalign".       *)
Requests ==
    [fn : {"malloc", "valloc", "pvalloc"}, n : {1}, a : {0}, s : SizeT]
    \cup [fn : {"calloc"}, n : SizeT, a : {0}, s : SizeT]
    \cup [fn : {"memalign"}, n : {1}, a : 0..MaxAlign, s : SizeT]

(* What each entry point hands on: the malloc path (plain) or             *)
(* __aligned_allocator with an alignment, and the user size registered.   *)
(* calloc passes the wrapped product nmems * size to malloc; valloc and    *)
(* pvalloc call memalign(PAGE_SIZE, ...).                                  *)
Route(req) ==
    CASE req.fn = "malloc"   -> [plain |-> TRUE,  al |-> 0,         us |-> req.s]
      [] req.fn = "calloc"   -> [plain |-> TRUE,  al |-> 0,         us |-> Wrap(req.n * req.s)]
      [] req.fn = "memalign" -> [plain |-> FALSE, al |-> req.a,     us |-> req.s]
      [] req.fn = "valloc"   -> [plain |-> FALSE, al |-> PAGE_SIZE, us |-> req.s]
      [] req.fn = "pvalloc"  -> [plain |-> FALSE, al |-> PAGE_SIZE, us |-> PvallocSize(req.s)]

\* The early returns: calloc of a zero (wrapped) product returns NULL, the
\* memalign family rejects a zero or non-power-of-two alignment.
Accepted(req) ==
    LET r == Route(req) IN
    IF r.plain THEN req.fn # "calloc" \/ r.us # 0
    ELSE r.al # 0 /\ IsPowerOf2(r.al)

\* malloc: bufsize = size + REDZONE_SIZE * 2;
\* __aligned_allocator: bufsize = size + REDZONE_SIZE * 2 + alignment - 1
BufSize(r) ==
    IF r.plain THEN Wrap(r.us + 2 * REDZONE_SIZE)
    ELSE Wrap(r.us + 2 * REDZONE_SIZE + r.al - 1)

\* malloc: buf + REDZONE_SIZE; __aligned_allocator: that address aligned up
UsrPtr(r, buf) ==
    IF r.plain THEN buf + REDZONE_SIZE ELSE AlignAddr(buf + REDZONE_SIZE, r.al)

\* mc_set_allocated_buffer's extents, in size_t arithmetic
Leading(r, buf) == UsrPtr(r, buf) - buf
Trailing(r, buf) == Wrap(BufSize(r) - Leading(r, buf) - r.us)

\* The request's sizes fit in size_t without wrapping: the calloc product,
\* the pvalloc round-up and the buffer size.
NoWrap(req) ==
    LET r == Route(req) IN
    /\ req.fn = "calloc" => req.n * req.s < SIZE_MOD
    /\ req.fn = "pvalloc" => req.s + PAGE_SIZE - 1 < SIZE_MOD
    /\ r.us + 2 * REDZONE_SIZE + (IF r.plain THEN 0 ELSE r.al - 1) < SIZE_MOD

\* The size the caller asked for.
Requested(req) == req.n * req.s

-----------------------------------------------------------------------------
\* For every entry point, size and alignment the code accepts, whose sizes
\* fit in size_t, and every buffer the real allocator may return: the
\* registered layout has a leading and a trailing redzone of at least
\* REDZONE_SIZE bytes that, with the user region, tile the buffer exactly;
\* the user pointer has the alignment asked for; and the user region is at
\* least as large as the caller asked.
LayoutArmed ==
    \A req \in Requests, buf \in Addrs :
        Accepted(req) /\ NoWrap(req) =>
            LET r == Route(req) IN
            /\ Leading(r, buf) >= REDZONE_SIZE
            /\ Trailing(r, buf) >= REDZONE_SIZE
            /\ Leading(r, buf) + r.us + Trailing(r, buf) = BufSize(r)
            /\ ~r.plain => UsrPtr(r, buf) % r.al = 0
            /\ r.us >= Requested(req)

\* No accepted request wraps a size: malloc, calloc, the memalign family
\* and pvalloc would otherwise register a user region larger than the
\* buffer, or smaller than asked, and arm redzones outside the buffer.
RequestNeverWraps == \A req \in Requests : Accepted(req) => NoWrap(req)
=============================================================================
