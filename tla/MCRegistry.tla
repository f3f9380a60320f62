----------------------------- MODULE MCRegistry -----------------------------
(* Model-checking instance of Registry: the threads, buffers and sizes are *)
(* given in each .cfg; this module adds the symmetry and the buffer layout *)
(* of the entry points.                                                    *)
EXTENDS Registry, TLC

\* Symmetry of the user threads and of the buffers (model values only).
MCSymmetry == Permutations(Threads) \cup Permutations(Bufs)

(* The entry points' buffer layout, with size_t scaled to 6 bits and the  *)
(* constants of memchk.h scaled by 1/8 (REDZONE_SIZE 16 -> 2, PAGE_SIZE    *)
(* 4096 -> 8, glibc's 16-byte malloc alignment -> 2): every size_t value, *)
(* every alignment up to half the size_t range, sixteen buffer addresses. *)
Layout == INSTANCE BufferLayout
            WITH SizeBits <- 6, REDZONE_SIZE <- 2, PAGE_SIZE <- 8,
                 MALLOC_ALIGNMENT <- 2, MaxAlign <- 32,
                 Addrs <- {2 * k : k \in 0..15}

\* The registered layout of every accepted, non-wrapping request is the
\* three-region buffer Registry assumes (BufferLayout!LayoutArmed).  It is
\* stated of every state the registry reaches, over the layout TLC computes
\* once.
LayoutArmed == vars = vars /\ Layout!LayoutArmed

\* No accepted request wraps a size_t (BufferLayout!RequestNeverWraps).
RequestNeverWraps == Layout!RequestNeverWraps
=============================================================================
