--------------------------- MODULE SlotAllocator ----------------------------
(***************************************************************************)
(* What a fixed-size object allocator promises its callers: an allocation *)
(* returns a slot nobody holds, or NoSlot when it fails, and a release     *)
(* returns a held slot.  The pool allocator of memchk                      *)
(* (src/memchk_allocator.c) is shown to implement this by PoolAllocator.   *)
(***************************************************************************)
CONSTANTS Slots,        \* every slot the allocator could ever hand out
          NoSlot        \* the NULL result of a failed allocation

VARIABLES inUse,        \* slots handed out and not yet released
          ret           \* the result of the latest allocation

Init == inUse = {} /\ ret = NoSlot

Allocate == \E s \in Slots \ inUse : inUse' = inUse \cup {s} /\ ret' = s

Fail == ret' = NoSlot /\ UNCHANGED inUse

Release == \E s \in inUse : inUse' = inUse \ {s} /\ UNCHANGED ret

Spec == Init /\ [][Allocate \/ Fail \/ Release]_<<inUse, ret>>
=============================================================================
