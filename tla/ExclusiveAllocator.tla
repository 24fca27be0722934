------------------------- MODULE ExclusiveAllocator -------------------------
(***************************************************************************)
(* What every allocator of the kernel promises its callers.  The kernel    *)
(* has three: kmalloc hands out bytes of the heap, pmm hands out physical  *)
(* frames, vmm hands out pages of an address space.  The caller of each    *)
(* gets an extent (a set of units) that nobody else owns, keeps it until   *)
(* it gives it back, and no other extent changes in the meantime.          *)
(***************************************************************************)
CONSTANT Extents    \* the sets of units that can be asked for
VARIABLE owned      \* the extents handed out and not given back

Init == owned = {}

Acquire(S) ==
    /\ S # {}
    /\ \A T \in owned : S \cap T = {}
    /\ owned' = owned \cup {S}

Release(S) ==
    /\ S \in owned
    /\ owned' = owned \ {S}

Next == \E S \in Extents : Acquire(S) \/ Release(S)

Spec == Init /\ [][Next]_owned
=============================================================================
