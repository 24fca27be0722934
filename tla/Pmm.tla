-------------------------------- MODULE Pmm --------------------------------
(***************************************************************************)
(* The physical memory manager, kernel/arch/i386/mm/pmm.c: a bitmap with   *)
(* one bit per frame, set for the frames that are in use.                  *)
(*                                                                         *)
(* The 32-bit address space has Frames frames of PageSize bytes.  The      *)
(* bitmap is an array of MEM_BITMAP_SIZE entries of EntryBits bits, and    *)
(* MEM_BITMAP_SIZE is the number of frames, so the bitmap has EntryBits    *)
(* bits for every frame: bit b >= Frames stands for no frame of its own.   *)
(* `used' is the set of bits that are set.  `granted' counts, for every    *)
(* frame, the callers that got it from pmm_alloc_page and still have it.   *)
(***************************************************************************)
EXTENDS Integers, FiniteSets, FiniteSetsExt, Functions

CONSTANTS Frames,       \* 2^32 / PAGE_SIZE
          PageSize,     \* PAGE_SIZE
          EntryBits,    \* the bits of a uint8_t, 8
          WordBits,     \* the bits of an int, 32
          Layouts,      \* the memory layouts the boot loader may report
          MaxHeld       \* bound: frames callers hold at the same time

ASSUME PmmAssumption ==
    /\ Frames \in Nat \ {0}
    /\ PageSize \in Nat \ {0}
    /\ EntryBits \in Nat \ {0}
    /\ WordBits \in Nat \ {0}
    /\ \E k \in 1 .. WordBits : WordBits = k * EntryBits
    /\ MaxHeld \in Nat
    /\ \A l \in Layouts :
        /\ \A r \in {l.kernel, l.heap, l.fb} \cup l.mmap : r[1] \in Nat /\ r[2] \in Nat
        /\ l.fb[1] < l.fb[2]

VARIABLES phase,        \* "boot", "ready", "panic", or "hung" in pmm_init
          used,         \* MEM_BITMAP
          granted,      \* frame -> number of callers that hold it
          layout        \* history: the memory layout that pmm_init has seen

vars == <<phase, used, granted, layout>>

Frame == 0 .. Frames - 1
Bit   == 0 .. EntryBits * Frames - 1
AddrMod == Frames * PageSize        \* 2^32

NoLayout == [kernel |-> <<0, 0>>, heap |-> <<0, 0>>, fb |-> <<0, 0>>, mmap |-> {}]

Init ==
    /\ phase = "boot"
    /\ used = {}
    /\ granted = [f \in Frame |-> 0]
    /\ layout = NoLayout
-----------------------------------------------------------------------------
\* Mutation: the last page of the range is left out.
AllButLast(start, end) ==
    {f \in Frame : \E n \in 0 .. Frames : /\ start + (n + 1) * PageSize < end
                                          /\ f = (start + n * PageSize) \div PageSize}

\* pmm_mark_range_used: from start in steps of PAGE_SIZE while below end.
MarkedFrames(start, end) ==
    {f \in Frame : \E n \in 0 .. Frames : /\ start + n * PageSize < end
                                          /\ f = (start + n * PageSize) \div PageSize}

\* The step past the last page wraps to the bottom of the address space, so
\* that the loop starts over and never ends.
NeverEnds(start, end) ==
    \E n \in 0 .. Frames : /\ start + n * PageSize < end
                           /\ start + (n + 1) * PageSize >= AddrMod

\* The bounds of a memory map entry and of the framebuffer are 64 bits wide;
\* the parameters of pmm_mark_range_used have 32.
Cut(start, end) == <<start % AddrMod, end % AddrMod>>

\* The ranges pmm_init marks, as the <<start, end>> it passes on: the kernel,
\* the heap, the memory map entries that are not available, the framebuffer.
MarkedRanges(l) ==
    {l.kernel, <<l.heap[1], l.heap[2] - 1>>, Cut(l.fb[1], l.fb[2] - 1)}
        \cup {Cut(e[1], e[2]) : e \in l.mmap}

Marked(l) == UNION {MarkedFrames(r[1], r[2]) : r \in MarkedRanges(l)}

pmm_init(l) ==
    /\ phase = "boot"
    /\ used' = used \cup Marked(l)
    /\ layout' = l
    /\ phase' = IF \E r \in MarkedRanges(l) : NeverEnds(r[1], r[2]) THEN "hung" ELSE "ready"
    /\ UNCHANGED granted
-----------------------------------------------------------------------------
\* Mutations: a page handed out but not marked, and a mark cleared next door.
NotMarked(b)  == used
NextDoor(f)   == (f \div EntryBits) * EntryBits + ((f + 1) % EntryBits)

MarkUsed(b) == used \cup {b}

\* The scan finds the lowest bit that is clear.  The address it returns is
\* the bit's number times PAGE_SIZE, in 32 bits.
pmm_alloc_page ==
    /\ phase = "ready"
    /\ \E b \in Bit \ used :
        /\ \A c \in Bit \ used : b <= c
        /\ used' = MarkUsed(b)
        /\ granted' = [granted EXCEPT ![b % Frames] = @ + 1]
    /\ UNCHANGED <<phase, layout>>

\* Every bit is set: PANIC("out of memory").
out_of_memory ==
    /\ phase = "ready"
    /\ Bit \subseteq used
    /\ phase' = "panic"
    /\ UNCHANGED <<used, granted, layout>>

\* ~(1 << bitmap_bit) is applied to the entry bitmap_bit / 8.  The shift is
\* by the number of the bit in the whole bitmap; the instruction compiled for
\* it takes its count modulo 32, and a mask whose zero is above bit 7 clears
\* nothing in an 8-bit entry.
ClearedBit(f) == (f \div EntryBits) * EntryBits + (f % WordBits)

Cleared(f) == IF f % WordBits < EntryBits THEN {ClearedBit(f)} ELSE {}

\* A caller gives back a frame it holds.
pmm_free_page(f) ==
    /\ phase = "ready"
    /\ granted[f] > 0
    /\ used' = used \ Cleared(f)
    /\ granted' = [granted EXCEPT ![f] = @ - 1]
    /\ UNCHANGED <<phase, layout>>

\* PANIC stops the machine; so does a loop in pmm_init, before interrupts
\* could run anything else.
Stopped ==
    /\ phase \in {"panic", "hung"}
    /\ UNCHANGED vars

Next ==
    \/ \E l \in Layouts : pmm_init(l)
    \/ SumFunction(granted) < MaxHeld /\ pmm_alloc_page
    \/ out_of_memory
    \/ \E f \in Frame : pmm_free_page(f)
    \/ Stopped

Spec == Init /\ [][Next]_vars
-----------------------------------------------------------------------------
\* Bits stay within the bitmap, and no frame is given back more often than it
\* was handed out.
TypeOK ==
    /\ phase \in {"boot", "ready", "panic", "hung"}
    /\ used \subseteq Bit
    /\ granted \in [Frame -> Nat]
    /\ layout \in Layouts \cup {NoLayout}

\* The scan has not yet gone past the bit of the last frame.
WithinMemory == used \subseteq Frame

\* A frame somebody holds is marked, however frames are given back in the
\* meantime: the shift that is too wide in pmm_mark_addr_free clears the mark
\* of the frame itself or none, never the mark of a frame still held.
HeldMarked == WithinMemory => \A f \in Frame : granted[f] > 0 => f \in used

\* Until every frame of the address space is marked, a frame has one owner.
FramesExclusive == WithinMemory => \A f \in Frame : granted[f] <= 1

\* Together, what keeps the bitmap and the callers in step.
FramesOwned == TypeOK /\ HeldMarked /\ FramesExclusive

\* The ranges that are not to be handed out, as they are meant, end excluded,
\* and the frames that overlap one.
Ranges(l) == {l.kernel, l.heap, l.fb} \cup l.mmap
FramesOf(r) == {f \in Frame : r[1] < (f + 1) * PageSize /\ r[2] > f * PageSize}
Reserved == UNION {FramesOf(r) : r \in Ranges(layout)}

\* pmm_init takes the last byte of the heap and of the framebuffer for their end.
EndGiven(l, r) == IF r \in {l.heap, l.fb} THEN r[2] - 1 ELSE r[2]

\* A range that reaches 4 GiB is lost when its end is cut to 32 bits.
ReachesTop(r) == r[2] >= AddrMod

\* The loop starts at the first byte and looks at every page at that offset, so
\* that it ends before the last page if the range ends before the offset there.
EndsBefore(l, r, f) == f * PageSize + (r[1] % PageSize) >= EndGiven(l, r)

\* pmm.c: "Mark any unavailable memory regions as used".  Until every frame of
\* the address space is marked, no caller gets a frame that overlaps the kernel,
\* its heap, an unavailable entry of the memory map or the framebuffer, with two
\* exceptions: a range that reaches 4 GiB, and the last page of a range that
\* starts deeper in its first page than it ends in the last.
ReservedNeverGranted ==
    WithinMemory =>
        \A r \in Ranges(layout) : \A f \in FramesOf(r) :
            granted[f] = 0 \/ ReachesTop(r) \/ EndsBefore(layout, r, f)

\* Past that point the bitmap's surplus of bits bounds the damage: a frame is
\* never in the hands of more than eight callers, one for each bit that is
\* congruent to its own.
AtMostEightOwners == \A f \in Frame : granted[f] <= EntryBits

\* pmm.h: "Free the specified (physical) 4 KB page."  Until then, a frame that
\* nobody holds and that pmm_init had no reason to mark can be handed out,
\* unless the shift is too wide for it: of 32 frames, 24 are lost for good when
\* they are freed.  A range that starts above 4 GiB is marked where its address
\* points when it is cut to 32 bits, and the property says nothing then.
FreedIsFree ==
    phase = "ready" /\ WithinMemory /\ (\A r \in Ranges(layout) : r[1] < AddrMod) =>
        \A f \in Frame \ Reserved :
            granted[f] = 0 /\ f \in used => f % WordBits >= EntryBits
=============================================================================
