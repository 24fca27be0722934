------------------------------ MODULE Kmalloc ------------------------------
(***************************************************************************)
(* The kernel heap: kmalloc_init, kmalloc and kfree of kernel/kmalloc.c.   *)
(*                                                                         *)
(* A region is a header followed by size bytes; its address is the one of  *)
(* the header, counted from KERNEL_HEAP_VIRT_START.  The list that starts  *)
(* at KMALLOC_HEAD is the sequence `free'.  A region handed out keeps its  *)
(* header in memory, so that kfree can find its size again: `live' holds   *)
(* those regions.  Callers give back only what they got, and once.         *)
(***************************************************************************)
EXTENDS Integers, Sequences, SequencesExt

CONSTANTS HeapSize,     \* KERNEL_HEAP_SIZE
          HdrSize,      \* sizeof(kmalloc_header_t)
          Sizes         \* the sizes the kernel asks for: those of its structs

ASSUME HeapAssumption ==
    /\ HdrSize \in Nat \ {0}
    /\ HeapSize \in Nat
    /\ HeapSize > HdrSize
    /\ Sizes \subseteq Nat \ {0}

VARIABLES free,     \* the regions linked from KMALLOC_HEAD, in list order
          live      \* the regions owned by callers

vars == <<free, live>>

Region == [addr : 0 .. HeapSize - 1, size : 1 .. HeapSize]

\* The bytes of a region, header included, and the bytes the caller may use.
Extent(r)  == r.addr .. r.addr + HdrSize + r.size - 1
Payload(r) == r.addr + HdrSize .. r.addr + HdrSize + r.size - 1

kmalloc_init ==
    /\ free = << [addr |-> 0, size |-> HeapSize - HdrSize] >>
    /\ live = {}
-----------------------------------------------------------------------------
\* Mutations: a split that forgets the new header, and a whole region that
\* stays linked.
RestNoHeader(r, size)  == [addr |-> r.addr + HdrSize + size, size |-> r.size - size]
StaysLinked(list, i)   == list

\* Where the scan stops: a region of exactly this size, or one that can be
\* split and still hold a payload.
Fits(r, size) == r.size = size \/ r.size > size + HdrSize

\* What a split leaves: the tail of the region, behind a new header.
Rest(r, size) ==
    [addr |-> r.addr + HdrSize + size, size |-> r.size - size - HdrSize]

Unlink(list, i) == RemoveAt(list, i)

\* The scan takes the first region that fits.
FirstFit(i, size) ==
    /\ Fits(free[i], size)
    /\ \A j \in 1 .. i - 1 : ~ Fits(free[j], size)

TakeWhole(i, size) ==
    /\ FirstFit(i, size)
    /\ free[i].size = size
    /\ free' = Unlink(free, i)
    /\ live' = live \cup {free[i]}

Split(i, size) ==
    /\ FirstFit(i, size)
    /\ free[i].size # size
    /\ free' = [free EXCEPT ![i] = Rest(free[i], size)]
    /\ live' = live \cup {[addr |-> free[i].addr, size |-> size]}

\* No region fits: kmalloc returns NULL and leaves the list alone.
OutOfHeap(size) ==
    /\ \A i \in DOMAIN free : ~ Fits(free[i], size)
    /\ UNCHANGED vars

kmalloc(size) ==
    \/ \E i \in DOMAIN free : TakeWhole(i, size) \/ Split(i, size)
    \/ OutOfHeap(size)

\* Mutation: the freed region becomes the whole list.
PushAlone(r, list) == <<r>>

Push(r, list) == <<r>> \o list

\* The region goes back to the front of the list; neighbours are not joined.
kfree(r) ==
    /\ r \in live
    /\ free' = Push(r, free)
    /\ live' = live \ {r}

Next == (\E size \in Sizes : kmalloc(size)) \/ (\E r \in live : kfree(r))

Spec == kmalloc_init /\ [][Next]_vars
-----------------------------------------------------------------------------
\* Regions are records of the right shape, and none is empty: a split leaves
\* at least one byte behind the new header (kmalloc.c:30).
TypeOK ==
    /\ free \in Seq(Region)
    /\ live \subseteq Region

Headers == {free[i].addr : i \in DOMAIN free} \cup {r.addr : r \in live}

\* Regions never run into each other or out of the heap, headers included: a
\* caller that stays within its payload can overwrite neither another
\* caller's memory nor the header of a region, free or not.
RegionsDisjoint ==
    /\ \A i, j \in DOMAIN free : i # j => Extent(free[i]) \cap Extent(free[j]) = {}
    /\ \A r, s \in live : r # s => Extent(r) \cap Extent(s) = {}
    /\ \A i \in DOMAIN free, r \in live : Extent(free[i]) \cap Extent(r) = {}
    /\ \A i \in DOMAIN free : Extent(free[i]) \subseteq 0 .. HeapSize - 1
    /\ \A r \in live : Extent(r) \subseteq 0 .. HeapSize - 1

\* No byte of the heap is ever lost: it belongs to a region that is either on
\* the list or owned by a caller, whatever the order of kmalloc and kfree.
HeapCovered ==
    \A b \in 0 .. HeapSize - 1 :
        \/ \E i \in DOMAIN free : b \in Extent(free[i])
        \/ \E r \in live : b \in Extent(r)

\* Regions are well formed, and every byte of the heap is in exactly one.
HeapPartitioned == TypeOK /\ RegionsDisjoint /\ HeapCovered

\* A region boundary is forever: kfree joins nothing (kmalloc.c:64-65), so an
\* address that became a header stays one, and once the heap has been cut up
\* no later call can put it together again.
HeadersPermanent == [][Headers \subseteq Headers']_vars

\* kmalloc and kfree together keep the promise of an exclusive allocator:
\* each caller's payload is its own from kmalloc to kfree.
Bytes == 0 .. HeapSize - 1
Alloc == INSTANCE ExclusiveAllocator
            WITH Extents <- {lo .. hi : lo, hi \in Bytes},
                 owned <- {Payload(r) : r \in live}
PayloadsExclusive == Alloc!Spec
=============================================================================
