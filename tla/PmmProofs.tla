----------------------------- MODULE PmmProofs -----------------------------
(***************************************************************************)
(* The frame allocator for every number of frames and every memory layout. *)
(***************************************************************************)
EXTENDS Pmm, FiniteSetTheorems, TLAPS

\* A number has one quotient.
LEMMA QuotientUnique ==
    ASSUME NEW E \in Nat \ {0}, NEW d \in Nat, NEW m \in Nat, NEW r \in Nat, NEW s \in Nat,
           r < E, s < E, d * E + s = m * E + r
    PROVE  d = m
<1>1. CASE d > m
  <2>1. PICK x \in Nat : d = m + 1 + x
    <3> d - m - 1 \in Nat /\ d = m + 1 + (d - m - 1)
      BY <1>1
    <3> QED OBVIOUS
  <2>2. d * E = m * E + E + x * E
    BY <2>1
  <2>3. x * E \in Nat /\ m * E \in Nat
    BY <2>1
  <2> QED BY <2>2, <2>3
<1>2. CASE m > d
  <2>1. PICK x \in Nat : m = d + 1 + x
    <3> m - d - 1 \in Nat /\ m = d + 1 + (m - d - 1)
      BY <1>2
    <3> QED OBVIOUS
  <2>2. m * E = d * E + E + x * E
    BY <2>1
  <2>3. x * E \in Nat /\ d * E \in Nat
    BY <2>1
  <2> QED BY <2>2, <2>3
<1> QED BY <1>1, <1>2

\* Freeing a frame touches no mark but its own: the shift count, modulo the
\* bits of an int, either selects the frame's own bit of its entry or misses
\* the entry.
LEMMA ClearedIsOwn ==
    ASSUME NEW f \in Frame
    PROVE  Cleared(f) \subseteq {f}
<1>1. f \in Nat
  BY PmmAssumption DEF Frame
<1>2. PICK k \in Nat : WordBits = k * EntryBits
  BY PmmAssumption
<1>3. /\ EntryBits \in Nat \ {0} /\ WordBits \in Nat \ {0}
  BY PmmAssumption
<1> DEFINE q == f \div WordBits
           r == f % WordBits
           d == f \div EntryBits
           s == f % EntryBits
<1>4. /\ q \in Nat /\ r \in Nat /\ d \in Nat /\ s \in Nat
      /\ f = q * WordBits + r
      /\ f = d * EntryBits + s /\ s < EntryBits
  BY <1>1, <1>3
<1> HIDE DEF q, r, d, s
<1>5. q * WordBits = (q * k) * EntryBits /\ q * k \in Nat
  BY <1>2, <1>3, <1>4
<1>6. ASSUME r < EntryBits PROVE d * EntryBits + r = f
  <2>1. d = q * k
    <3>1. d * EntryBits + s = (q * k) * EntryBits + r
      BY <1>4, <1>5
    <3> QED BY <3>1, <1>3, <1>4, <1>5, <1>6, QuotientUnique
  <2> QED BY <2>1, <1>4, <1>5
<1> QED BY <1>6 DEF Cleared, ClearedBit, r, d

LEMMA FrameIsBit == Frame \subseteq Bit
<1>1. Frames <= EntryBits * Frames
  BY PmmAssumption
<1> QED BY <1>1, PmmAssumption DEF Frame, Bit

LEMMA BitFrame ==
    ASSUME NEW b \in Bit
    PROVE  b % Frames \in Frame /\ (b \in Frame => b % Frames = b)
<1>1. b \in Nat /\ Frames \in Nat /\ Frames > 0
  BY PmmAssumption DEF Bit
<1>2. b % Frames \in 0 .. Frames - 1
  BY <1>1
<1>3. b < Frames => b % Frames = b
  BY <1>1
<1> QED BY <1>1, <1>2, <1>3 DEF Frame

\* A frame nobody marked is held by nobody; this and the single owner carry
\* each other through pmm_alloc_page, which grants an unmarked frame and
\* marks it.  Before pmm_init nothing is held.
IInv ==
    /\ TypeOK
    /\ phase = "boot" => \A f \in Frame : granted[f] = 0
    /\ HeldMarked
    /\ FramesExclusive

LEMMA InitIInv == Init => IInv
  BY PmmAssumption DEF Init, IInv, TypeOK, HeldMarked, FramesExclusive, Frame

LEMMA pmm_initIInv ==
    ASSUME IInv, NEW l \in Layouts, pmm_init(l)
    PROVE  IInv'
<1>1. /\ phase = "boot" /\ phase' \in {"hung", "ready"}
      /\ granted' = granted
      /\ \A f \in Frame : granted[f] = 0
      /\ used' = used \cup Marked(l)
      /\ layout' = l
  BY DEF pmm_init, IInv
<1>2. Marked(l) \subseteq Frame
  BY DEF Marked, MarkedFrames
<1> QED BY <1>1, <1>2, FrameIsBit DEF IInv, TypeOK, HeldMarked, FramesExclusive

LEMMA AllocIInv ==
    ASSUME IInv, pmm_alloc_page
    PROVE  IInv'
<1>1. PICK b \in Bit \ used :
        /\ used' = used \cup {b}
        /\ granted' = [granted EXCEPT ![b % Frames] = @ + 1]
  BY DEF pmm_alloc_page, MarkUsed
<1>2. /\ phase = "ready" /\ phase' = phase /\ layout' = layout
  BY DEF pmm_alloc_page
<1>3. /\ b % Frames \in Frame
      /\ granted \in [Frame -> Nat]
  BY BitFrame DEF IInv, TypeOK
<1>4. granted' \in [Frame -> Nat]
  BY <1>1, <1>3
<1>5. TypeOK'
  BY <1>1, <1>2, <1>4 DEF IInv, TypeOK
<1>6. ASSUME WithinMemory'
      PROVE  /\ WithinMemory
             /\ b \in Frame /\ b % Frames = b
             /\ granted[b] = 0
             /\ granted'[b] = 1
             /\ \A f \in Frame : f # b => granted'[f] = granted[f]
  <2>1. WithinMemory /\ b \in Frame
    BY <1>1, <1>6 DEF WithinMemory
  <2>2. b % Frames = b
    BY <2>1, BitFrame
  <2>3. granted[b] = 0
    BY <2>1, <1>1, <1>3 DEF IInv, HeldMarked
  <2> QED BY <2>1, <2>2, <2>3, <1>1, <1>3
<1>7. HeldMarked'
  BY <1>1, <1>3, <1>6 DEF IInv, HeldMarked
<1>8. FramesExclusive'
  BY <1>1, <1>3, <1>6 DEF IInv, FramesExclusive
<1> QED BY <1>2, <1>5, <1>7, <1>8 DEF IInv

LEMMA FreeIInv ==
    ASSUME IInv, NEW f \in Frame, pmm_free_page(f)
    PROVE  IInv'
<1>1. /\ phase = "ready" /\ phase' = phase /\ layout' = layout
      /\ granted[f] > 0
      /\ used' = used \ Cleared(f)
      /\ granted' = [granted EXCEPT ![f] = @ - 1]
      /\ granted \in [Frame -> Nat]
  BY DEF pmm_free_page, IInv, TypeOK
<1>2. /\ granted' \in [Frame -> Nat]
      /\ granted'[f] = granted[f] - 1
      /\ \A g \in Frame : g # f => granted'[g] = granted[g]
  BY <1>1
<1>3. TypeOK'
  BY <1>1, <1>2 DEF IInv, TypeOK
<1>4. WithinMemory' => WithinMemory
  BY <1>1, ClearedIsOwn DEF WithinMemory
<1>5. HeldMarked'
  <2> SUFFICES ASSUME WithinMemory', NEW g \in Frame, granted'[g] > 0
               PROVE  g \in used'
    BY DEF HeldMarked
  <2>1. CASE g = f
    <3>1. granted[f] <= 1
      BY <1>4 DEF IInv, FramesExclusive
    <3> QED BY <3>1, <2>1, <1>1, <1>2
  <2>2. CASE g # f
    BY <2>2, <1>1, <1>2, <1>4, ClearedIsOwn DEF IInv, HeldMarked
  <2> QED BY <2>1, <2>2
<1>6. FramesExclusive'
  <2> SUFFICES ASSUME WithinMemory', NEW g \in Frame PROVE granted'[g] <= 1
    BY DEF FramesExclusive
  <2>1. granted[g] <= 1
    BY <1>4 DEF IInv, FramesExclusive
  <2> QED BY <2>1, <1>1, <1>2
<1> QED BY <1>1, <1>3, <1>5, <1>6 DEF IInv

LEMMA NextIInv == IInv /\ [Next]_vars => IInv'
<1> SUFFICES ASSUME IInv, [Next]_vars PROVE IInv'
  OBVIOUS
<1>1. ASSUME NEW l \in Layouts, pmm_init(l) PROVE IInv'
  BY <1>1, pmm_initIInv
<1>2. CASE pmm_alloc_page
  BY <1>2, AllocIInv
<1>3. CASE out_of_memory
  BY <1>3 DEF out_of_memory, IInv, TypeOK, HeldMarked, FramesExclusive, WithinMemory
<1>4. ASSUME NEW f \in Frame, pmm_free_page(f) PROVE IInv'
  BY <1>4, FreeIInv
<1>5. CASE UNCHANGED vars
  BY <1>5 DEF vars, IInv, TypeOK, HeldMarked, FramesExclusive, WithinMemory
<1> QED BY <1>1, <1>2, <1>3, <1>4, <1>5 DEF Next, Stopped

\* As long as the scan has not left the bits of the address space, a frame
\* handed out by pmm_alloc_page has one owner and is marked until that owner
\* gives it back, in spite of what pmm_mark_addr_free does to other marks.
THEOREM FramesHaveOneOwner == Spec => []FramesOwned
<1>1. Spec => []IInv
  BY InitIInv, NextIInv, PTL DEF Spec
<1> QED BY <1>1, PTL DEF IInv, FramesOwned

\* The loop of pmm_mark_range_used visits the pages of the range at the offset
\* of its start.
LEMMA VisitedIsMarked ==
    ASSUME NEW start \in Nat, NEW end \in Int, NEW f \in Frame,
           start < (f + 1) * PageSize, f * PageSize + (start % PageSize) < end
    PROVE  f \in MarkedFrames(start, end)
<1> DEFINE q == start \div PageSize
           o == start % PageSize
           n == f - q
<1>1. PageSize \in Nat \ {0} /\ f \in Nat /\ f < Frames /\ Frames \in Nat
  BY PmmAssumption DEF Frame
<1>2. q \in Nat /\ o \in 0 .. PageSize - 1 /\ start = q * PageSize + o
  BY <1>1
<1>0. f * PageSize + o < end
  OBVIOUS
<1> HIDE DEF q, o
<1>3. q <= f
  <2>1. SUFFICES ASSUME q >= f + 1 PROVE FALSE
    BY <1>1, <1>2
  <2>2. PICK x \in Nat : q = f + 1 + x
    <3> q - f - 1 \in Nat /\ q = f + 1 + (q - f - 1)
      BY <1>1, <1>2, <2>1
    <3> QED OBVIOUS
  <2>3. q * PageSize = (f + 1) * PageSize + x * PageSize /\ x * PageSize \in Nat
    BY <1>1, <2>2
  <2>4. (f + 1) * PageSize \in Nat
    BY <1>1
  <2> QED BY <1>2, <2>3, <2>4
<1>4. n \in 0 .. Frames
  BY <1>1, <1>2, <1>3
<1>5. start + n * PageSize = f * PageSize + o
  <2>1. (q + n) * PageSize = q * PageSize + n * PageSize
    BY <1>1, <1>2, <1>4
  <2> QED BY <1>1, <1>2, <1>4, <2>1
<1>6. (f * PageSize + o) \div PageSize = f
  <2> DEFINE a == f * PageSize + o
             d == a \div PageSize
             m == a % PageSize
  <2>1. a \in Nat
    BY <1>1, <1>2
  <2> HIDE DEF a
  <2>2. d \in Nat /\ m \in Nat /\ m < PageSize /\ d * PageSize + m = a
    BY <1>1, <2>1
  <2>3. o \in Nat /\ o < PageSize
    BY <1>1, <1>2
  <2> HIDE DEF d, m
  <2>4. d = f
    BY <1>1, <2>2, <2>3, QuotientUnique DEF a
  <2> QED BY <2>4 DEF d, a
<1> HIDE DEF n
<1> QED BY <1>0, <1>4, <1>5, <1>6 DEF MarkedFrames

\* The frames of which pmm_init is sure to mark the bit.
Covered(l) ==
    {f \in Frame : \E r \in Ranges(l) :
        f \in FramesOf(r) /\ ~ ReachesTop(r) /\ ~ EndsBefore(l, r, f)}

LEMMA CoveredMarked ==
    ASSUME NEW l \in Layouts, NEW f \in Covered(l)
    PROVE  f \in Marked(l)
<1>1. PICK r \in Ranges(l) :
        /\ f \in Frame /\ r[1] < (f + 1) * PageSize /\ r[2] > f * PageSize
        /\ ~ ReachesTop(r) /\ ~ EndsBefore(l, r, f)
  BY DEF Covered, FramesOf
<1>2. /\ r[1] \in Nat /\ r[2] \in Nat /\ AddrMod \in Nat \ {0} /\ r[2] < AddrMod
      /\ PageSize \in Nat \ {0} /\ f \in Nat
      /\ f * PageSize \in Nat /\ r[1] % PageSize \in 0 .. PageSize - 1
  BY <1>1, PmmAssumption DEF Ranges, ReachesTop, AddrMod, Frame
<1>3. /\ EndGiven(l, r) \in Int /\ EndGiven(l, r) <= r[2]
      /\ f * PageSize + (r[1] % PageSize) < EndGiven(l, r)
  <2>1. EndGiven(l, r) \in Int /\ EndGiven(l, r) <= r[2]
    BY <1>2 DEF EndGiven
  <2> QED BY <1>1, <1>2, <2>1 DEF EndsBefore
<1>4. /\ r[1] < AddrMod
      /\ EndGiven(l, r) \in 0 .. AddrMod - 1
  <2>1. r[1] < r[2]
    <3>1. (f + 1) * PageSize <= AddrMod
      <4>1. Frames \in Nat /\ f + 1 <= Frames
        BY <1>1, PmmAssumption DEF Frame
      <4>2. PICK x \in Nat : Frames = (f + 1) + x
        <5> Frames - (f + 1) \in Nat /\ Frames = (f + 1) + (Frames - (f + 1))
          BY <1>2, <4>1
        <5> QED OBVIOUS
      <4>3. Frames * PageSize = (f + 1) * PageSize + x * PageSize /\ x * PageSize \in Nat
        BY <1>2, <4>2
      <4>4. (f + 1) * PageSize \in Nat
        BY <1>2
      <4> QED BY <4>3, <4>4 DEF AddrMod
    <3> DEFINE q == r[1] \div PageSize
               o == r[1] % PageSize
    <3>2. q \in Nat /\ o \in Nat /\ r[1] = q * PageSize + o
      BY <1>2
    <3>3. f * PageSize + o < r[2]
      BY <1>2, <1>3, <3>2
    <3> HIDE DEF q, o
    <3>4. q <= f
      <4>1. SUFFICES ASSUME q >= f + 1 PROVE FALSE
        BY <1>2, <3>2
      <4>2. PICK x \in Nat : q = (f + 1) + x
        <5> q - (f + 1) \in Nat /\ q = (f + 1) + (q - (f + 1))
          BY <1>2, <3>2, <4>1
        <5> QED OBVIOUS
      <4>3. q * PageSize = (f + 1) * PageSize + x * PageSize /\ x * PageSize \in Nat
        BY <1>2, <4>2
      <4>4. (f + 1) * PageSize \in Nat
        BY <1>2
      <4> QED BY <1>1, <3>2, <4>3, <4>4
    <3>5. q * PageSize <= f * PageSize
      <4>1. PICK x \in Nat : f = q + x
        <5> f - q \in Nat /\ f = q + (f - q)
          BY <1>2, <3>2, <3>4
        <5> QED OBVIOUS
      <4>2. f * PageSize = q * PageSize + x * PageSize /\ x * PageSize \in Nat
        BY <1>2, <3>2, <4>1
      <4>3. q * PageSize \in Nat
        BY <1>2, <3>2
      <4> QED BY <4>2, <4>3
    <3>6. q * PageSize \in Nat
      BY <1>2, <3>2
    <3> QED BY <1>2, <3>2, <3>3, <3>5, <3>6
  <2>2. r[1] < AddrMod
    BY <1>2, <2>1
  <2>3. EndGiven(l, r) >= 0
    BY <1>2, <1>3
  <2>4. EndGiven(l, r) <= AddrMod - 1
    BY <1>2, <1>3
  <2> QED BY <1>3, <2>2, <2>3, <2>4
<1>5. r[1] % AddrMod = r[1] /\ EndGiven(l, r) % AddrMod = EndGiven(l, r)
  <2>1. r[1] % AddrMod = r[1]
    BY <1>2, <1>4
  <2>2. EndGiven(l, r) % AddrMod = EndGiven(l, r)
    BY <1>2, <1>4
  <2> QED BY <2>1, <2>2
<1>6. PICK s \in MarkedRanges(l) :
        s[1] = r[1] /\ s[2] \in Int /\ f * PageSize + (r[1] % PageSize) < s[2]
  <2>1. CASE r = l.kernel
    <3>1. r \in MarkedRanges(l)
      BY <2>1 DEF MarkedRanges
    <3>2. f * PageSize + (r[1] % PageSize) < r[2]
      BY <1>2, <1>3
    <3> QED BY <1>2, <3>1, <3>2
  <2>2. CASE r = l.heap
    <3>1. <<r[1], EndGiven(l, r)>> \in MarkedRanges(l)
      BY <2>2 DEF MarkedRanges, EndGiven
    <3> QED BY <1>3, <3>1
  <2>3. CASE r = l.fb
    <3>1. Cut(r[1], EndGiven(l, r)) \in MarkedRanges(l)
      BY <2>3 DEF MarkedRanges, EndGiven
    <3> QED BY <1>3, <1>5, <3>1 DEF Cut
  <2>4. CASE r \in l.mmap
    <3>1. Cut(r[1], r[2]) \in MarkedRanges(l)
      BY <2>4 DEF MarkedRanges
    <3>2. r[2] % AddrMod = r[2]
      BY <1>2
    <3>3. f * PageSize + (r[1] % PageSize) < r[2]
      BY <1>2, <1>3
    <3> QED BY <1>2, <1>5, <3>1, <3>2, <3>3 DEF Cut
  <2> QED BY <2>1, <2>2, <2>3, <2>4 DEF Ranges
<1>7. f \in MarkedFrames(s[1], s[2])
  BY <1>1, <1>2, <1>6, VisitedIsMarked
<1> QED BY <1>6, <1>7 DEF Marked

\* A covered frame is marked from pmm_init on and nobody holds it, so nobody can
\* give it back and clear its mark.
ReservedMarked ==
    /\ phase = "boot" => layout = NoLayout
    /\ WithinMemory => \A f \in Covered(layout) : f \in used /\ granted[f] = 0

LEMMA NothingCovered == Covered(NoLayout) = {}
<1> SUFFICES ASSUME NEW f \in Frame, f \in FramesOf(<<0, 0>>) PROVE FALSE
  BY DEF Covered, Ranges, NoLayout
<1> QED BY PmmAssumption DEF FramesOf, Frame

LEMMA NextReserved == IInv /\ ReservedMarked /\ [Next]_vars => ReservedMarked'
<1> SUFFICES ASSUME IInv, ReservedMarked, [Next]_vars PROVE ReservedMarked'
  OBVIOUS
<1>0. \A f \in Covered(layout) : f \in Frame
  BY DEF Covered
<1>1. ASSUME NEW l \in Layouts, pmm_init(l) PROVE ReservedMarked'
  <2>1. /\ phase = "boot" /\ phase' \in {"hung", "ready"}
        /\ granted' = granted
        /\ used' = used \cup Marked(l)
        /\ layout' = l
    BY <1>1 DEF pmm_init
  <2>2. \A f \in Covered(l) : f \in Marked(l) /\ granted[f] = 0
    BY <2>1, CoveredMarked DEF Covered, IInv
  <2> QED BY <2>1, <2>2 DEF ReservedMarked
<1>2. CASE pmm_alloc_page
  <2>1. PICK b \in Bit \ used :
          /\ used' = used \cup {b}
          /\ granted' = [granted EXCEPT ![b % Frames] = @ + 1]
    BY <1>2 DEF pmm_alloc_page, MarkUsed
  <2>2. phase' = phase /\ layout' = layout /\ granted \in [Frame -> Nat]
    BY <1>2 DEF pmm_alloc_page, IInv, TypeOK
  <2>3. ASSUME WithinMemory', NEW f \in Covered(layout) PROVE f \in used' /\ granted'[f] = 0
    <3>1. WithinMemory /\ b \in Frame /\ b % Frames = b
      BY <2>1, <2>3, BitFrame DEF WithinMemory
    <3>2. f # b
      BY <3>1, <2>1, <2>3 DEF ReservedMarked
    <3> QED BY <3>1, <3>2, <2>1, <2>2, <2>3, <1>0 DEF ReservedMarked
  <2> QED BY <2>2, <2>3 DEF ReservedMarked
<1>3. ASSUME NEW f \in Frame, pmm_free_page(f) PROVE ReservedMarked'
  <2>1. /\ phase' = phase /\ layout' = layout
        /\ used' = used \ Cleared(f)
        /\ granted[f] > 0
        /\ granted' = [granted EXCEPT ![f] = @ - 1]
        /\ granted \in [Frame -> Nat]
    BY <1>3 DEF pmm_free_page, IInv, TypeOK
  <2>2. WithinMemory' => WithinMemory
    BY <2>1, ClearedIsOwn DEF WithinMemory
  <2>3. ASSUME WithinMemory', NEW g \in Covered(layout) PROVE g \in used' /\ granted'[g] = 0
    <3>1. g # f
      BY <2>1, <2>2, <2>3 DEF ReservedMarked
    <3> QED BY <3>1, <2>1, <2>2, <2>3, <1>0, ClearedIsOwn DEF ReservedMarked
  <2> QED BY <2>1, <2>3 DEF ReservedMarked
<1>4. CASE out_of_memory
  BY <1>4 DEF out_of_memory, ReservedMarked, WithinMemory
<1>5. CASE UNCHANGED vars
  BY <1>5 DEF vars, ReservedMarked, WithinMemory
<1> QED BY <1>1, <1>2, <1>3, <1>4, <1>5 DEF Next, Stopped

\* On every layout, no caller of pmm_alloc_page is ever given a frame of the
\* kernel, its heap, the framebuffer or an unavailable range while the scan
\* stays within memory.  The exceptions are those that the property names; that
\* pmm_mark_range_used reaches every other page is part of what is proved.
THEOREM ReservedFramesSafe == Spec => []ReservedNeverGranted
<1>1. Spec => []IInv
  BY InitIInv, NextIInv, PTL DEF Spec
<1>2. Init => ReservedMarked
  BY NothingCovered DEF Init, ReservedMarked
<1>3. IInv /\ ReservedMarked => ReservedNeverGranted
  <2> SUFFICES ASSUME ReservedMarked, WithinMemory, NEW r \in Ranges(layout),
                      NEW f \in FramesOf(r), ~ ReachesTop(r), ~ EndsBefore(layout, r, f)
               PROVE  granted[f] = 0
    BY DEF ReservedNeverGranted
  <2>1. f \in Covered(layout)
    BY DEF Covered, FramesOf
  <2> QED BY <2>1 DEF ReservedMarked
<1>4. Spec => []ReservedMarked
  BY <1>1, <1>2, NextReserved, PTL DEF Spec
<1> QED BY <1>1, <1>3, <1>4, PTL
-----------------------------------------------------------------------------
(* Past the last frame: how many callers may share one.                    *)

\* The bits that are set for frame f: its own and those congruent to it, whose
\* addresses wrap to the same frame.
BitsFor(f) == {b \in used : b % Frames = f}

\* AtMostEightOwners is not inductive.  Every caller that holds a frame has
\* left a bit set for it, and giving the frame back clears at most one.
HeldHasBit == \A f \in Frame : granted[f] <= Cardinality(BitsFor(f))

LEMMA BitsFinite ==
    ASSUME NEW S \in SUBSET Bit
    PROVE  IsFiniteSet(S) /\ Cardinality(S) \in Nat
<1>1. IsFiniteSet(Bit)
  BY PmmAssumption, FS_Interval DEF Bit
<1> QED BY <1>1, FS_Subset, FS_CardinalityType

LEMMA BitsForFinite ==
    ASSUME TypeOK, NEW f
    PROVE  IsFiniteSet(BitsFor(f)) /\ Cardinality(BitsFor(f)) \in Nat
BY BitsFinite DEF BitsFor, TypeOK

\* A frame has EntryBits bits in the whole bitmap.
LEMMA BitsForBound ==
    ASSUME TypeOK, NEW f \in Frame
    PROVE  Cardinality(BitsFor(f)) <= EntryBits
<1> DEFINE row == [b \in BitsFor(f) |-> b \div Frames]
<1>1. Frames \in Nat \ {0} /\ EntryBits \in Nat \ {0}
  BY PmmAssumption
<1>2. ASSUME NEW b \in BitsFor(f)
      PROVE  /\ b = (b \div Frames) * Frames + f
             /\ b \div Frames \in 0 .. EntryBits - 1
  <2>1. b \in Nat /\ b < EntryBits * Frames /\ b % Frames = f
    BY <1>1, <1>2 DEF BitsFor, TypeOK, Bit
  <2>2. b \div Frames \in Nat /\ b = (b \div Frames) * Frames + (b % Frames)
    BY <1>1, <2>1
  <2>3. f \in Nat
    BY DEF Frame
  <2> DEFINE q == b \div Frames
  <2> HIDE DEF q
  <2>4. q \in Nat /\ q * Frames <= b
    BY <1>1, <2>1, <2>2, <2>3 DEF q
  <2>5. q < EntryBits
    <3>1. SUFFICES ASSUME q >= EntryBits PROVE FALSE
      BY <1>1, <2>4
    <3>2. PICK x \in Nat : q = EntryBits + x
      <4> q - EntryBits \in Nat /\ q = EntryBits + (q - EntryBits)
        BY <1>1, <2>4, <3>1
      <4> QED OBVIOUS
    <3>3. q * Frames = EntryBits * Frames + x * Frames /\ x * Frames \in Nat
      BY <1>1, <3>2
    <3> QED BY <1>1, <2>1, <2>4, <3>3
  <2> QED BY <1>1, <2>1, <2>2, <2>4, <2>5 DEF q
<1>3. row \in Injection(BitsFor(f), 0 .. EntryBits - 1)
  <2>1. row \in [BitsFor(f) -> 0 .. EntryBits - 1]
    BY <1>2
  <2>2. \A a, b \in BitsFor(f) : row[a] = row[b] => a = b
    BY <1>2
  <2> HIDE DEF row
  <2> QED BY <2>1, <2>2 DEF Injection, IsInjective
<1>4. IsFiniteSet(0 .. EntryBits - 1) /\ Cardinality(0 .. EntryBits - 1) = EntryBits
  BY <1>1, FS_Interval
<1> HIDE DEF row
<1> QED BY <1>3, <1>4, FS_Injection

LEMMA AllocHeldHasBit ==
    ASSUME IInv, HeldHasBit, pmm_alloc_page
    PROVE  HeldHasBit'
<1>1. PICK b \in Bit \ used :
        /\ used' = used \cup {b}
        /\ granted' = [granted EXCEPT ![b % Frames] = @ + 1]
  BY DEF pmm_alloc_page, MarkUsed
<1>2. b % Frames \in Frame /\ granted \in [Frame -> Nat] /\ TypeOK
  BY BitFrame DEF IInv, TypeOK
<1> SUFFICES ASSUME NEW f \in Frame PROVE granted'[f] <= Cardinality(BitsFor(f)')
  BY DEF HeldHasBit
<1>3. /\ IsFiniteSet(BitsFor(f)) /\ Cardinality(BitsFor(f)) \in Nat
      /\ granted[f] <= Cardinality(BitsFor(f))
  BY <1>2, BitsForFinite DEF HeldHasBit
<1>4. CASE f = b % Frames
  <2>1. BitsFor(f)' = BitsFor(f) \cup {b} /\ b \notin BitsFor(f)
    BY <1>1, <1>4 DEF BitsFor
  <2>2. Cardinality(BitsFor(f)') = Cardinality(BitsFor(f)) + 1
    BY <1>3, <2>1, FS_AddElement
  <2> QED BY <1>1, <1>2, <1>3, <1>4, <2>2
<1>5. CASE f # b % Frames
  <2>1. BitsFor(f)' = BitsFor(f)
    BY <1>1, <1>5 DEF BitsFor
  <2> QED BY <1>1, <1>2, <1>3, <1>5, <2>1
<1> QED BY <1>4, <1>5

LEMMA FreeHeldHasBit ==
    ASSUME IInv, HeldHasBit, NEW f \in Frame, pmm_free_page(f)
    PROVE  HeldHasBit'
<1>1. /\ used' = used \ Cleared(f) /\ Cleared(f) \subseteq {f}
      /\ granted' = [granted EXCEPT ![f] = @ - 1]
      /\ granted \in [Frame -> Nat]
  BY ClearedIsOwn DEF pmm_free_page, IInv, TypeOK
<1>2. f % Frames = f
  BY FrameIsBit, BitFrame
<1> SUFFICES ASSUME NEW g \in Frame PROVE granted'[g] <= Cardinality(BitsFor(g)')
  BY DEF HeldHasBit
<1>3. /\ IsFiniteSet(BitsFor(g)) /\ Cardinality(BitsFor(g)) \in Nat
      /\ granted[g] <= Cardinality(BitsFor(g))
  BY BitsForFinite DEF HeldHasBit, IInv
<1>4. CASE g = f
  <2>1. BitsFor(f)' = BitsFor(f) \/ BitsFor(f)' = BitsFor(f) \ {f}
    BY <1>1 DEF BitsFor
  <2>2. Cardinality(BitsFor(f) \ {f}) \in {Cardinality(BitsFor(f)), Cardinality(BitsFor(f)) - 1}
    BY <1>3, <1>4, FS_RemoveElement
  <2> QED BY <1>1, <1>3, <1>4, <2>1, <2>2
<1>5. CASE g # f
  <2>1. BitsFor(g)' = BitsFor(g)
    BY <1>1, <1>2, <1>5 DEF BitsFor
  <2> QED BY <1>1, <1>3, <1>5, <2>1
<1> QED BY <1>4, <1>5

LEMMA NextHeldHasBit == IInv /\ IInv' /\ HeldHasBit /\ [Next]_vars => HeldHasBit'
<1> SUFFICES ASSUME IInv, IInv', HeldHasBit, [Next]_vars PROVE HeldHasBit'
  OBVIOUS
<1>1. ASSUME NEW l \in Layouts, pmm_init(l) PROVE HeldHasBit'
  <2>1. \A f \in Frame : granted'[f] = 0
    BY <1>1 DEF pmm_init, IInv
  <2>2. \A f \in Frame : Cardinality(BitsFor(f)') \in Nat
    BY BitsFinite DEF BitsFor, IInv, TypeOK
  <2> QED BY <2>1, <2>2 DEF HeldHasBit
<1>2. CASE pmm_alloc_page
  BY <1>2, AllocHeldHasBit
<1>3. ASSUME NEW f \in Frame, pmm_free_page(f) PROVE HeldHasBit'
  BY <1>3, FreeHeldHasBit
<1>4. CASE out_of_memory
  BY <1>4 DEF out_of_memory, HeldHasBit, BitsFor
<1>5. CASE UNCHANGED vars
  BY <1>5 DEF vars, HeldHasBit, BitsFor
<1> QED BY <1>1, <1>2, <1>3, <1>4, <1>5 DEF Next, Stopped

\* However long frames are taken and given back, also when the scan has gone
\* past the bits of the address space and frames are handed out again while
\* somebody holds them, no frame has more callers than a bitmap entry has bits.
THEOREM OwnersBounded == Spec => []AtMostEightOwners
<1>1. Spec => []IInv
  BY InitIInv, NextIInv, PTL DEF Spec
<1>2. Init => HeldHasBit
  <2> SUFFICES ASSUME Init PROVE HeldHasBit
    OBVIOUS
  <2>1. TypeOK
    BY InitIInv DEF IInv
  <2> QED BY <2>1, BitsForFinite DEF Init, HeldHasBit
<1>3. IInv /\ HeldHasBit => AtMostEightOwners
  <2> SUFFICES ASSUME IInv, HeldHasBit, NEW f \in Frame PROVE granted[f] <= EntryBits
    BY DEF AtMostEightOwners
  <2>1. TypeOK /\ granted[f] \in Nat /\ granted[f] <= Cardinality(BitsFor(f))
    BY DEF IInv, TypeOK, HeldHasBit
  <2>2. Cardinality(BitsFor(f)) \in Nat /\ Cardinality(BitsFor(f)) <= EntryBits
    BY <2>1, BitsForFinite, BitsForBound
  <2> QED BY <2>1, <2>2, PmmAssumption
<1>4. Spec => []HeldHasBit
  BY <1>1, <1>2, NextHeldHasBit, PTL DEF Spec
<1> QED BY <1>1, <1>3, <1>4, PTL
-----------------------------------------------------------------------------
(* Frames that are given back.                                             *)

\* A frame pmm_mark_range_used marks overlaps the range.
LEMMA MarkedOverlaps ==
    ASSUME NEW start \in Nat, NEW end \in Int, NEW f \in MarkedFrames(start, end)
    PROVE  f \in Frame /\ start < (f + 1) * PageSize /\ end > f * PageSize
<1>1. PICK n \in 0 .. Frames : /\ start + n * PageSize < end
                               /\ f = (start + n * PageSize) \div PageSize
  BY DEF MarkedFrames
<1>2. PageSize \in Nat \ {0} /\ n \in Nat /\ n * PageSize \in Nat
  BY PmmAssumption
<1> DEFINE a == start + n * PageSize
<1>3. a \in Nat /\ start <= a /\ a < end /\ f = a \div PageSize
  BY <1>1, <1>2
<1> HIDE DEF a
<1>4. a % PageSize \in 0 .. PageSize - 1 /\ a = f * PageSize + (a % PageSize) /\ f \in Nat
  BY <1>2, <1>3
<1>5. f * PageSize \in Nat /\ (f + 1) * PageSize = f * PageSize + PageSize
  BY <1>2, <1>4
<1>6. f \in Frame
  BY DEF MarkedFrames
<1> QED BY <1>2, <1>3, <1>4, <1>5, <1>6

\* pmm_init marks no frame but those that overlap a range, if no range starts
\* above 4 GiB.
LEMMA OnlyOverlappedMarked ==
    ASSUME NEW l \in Layouts, \A r \in Ranges(l) : r[1] < AddrMod, NEW f \in Marked(l)
    PROVE  \E r \in Ranges(l) : f \in FramesOf(r)
<1>0. PICK r \in MarkedRanges(l) : f \in MarkedFrames(r[1], r[2])
  BY DEF Marked
<1>1. AddrMod \in Nat \ {0}
  BY PmmAssumption DEF AddrMod
<1>2. PICK s \in Ranges(l) : /\ r[1] = s[1] /\ r[1] \in Nat
                             /\ r[2] <= s[2] /\ r[2] \in Int /\ s[2] \in Nat
  <2>0. \A s \in Ranges(l) : s[1] \in Nat /\ s[2] \in Nat /\ s[1] % AddrMod = s[1]
    <3> SUFFICES ASSUME NEW s \in Ranges(l)
                 PROVE  s[1] \in Nat /\ s[2] \in Nat /\ s[1] % AddrMod = s[1]
      OBVIOUS
    <3>1. s[1] \in Nat /\ s[2] \in Nat /\ s[1] < AddrMod
      BY PmmAssumption DEF Ranges
    <3> QED BY <1>1, <3>1
  <2>1. CASE r = l.kernel
    BY <2>0, <2>1 DEF Ranges
  <2>2. CASE r = <<l.heap[1], l.heap[2] - 1>>
    BY <2>0, <2>2 DEF Ranges
  <2>3. CASE r = Cut(l.fb[1], l.fb[2] - 1)
    <3>1. l.fb \in Ranges(l) /\ l.fb[1] < l.fb[2]
      BY PmmAssumption DEF Ranges
    <3>2. l.fb[2] - 1 \in Nat
      BY <2>0, <3>1
    <3>3. (l.fb[2] - 1) % AddrMod \in Nat /\ (l.fb[2] - 1) % AddrMod <= l.fb[2] - 1
      BY <1>1, <3>2
    <3> QED BY <2>0, <2>3, <3>1, <3>2, <3>3 DEF Cut
  <2>4. ASSUME NEW e \in l.mmap, r = Cut(e[1], e[2])
        PROVE  \E s \in Ranges(l) : /\ r[1] = s[1] /\ r[1] \in Nat
                                    /\ r[2] <= s[2] /\ r[2] \in Int /\ s[2] \in Nat
    <3>1. e \in Ranges(l)
      BY <2>4 DEF Ranges
    <3>2. e[2] % AddrMod \in Nat /\ e[2] % AddrMod <= e[2]
      BY <1>1, <2>0, <3>1
    <3> QED BY <2>0, <2>4, <3>1, <3>2 DEF Cut
  <2> QED BY <2>1, <2>2, <2>3, <2>4 DEF MarkedRanges
<1>3. f \in Frame /\ r[1] < (f + 1) * PageSize /\ r[2] > f * PageSize
  BY <1>0, <1>2, MarkedOverlaps
<1>4. f * PageSize \in Int
  BY <1>3, PmmAssumption DEF Frame
<1> QED BY <1>2, <1>3, <1>4 DEF FramesOf

\* FreedIsFree is inductive once nothing is marked before pmm_init: the mark of
\* a frame is set when it is granted and cleared, if at all, when it is given
\* back.
FreedInv ==
    /\ phase = "boot" => used = {}
    /\ FreedIsFree

LEMMA NextFreed == IInv /\ FreedInv /\ [Next]_vars => FreedInv'
<1> SUFFICES ASSUME IInv, FreedInv, [Next]_vars PROVE FreedInv'
  OBVIOUS
<1>0. phase' = "boot" => used' = {}
  BY DEF FreedInv, Next, pmm_init, pmm_alloc_page, out_of_memory, pmm_free_page, Stopped, vars
<1> SUFFICES ASSUME phase' = "ready", WithinMemory', \A r \in Ranges(layout') : r[1] < AddrMod,
                    NEW f \in Frame \ Reserved', granted'[f] = 0, f \in used'
             PROVE  f % WordBits >= EntryBits
  BY <1>0 DEF FreedInv, FreedIsFree
<1>1. ASSUME NEW l \in Layouts, pmm_init(l) PROVE FALSE
  <2>1. phase = "boot" /\ used' = used \cup Marked(l) /\ layout' = l
    BY <1>1 DEF pmm_init
  <2>2. f \in Marked(l)
    BY <2>1 DEF FreedInv
  <2>3. \E r \in Ranges(l) : f \in FramesOf(r)
    BY <2>1, <2>2, OnlyOverlappedMarked
  <2> QED BY <2>1, <2>3 DEF Reserved
<1>2. CASE pmm_alloc_page
  <2>1. PICK b \in Bit \ used :
          /\ used' = used \cup {b}
          /\ granted' = [granted EXCEPT ![b % Frames] = @ + 1]
    BY <1>2 DEF pmm_alloc_page, MarkUsed
  <2>2. phase = "ready" /\ layout' = layout /\ granted \in [Frame -> Nat]
    BY <1>2 DEF pmm_alloc_page, IInv, TypeOK
  <2>3. WithinMemory /\ b \in Frame /\ b % Frames = b
    BY <2>1, BitFrame DEF WithinMemory
  <2>4. f # b /\ granted[f] = 0 /\ f \in used
    BY <2>1, <2>2, <2>3
  <2> QED BY <2>2, <2>3, <2>4 DEF FreedInv, FreedIsFree, Reserved
<1>3. ASSUME NEW g \in Frame, pmm_free_page(g) PROVE f % WordBits >= EntryBits
  <2>1. /\ phase = "ready" /\ layout' = layout
        /\ used' = used \ Cleared(g) /\ Cleared(g) \subseteq {g}
        /\ granted' = [granted EXCEPT ![g] = @ - 1]
        /\ granted \in [Frame -> Nat]
    BY <1>3, ClearedIsOwn DEF pmm_free_page, IInv, TypeOK
  <2>2. WithinMemory
    BY <2>1 DEF WithinMemory
  <2>3. CASE f = g
    <3>1. Cleared(g) = {}
      BY <2>1, <2>3
    <3>2. f \in Nat /\ WordBits \in Nat \ {0} /\ EntryBits \in Nat
      BY PmmAssumption DEF Frame
    <3> QED BY <2>3, <3>1, <3>2 DEF Cleared
  <2>4. CASE f # g
    BY <2>1, <2>2, <2>4 DEF FreedInv, FreedIsFree, Reserved
  <2> QED BY <2>3, <2>4
<1>4. CASE out_of_memory
  BY <1>4 DEF out_of_memory
<1>5. CASE UNCHANGED vars
  BY <1>5 DEF vars, FreedInv, FreedIsFree, WithinMemory, Reserved
<1> QED BY <1>1, <1>2, <1>3, <1>4, <1>5 DEF Next, Stopped

\* While no range starts above 4 GiB, a frame that nobody holds and that
\* pmm_init had no reason to mark is free to be handed out as long as the scan
\* stays within memory, except for the frames whose number pmm_mark_addr_free
\* shifts too far: the loss is confined to those, however often frames change
\* hands.
THEOREM FreedFramesReusable == Spec => []FreedIsFree
<1>1. Spec => []IInv
  BY InitIInv, NextIInv, PTL DEF Spec
<1>2. Init => FreedInv
  BY DEF Init, FreedInv, FreedIsFree
<1>3. FreedInv => FreedIsFree
  BY DEF FreedInv
<1> QED BY <1>1, <1>2, <1>3, NextFreed, PTL DEF Spec
=============================================================================
