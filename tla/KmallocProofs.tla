--------------------------- MODULE KmallocProofs ---------------------------
(***************************************************************************)
(* The heap invariants of Kmalloc for every heap size, header size and set *)
(* of request sizes.                                                       *)
(***************************************************************************)
EXTENDS Kmalloc, SequenceTheorems, TLAPS

\* Unlinking the i-th region of a list keeps every other region and shifts
\* the ones behind it forward by one.
LEMMA UnlinkProperties ==
    ASSUME NEW S, NEW s \in Seq(S), NEW i \in 1 .. Len(s)
    PROVE  /\ Unlink(s, i) \in Seq(S)
           /\ Len(Unlink(s, i)) = Len(s) - 1
           /\ \A j \in 1 .. Len(s) - 1 :
                 Unlink(s, i)[j] = IF j < i THEN s[j] ELSE s[j + 1]
<1> DEFINE a == SubSeq(s, 1, i - 1)
           b == SubSeq(s, i + 1, Len(s))
<1>0. /\ Len(s) \in Nat
      /\ \A k \in 1 .. Len(s) : s[k] \in S
  BY LenProperties, Zenon
<1>1. /\ a \in Seq(S)
      /\ Len(a) = i - 1
      /\ \A k \in 1 .. i - 1 : a[k] = s[k]
  <2>1. \A k \in 1 .. i - 1 : s[k] \in S
    BY <1>0
  <2> QED BY <2>1, SubSeqProperties, <1>0
<1>2. /\ b \in Seq(S)
      /\ Len(b) = Len(s) - i
      /\ \A k \in 1 .. Len(s) - i : b[k] = s[k + i]
  <2>1. \A k \in i + 1 .. Len(s) : s[k] \in S
    BY <1>0
  <2> QED BY <2>1, SubSeqProperties, <1>0
<1> HIDE DEF a, b
<1>3. /\ a \o b \in Seq(S)
      /\ Len(a \o b) = Len(a) + Len(b)
      /\ \A k \in 1 .. Len(a) + Len(b) :
            (a \o b)[k] = IF k <= Len(a) THEN a[k] ELSE b[k - Len(a)]
  BY <1>1, <1>2, ConcatProperties, Zenon
<1> DEFINE c == a \o b
<1> HIDE DEF c
<1>4. /\ c \in Seq(S)
      /\ Len(c) = Len(s) - 1
      /\ \A k \in 1 .. Len(s) - 1 : c[k] = IF k <= i - 1 THEN a[k] ELSE b[k - (i - 1)]
  <2>1. Len(a) + Len(b) = Len(s) - 1
    BY <1>0, <1>1, <1>2
  <2> QED BY <1>1, <1>3, <2>1, Zenon DEF c
<1>5. \A k \in 1 .. Len(s) - 1 : c[k] = IF k < i THEN s[k] ELSE s[k + 1]
  <2> SUFFICES ASSUME NEW k \in 1 .. Len(s) - 1
               PROVE  c[k] = IF k < i THEN s[k] ELSE s[k + 1]
    BY Zenon
  <2>1. CASE k < i
    BY <2>1, <1>0, <1>1, <1>4
  <2>2. CASE ~(k < i)
    <3>1. b[k - (i - 1)] = s[k - (i - 1) + i]
      BY <2>2, <1>0, <1>2
    <3> QED BY <2>2, <3>1, <1>0, <1>4
  <2> QED BY <2>1, <2>2, Zenon
<1> QED BY <1>4, <1>5, Zenon DEF Unlink, RemoveAt, a, b, c

\* A split cuts the bytes of a region in two: the part handed out and the
\* part that stays on the list.
LEMMA SplitExtents ==
    ASSUME NEW r \in Region, NEW size \in Nat \ {0},
           r.size > size + HdrSize,
           Extent(r) \subseteq 0 .. HeapSize - 1
    PROVE  LET t == Rest(r, size)
               n == [addr |-> r.addr, size |-> size]
           IN  /\ t \in Region
               /\ n \in Region
               /\ Extent(t) \cap Extent(n) = {}
               /\ Extent(t) \cup Extent(n) = Extent(r)
<1> DEFINE t == Rest(r, size)
           n == [addr |-> r.addr, size |-> size]
<1>1. /\ r.addr \in 0 .. HeapSize - 1
      /\ r.size \in 1 .. HeapSize
      /\ HdrSize \in Nat /\ HdrSize > 0 /\ HeapSize \in Nat
  BY HeapAssumption DEF Region
<1>2. r.addr + HdrSize + r.size - 1 \in 0 .. HeapSize - 1
  BY <1>1 DEF Extent
<1>3. /\ t.addr = r.addr + HdrSize + size
      /\ t.size = r.size - size - HdrSize
      /\ n.addr = r.addr
      /\ n.size = size
  BY Zenon DEF Rest
<1>4. /\ t.addr \in 0 .. HeapSize - 1
      /\ t.size \in 1 .. HeapSize
      /\ n.addr \in 0 .. HeapSize - 1
      /\ n.size \in 1 .. HeapSize
  BY <1>1, <1>2, <1>3
<1>5. t \in Region /\ n \in Region
  BY <1>3, <1>4, Zenon DEF Region, Rest
<1>6. /\ Extent(t) = r.addr + HdrSize + size .. r.addr + HdrSize + r.size - 1
      /\ Extent(n) = r.addr .. r.addr + HdrSize + size - 1
      /\ Extent(r) = r.addr .. r.addr + HdrSize + r.size - 1
  <2> HIDE DEF t, n
  <2>1. /\ t.addr + HdrSize + t.size - 1 = r.addr + HdrSize + r.size - 1
        /\ n.addr + HdrSize + n.size - 1 = r.addr + HdrSize + size - 1
    BY <1>1, <1>3
  <2> QED BY <1>3, <2>1, Zenon DEF Extent
<1>7. /\ Extent(t) \cap Extent(n) = {}
      /\ Extent(t) \cup Extent(n) = Extent(r)
  <2> HIDE DEF t, n
  <2>1. \A x, y, z \in Int : x <= y /\ y <= z =>
          (y .. z) \cap (x .. y - 1) = {} /\ (y .. z) \cup (x .. y - 1) = x .. z
    OBVIOUS
  <2> DEFINE y == r.addr + HdrSize + size
             z == r.addr + HdrSize + r.size - 1
  <2>2. /\ r.addr \in Int /\ y \in Int /\ z \in Int /\ r.addr <= y /\ y <= z
        /\ y - 1 = r.addr + HdrSize + size - 1
    BY <1>1
  <2>3. Extent(t) = y .. z /\ Extent(n) = r.addr .. y - 1 /\ Extent(r) = r.addr .. z
    BY <1>6, <2>2, Zenon
  <2> HIDE DEF y, z
  <2> QED BY <2>1, <2>2, <2>3, Zenon
<1> QED BY <1>5, <1>7, Zenon

\* The invariant is inductive as it stands: the three parts need each other.
\* A split stays inside the heap because the region it cuts does, and it
\* overlaps nothing because that region overlapped nothing.
IInv == TypeOK /\ RegionsDisjoint /\ HeapCovered

LEMMA InitIInv == kmalloc_init => IInv
<1> SUFFICES ASSUME kmalloc_init PROVE IInv
  BY Zenon
<1> DEFINE r == [addr |-> 0, size |-> HeapSize - HdrSize]
<1>0. HdrSize \in Nat /\ HdrSize > 0 /\ HeapSize \in Nat /\ HeapSize > HdrSize
  BY HeapAssumption
<1>1. r \in Region
  BY <1>0 DEF Region
<1>2. Extent(r) = 0 .. HeapSize - 1
  BY <1>0 DEF Extent
<1>3. /\ free = << r >>
      /\ DOMAIN free = {1}
      /\ free[1] = r
      /\ live = {}
  BY DEF kmalloc_init
<1> HIDE DEF r
<1>4. TypeOK
  BY <1>1, <1>3 DEF TypeOK
<1>5. RegionsDisjoint
  BY <1>2, <1>3, Zenon DEF RegionsDisjoint
<1>6. HeapCovered
  BY <1>2, <1>3, Zenon DEF HeapCovered
<1> QED BY <1>4, <1>5, <1>6, Zenon DEF IInv

LEMMA TakeWholeIInv ==
    ASSUME IInv, NEW i \in DOMAIN free, NEW size \in Sizes, TakeWhole(i, size)
    PROVE  IInv'
<1>0. /\ free \in Seq(Region) /\ live \subseteq Region
      /\ Len(free) \in Nat
      /\ DOMAIN free = 1 .. Len(free)
      /\ i \in 1 .. Len(free)
      /\ free[i] \in Region
  BY LenProperties, Zenon DEF IInv, TypeOK
<1>1. /\ free' \in Seq(Region)
      /\ DOMAIN free' = 1 .. Len(free) - 1
      /\ \A j \in DOMAIN free' : free'[j] = IF j < i THEN free[j] ELSE free[j + 1]
      /\ live' = live \cup {free[i]}
  <2>1. /\ free' = Unlink(free, i) /\ live' = live \cup {free[i]}
        /\ free' \in Seq(Region) /\ Len(free') = Len(free) - 1
        /\ \A k \in 1 .. Len(free) - 1 : free'[k] = IF k < i THEN free[k] ELSE free[k + 1]
    BY <1>0, UnlinkProperties, Zenon DEF TakeWhole
  <2>2. DOMAIN free' = 1 .. Len(free) - 1
    BY <2>1, LenProperties, Zenon
  <2> QED BY <2>1, <2>2, Zenon
<1>2. TypeOK'
  BY <1>0, <1>1, Zenon DEF TypeOK
<1> DEFINE old(j) == IF j < i THEN j ELSE j + 1
<1>3. /\ \A j \in DOMAIN free' : /\ old(j) \in DOMAIN free
                                 /\ old(j) # i
                                 /\ free'[j] = free[old(j)]
      /\ \A j, k \in DOMAIN free' : j # k => old(j) # old(k)
      /\ \A k \in DOMAIN free \ {i} : \E j \in DOMAIN free' : free'[j] = free[k]
  <2>1. \A k \in DOMAIN free \ {i} : \E j \in DOMAIN free' : free'[j] = free[k]
    <3> SUFFICES ASSUME NEW k \in DOMAIN free \ {i}
                 PROVE  \E j \in DOMAIN free' : free'[j] = free[k]
      BY Zenon
    <3>1. CASE k < i
      BY <3>1, <1>0, <1>1
    <3>2. CASE k > i
      <4>1. k - 1 \in DOMAIN free' /\ ~(k - 1 < i) /\ (k - 1) + 1 = k
        BY <3>2, <1>0, <1>1
      <4> QED BY <4>1, <1>1, Zenon
    <3> QED BY <3>1, <3>2, <1>0
  <2> QED BY <2>1, <1>0, <1>1
<1> HIDE DEF old
<1>4. RegionsDisjoint'
  BY <1>0, <1>1, <1>3 DEF IInv, RegionsDisjoint
<1>5. HeapCovered'
  BY <1>0, <1>1, <1>3, Zenon DEF IInv, HeapCovered
<1> QED BY <1>2, <1>4, <1>5, Zenon DEF IInv

LEMMA SplitIInv ==
    ASSUME IInv, NEW i \in DOMAIN free, NEW size \in Sizes, Split(i, size)
    PROVE  IInv'
<1> DEFINE t == Rest(free[i], size)
           n == [addr |-> free[i].addr, size |-> size]
<1>0. /\ free \in Seq(Region) /\ live \subseteq Region
      /\ Len(free) \in Nat
      /\ DOMAIN free = 1 .. Len(free)
      /\ i \in 1 .. Len(free)
      /\ free[i] \in Region
      /\ size \in Nat \ {0}
  BY LenProperties, HeapAssumption DEF IInv, TypeOK
<1>1. free[i].size > size + HdrSize
  BY Zenon DEF Split, FirstFit, Fits
<1>2. /\ t \in Region
      /\ n \in Region
      /\ Extent(t) \cap Extent(n) = {}
      /\ Extent(t) \cup Extent(n) = Extent(free[i])
  BY <1>0, <1>1, SplitExtents, Zenon DEF IInv, RegionsDisjoint
<1>3. /\ free' = [free EXCEPT ![i] = t]
      /\ live' = live \cup {n}
  BY Zenon DEF Split
<1> HIDE DEF t, n
<1>4. /\ free' \in Seq(Region)
      /\ DOMAIN free' = DOMAIN free
      /\ free'[i] = t
      /\ \A j \in DOMAIN free \ {i} : free'[j] = free[j]
  BY <1>0, <1>2, <1>3, ExceptSeq, Zenon
<1>5. TypeOK'
  BY <1>0, <1>2, <1>3, <1>4, Zenon DEF TypeOK
<1>6. RegionsDisjoint'
  BY <1>2, <1>3, <1>4 DEF IInv, RegionsDisjoint
<1>7. HeapCovered'
  BY <1>2, <1>3, <1>4, Zenon DEF IInv, HeapCovered
<1> QED BY <1>5, <1>6, <1>7, Zenon DEF IInv

LEMMA KfreeIInv ==
    ASSUME IInv, NEW r \in live, kfree(r)
    PROVE  IInv'
<1>0. /\ free \in Seq(Region) /\ live \subseteq Region
      /\ Len(free) \in Nat
      /\ DOMAIN free = 1 .. Len(free)
      /\ r \in Region
  BY LenProperties, Zenon DEF IInv, TypeOK
<1>1. /\ free' \in Seq(Region)
      /\ DOMAIN free' = 1 .. Len(free) + 1
      /\ free'[1] = r
      /\ \A j \in DOMAIN free : free'[j + 1] = free[j]
      /\ live' = live \ {r}
  <2>1. /\ Push(r, free) \in Seq(Region)
        /\ DOMAIN Push(r, free) = 1 .. Len(free) + 1
        /\ Push(r, free)[1] = r
        /\ \A j \in 1 .. Len(free) : Push(r, free)[j + 1] = free[j]
    BY <1>0 DEF Push
  <2> QED BY <1>0, <2>1, Zenon DEF kfree
<1> DEFINE old(j) == j - 1
<1>2. /\ 1 \in DOMAIN free'
      /\ \A j \in DOMAIN free : \E k \in DOMAIN free' : free'[k] = free[j]
      /\ \A j \in DOMAIN free' : j # 1 => /\ old(j) \in DOMAIN free
                                          /\ free'[j] = free[old(j)]
      /\ \A j, k \in DOMAIN free' : j # k => old(j) # old(k)
  <2>1. \A j \in DOMAIN free' : j # 1 => /\ j - 1 \in DOMAIN free
                                          /\ (j - 1) + 1 = j
    BY <1>0, <1>1
  <2>2. \A j \in DOMAIN free : j + 1 \in DOMAIN free'
    BY <1>0, <1>1
  <2> QED BY <1>0, <1>1, <2>1, <2>2
<1> HIDE DEF old
<1>3. TypeOK'
  BY <1>0, <1>1, Zenon DEF TypeOK
<1>4. RegionsDisjoint'
  <2>1. \A j, k \in DOMAIN free' : j # k => Extent(free'[j]) \cap Extent(free'[k]) = {}
    BY <1>1, <1>2 DEF IInv, RegionsDisjoint
  <2>2. \A j \in DOMAIN free', s \in live' : Extent(free'[j]) \cap Extent(s) = {}
    BY <1>1, <1>2 DEF IInv, RegionsDisjoint
  <2>3. \A j \in DOMAIN free' : Extent(free'[j]) \subseteq 0 .. HeapSize - 1
    BY <1>1, <1>2, Zenon DEF IInv, RegionsDisjoint
  <2> QED BY <1>1, <2>1, <2>2, <2>3, Zenon DEF IInv, RegionsDisjoint
<1>5. HeapCovered'
  BY <1>1, <1>2, Zenon DEF IInv, HeapCovered
<1> QED BY <1>3, <1>4, <1>5, Zenon DEF IInv

LEMMA NextIInv == IInv /\ [Next]_vars => IInv'
<1> SUFFICES ASSUME IInv, [Next]_vars PROVE IInv'
  BY Zenon
<1>1. ASSUME NEW size \in Sizes, NEW i \in DOMAIN free, TakeWhole(i, size)
      PROVE  IInv'
  BY <1>1, TakeWholeIInv, Zenon
<1>2. ASSUME NEW size \in Sizes, NEW i \in DOMAIN free, Split(i, size)
      PROVE  IInv'
  BY <1>2, SplitIInv, Zenon
<1>3. ASSUME NEW r \in live, kfree(r) PROVE IInv'
  BY <1>3, KfreeIInv, Zenon
<1>4. CASE UNCHANGED vars
  BY <1>4, Zenon DEF IInv, TypeOK, RegionsDisjoint, HeapCovered, vars
<1> QED BY <1>1, <1>2, <1>3, <1>4, Zenon DEF Next, kmalloc, OutOfHeap

\* The heap is well formed for ever: every region has its shape, regions stay
\* inside the heap and apart from each other, and no byte is lost, whatever
\* the sizes and the order of the calls to kmalloc and kfree.
THEOREM HeapWellFormed == Spec => []HeapPartitioned
<1>1. Spec => []IInv
  BY InitIInv, NextIInv, PTL DEF Spec
<1> QED BY <1>1, PTL DEF IInv, HeapPartitioned

LEMMA HeadersStep == IInv /\ [Next]_vars => Headers \subseteq Headers'
<1> SUFFICES ASSUME IInv, [Next]_vars PROVE Headers \subseteq Headers'
  BY Zenon
<1>0. /\ free \in Seq(Region)
      /\ Len(free) \in Nat
      /\ DOMAIN free = 1 .. Len(free)
  BY LenProperties, Zenon DEF IInv, TypeOK
<1>1. ASSUME NEW size \in Sizes, NEW i \in DOMAIN free, TakeWhole(i, size)
      PROVE  Headers \subseteq Headers'
  <2>1. /\ DOMAIN free' = 1 .. Len(free) - 1
        /\ \A j \in 1 .. Len(free) - 1 :
              free'[j] = IF j < i THEN free[j] ELSE free[j + 1]
        /\ live' = live \cup {free[i]}
    BY <1>0, <1>1, UnlinkProperties, LenProperties DEF TakeWhole
  <2>2. \A k \in DOMAIN free : k # i => \E j \in DOMAIN free' : free'[j] = free[k]
    <3> SUFFICES ASSUME NEW k \in DOMAIN free, k # i
                 PROVE  \E j \in DOMAIN free' : free'[j] = free[k]
      BY Zenon
    <3>1. CASE k < i
      BY <3>1, <1>0, <1>1, <2>1
    <3>2. CASE k > i
      <4>1. k - 1 \in DOMAIN free' /\ ~(k - 1 < i) /\ (k - 1) + 1 = k
        BY <3>2, <1>0, <1>1, <2>1
      <4> QED BY <4>1, <2>1, Zenon
    <3> QED BY <3>1, <3>2, <1>0, <1>1
  <2> QED BY <2>1, <2>2 DEF Headers
<1>2. ASSUME NEW size \in Sizes, NEW i \in DOMAIN free, Split(i, size)
      PROVE  Headers \subseteq Headers'
  <2>1. /\ DOMAIN free' = DOMAIN free
        /\ \A j \in DOMAIN free : j # i => free'[j] = free[j]
        /\ live \subseteq live'
    BY <1>0, <1>2, Zenon DEF Split
  <2>2. \E r \in live' : r.addr = free[i].addr
    <3> DEFINE n == [addr |-> free[i].addr, size |-> size]
    <3>1. n \in live' /\ n.addr = free[i].addr
      BY <1>2, Zenon DEF Split
    <3> QED BY <3>1, Zenon
  <2> QED BY <2>1, <2>2, Zenon DEF Headers
<1>3. ASSUME NEW r \in live, kfree(r) PROVE Headers \subseteq Headers'
  <2>1. /\ 1 \in DOMAIN free'
        /\ free'[1] = r
        /\ \A j \in DOMAIN free : j + 1 \in DOMAIN free' /\ free'[j + 1] = free[j]
        /\ live' = live \ {r}
    BY <1>0, <1>3 DEF kfree, Push
  <2> QED BY <2>1, Zenon DEF Headers
<1>4. CASE UNCHANGED vars
  BY <1>4, Zenon DEF Headers, vars
<1> QED BY <1>1, <1>2, <1>3, <1>4, Zenon DEF Next, kmalloc, OutOfHeap

\* No step of kmalloc or kfree removes a region boundary: the heap is only
\* ever cut finer, because kfree joins nothing.
THEOREM BoundariesPermanent == Spec => HeadersPermanent
<1>1. Spec => []IInv
  BY InitIInv, NextIInv, PTL DEF Spec
<1>2. IInv /\ [Next]_vars => [Headers \subseteq Headers']_vars
  BY HeadersStep, Zenon
<1> QED BY <1>1, <1>2, PTL DEF Spec, HeadersPermanent

\* Taken together, a payload is not empty, lies inside its region, and two
\* live regions have different payloads.
LEMMA PayloadFacts ==
    ASSUME NEW r \in Region
    PROVE  Payload(r) # {} /\ Payload(r) \subseteq Extent(r)
<1>1. r.addr \in Nat /\ r.size \in Nat /\ r.size > 0 /\ HdrSize \in Nat /\ HdrSize > 0
  BY HeapAssumption DEF Region
<1>2. r.addr + HdrSize \in Payload(r)
  BY <1>1 DEF Payload
<1> QED BY <1>1, <1>2 DEF Payload, Extent

LEMMA PayloadIsExtent ==
    ASSUME NEW r \in Region, Extent(r) \subseteq 0 .. HeapSize - 1
    PROVE  Payload(r) \in {lo .. hi : lo, hi \in Bytes}
<1>1. /\ r.addr \in Nat /\ r.size \in Nat /\ r.size > 0
      /\ HdrSize \in Nat /\ HdrSize > 0 /\ HeapSize \in Nat
  BY HeapAssumption DEF Region
<1>2. /\ r.addr + HdrSize \in Bytes
      /\ r.addr + HdrSize + r.size - 1 \in Bytes
  BY <1>1 DEF Extent, Bytes
<1> QED BY <1>2 DEF Payload

\* Handing out a region acquires its payload.
LEMMA AcquireStep ==
    ASSUME IInv, IInv', NEW r \in live', live' = live \cup {r},
           \A s \in live : Extent(r) \cap Extent(s) = {}
    PROVE  \E S \in {lo .. hi : lo, hi \in Bytes} : Alloc!Acquire(S)
<1>1. r \in Region /\ Extent(r) \subseteq 0 .. HeapSize - 1 /\ live \subseteq Region
  BY Zenon DEF IInv, TypeOK, RegionsDisjoint
<1>2. Payload(r) \in {lo .. hi : lo, hi \in Bytes}
  BY <1>1, PayloadIsExtent
<1>3. Payload(r) # {} /\ \A s \in live : Payload(r) \cap Payload(s) = {}
  BY <1>1, PayloadFacts, Zenon
<1>4. {Payload(s) : s \in live}' = {Payload(s) : s \in live} \cup {Payload(r)}
  BY Zenon DEF Payload
<1> DEFINE P == Payload(r)
<1> HIDE DEF P
<1>5. P \in {lo .. hi : lo, hi \in Bytes} /\ Alloc!Acquire(P)
  BY <1>2, <1>3, <1>4 DEF Alloc!Acquire, P
<1> QED
  <2> P \in {lo .. hi : lo, hi \in Bytes}
    BY <1>5
  <2> WITNESS P \in {lo .. hi : lo, hi \in Bytes}
  <2> QED BY <1>5

\* Giving a region back releases its payload: no other live region has it.
LEMMA ReleaseStep ==
    ASSUME IInv, NEW r \in live, live' = live \ {r}
    PROVE  \E S \in {lo .. hi : lo, hi \in Bytes} : Alloc!Release(S)
<1>1. r \in Region /\ Extent(r) \subseteq 0 .. HeapSize - 1 /\ live \subseteq Region
  BY Zenon DEF IInv, TypeOK, RegionsDisjoint
<1>2. Payload(r) \in {lo .. hi : lo, hi \in Bytes}
  BY <1>1, PayloadIsExtent
<1>3. \A s \in live : s # r => Payload(s) # Payload(r)
  BY <1>1, PayloadFacts DEF IInv, RegionsDisjoint
<1>4. {Payload(s) : s \in live}' = {Payload(s) : s \in live} \ {Payload(r)}
  <2>1. {Payload(s) : s \in live}' = {Payload(s) : s \in live'}
    BY Zenon DEF Payload
  <2> QED BY <1>3, <2>1, Zenon
<1> DEFINE P == Payload(r)
<1> HIDE DEF P
<1>5. P \in {lo .. hi : lo, hi \in Bytes} /\ Alloc!Release(P)
  BY <1>2, <1>4 DEF Alloc!Release, P
<1> QED
  <2> P \in {lo .. hi : lo, hi \in Bytes}
    BY <1>5
  <2> WITNESS P \in {lo .. hi : lo, hi \in Bytes}
  <2> QED BY <1>5

LEMMA AllocStep == IInv /\ IInv' /\ [Next]_vars => [Alloc!Next]_{Payload(r) : r \in live}
<1> SUFFICES ASSUME IInv, IInv', [Next]_vars
             PROVE  [Alloc!Next]_{Payload(r) : r \in live}
  BY Zenon
<1>1. ASSUME NEW size \in Sizes, NEW i \in DOMAIN free, TakeWhole(i, size)
      PROVE  Alloc!Next
  <2>1. /\ live' = live \cup {free[i]}
        /\ \A s \in live : Extent(free[i]) \cap Extent(s) = {}
    BY <1>1, Zenon DEF TakeWhole, IInv, RegionsDisjoint
  <2> QED BY <2>1, AcquireStep DEF Alloc!Next
<1>2. ASSUME NEW size \in Sizes, NEW i \in DOMAIN free, Split(i, size)
      PROVE  Alloc!Next
  <2> DEFINE n == [addr |-> free[i].addr, size |-> size]
  <2>1. /\ free[i] \in Region
        /\ size \in Nat \ {0}
        /\ free[i].size > size + HdrSize
        /\ live' = live \cup {n}
    BY <1>2, ElementOfSeq, LenProperties, HeapAssumption
       DEF Split, FirstFit, Fits, IInv, TypeOK
  <2>2. Extent(n) \subseteq Extent(free[i])
    BY <2>1, SplitExtents DEF IInv, RegionsDisjoint
  <2> HIDE DEF n
  <2>3. \A s \in live : Extent(n) \cap Extent(s) = {}
    BY <2>2, Zenon DEF IInv, RegionsDisjoint
  <2>4. n \in live'
    BY <2>1, Zenon
  <2>5. \E S \in {lo .. hi : lo, hi \in Bytes} : Alloc!Acquire(S)
    BY <2>1, <2>3, <2>4, AcquireStep
  <2> QED BY <2>5 DEF Alloc!Next
<1>3. ASSUME NEW r \in live, kfree(r) PROVE Alloc!Next
  BY <1>3, ReleaseStep DEF kfree, Alloc!Next
<1>4. CASE UNCHANGED vars
  BY <1>4, Zenon DEF vars, Payload
<1> QED BY <1>1, <1>2, <1>3, <1>4, Zenon DEF Next, kmalloc, OutOfHeap

\* kmalloc and kfree implement the exclusive allocator: between the kmalloc
\* that returns it and the kfree that takes it back, a payload is disjoint
\* from every other payload.
THEOREM KmallocImplementsAllocator == Spec => PayloadsExclusive
<1>1. Spec => []IInv
  BY InitIInv, NextIInv, PTL DEF Spec
<1>2. kmalloc_init => Alloc!Init
  BY Zenon DEF kmalloc_init, Alloc!Init
<1> QED BY <1>1, <1>2, AllocStep, PTL DEF Spec, PayloadsExclusive, Alloc!Spec
=============================================================================
