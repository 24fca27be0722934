---------------------------- MODULE LoaderProofs ----------------------------
(***************************************************************************)
(* For every page size, file and user stack: a load that comes to its end  *)
(* has each segment in memory byte for byte; a load that does not has a    *)
(* reason in the file; each page of the task has a frame of its own and    *)
(* nothing stays mapped in the kernel's context.                           *)
(*                                                                         *)
(* FramesPrivate is not inductive: that the frame of the next page is new  *)
(* needs that frames are handed out in order and that the pages mapped so  *)
(* far have earlier ones, and that the kernel's mapping goes needs that    *)
(* page means the same when the page is mapped and when it is unmapped.    *)
(* The other two follow from what has been loaded at each step of the page *)
(* loop, and from whose the pages are that the task has so far.            *)
(***************************************************************************)
EXTENDS Loader, TLAPS

Frame == [0 .. PAGE_SIZE - 1 -> Int]

\* The steps with a page mapped in the kernel's context.
Mapped == {"copy", "map_user", "zero", "unmap"}

TypeOK ==
    /\ program \in Seq(ProgramHeader)
    /\ step \in {"parse", "header", "page", "stack", "loaded", "panic"} \cup Mapped
    /\ n \in Nat \ {0} /\ i \in Nat /\ file_size \in Nat
    /\ memory \in Seq(Frame)
    /\ step \in {"page"} \cup Mapped => n <= Len(program)

\* A page that is being loaded has the frame handed out last; the pages of the
\* task have earlier ones.
FramesInOrder ==
    /\ step # "loaded" => \A p \in DOMAIN user : user[p].frame \in 1 .. Len(memory)
    /\ step \in {"copy", "map_user"} => \A p \in DOMAIN user : user[p].frame < Len(memory)
    /\ step \in Mapped => Len(memory) > 0

FramesDistinct == \A p, q \in DOMAIN user : p # q => user[p].frame # user[q].frame

\* The kernel's context has the page being loaded, or nothing.
KernelHasPage ==
    /\ step \in Mapped => DOMAIN kern = {page}
    /\ step \notin Mapped \cup {"panic"} => DOMAIN kern = {}

IInv == TypeOK /\ FramesInOrder /\ FramesDistinct /\ KernelHasPage
-----------------------------------------------------------------------------
(* What is in memory while segments are loaded.  A copy takes the whole    *)
(* rest of a segment, so that a segment the loader comes to the end of has *)
(* at most two pages, the second one with zeros only.                      *)

FirstPage(s) == s.vaddr \div PAGE_SIZE
Start(s) == s.vaddr % PAGE_SIZE
Data(s, b) == IF b < s.filesz THEN FileByte(s.offset + b) ELSE Zero

\* The first bytes of a segment are in the memory m, at the pages of u.
ByteIn(u, m, s, b) ==
    /\ (s.vaddr + b) \div PAGE_SIZE \in DOMAIN u
    /\ m[u[(s.vaddr + b) \div PAGE_SIZE].frame][(s.vaddr + b) % PAGE_SIZE] = Data(s, b)
    /\ u[(s.vaddr + b) \div PAGE_SIZE].write = ("W" \in s.flags)
BytesIn(u, m, s, count) == \A b \in 0 .. count - 1 : ByteIn(u, m, s, b)

\* The pages that are loaded: not the one being cleared.
Done == IF step = "zero" THEN [p \in DOMAIN user \ {page} |-> user[p]] ELSE user

InSegment == step \in {"page"} \cup Mapped

\* The header is checked first, the segments are loaded in order, and only
\* LOAD entries are passed.
Earlier ==
    /\ header \in Header
    /\ step \notin {"parse", "panic"} => header = Expected
    /\ step = "parse" => n = 1 /\ DOMAIN user = {}
    /\ step = "header" \/ InSegment =>
        /\ n - 1 <= Len(program)
        /\ \A k \in 1 .. n - 1 :
            program[k].type = "LOAD" /\ BytesIn(Done, memory, program[k], Size(program[k]))
    /\ InSegment => hdr.type = "LOAD"
    /\ step \in {"stack", "loaded"} =>
        \A k \in BeforeNull : BytesIn(user, memory, program[k], Size(program[k]))
    /\ step = "zero" => \A p \in DOMAIN Done : Done[p].frame < Len(memory)

\* With one page loaded, the segment is, or all of its data.
AfterFirst ==
    \/ /\ Start(hdr) + Size(hdr) <= PAGE_SIZE /\ hdr.filesz < PAGE_SIZE
       /\ file_size = hdr.filesz
       /\ BytesIn(user, memory, hdr, Size(hdr))
    \/ /\ Start(hdr) = 0 /\ hdr.filesz = PAGE_SIZE /\ file_size = 0
       /\ BytesIn(user, memory, hdr, PAGE_SIZE)

AfterSecond ==
    /\ Start(hdr) = 0 /\ hdr.filesz = PAGE_SIZE /\ file_size = 0
    /\ PAGE_SIZE < hdr.memsz /\ hdr.memsz <= 2 * PAGE_SIZE
    /\ BytesIn(user, memory, hdr, hdr.memsz)

InFirst == i = 0 /\ file_size = hdr.filesz /\ Size(hdr) > 0

InSecond ==
    /\ i = 1 /\ Start(hdr) = 0 /\ hdr.filesz = PAGE_SIZE /\ file_size = 0
    /\ PAGE_SIZE < hdr.memsz
    /\ BytesIn(Done, memory, hdr, PAGE_SIZE)

Progress ==
    /\ step = "page" =>
        \/ i = 0 /\ file_size = hdr.filesz
        \/ i = 1 /\ AfterFirst
        \/ i = 2 /\ AfterSecond
    /\ step \in {"copy", "map_user", "zero"} => InFirst \/ InSecond
    /\ step \in {"map_user", "zero"} /\ i = 0 =>
        /\ Start(hdr) + hdr.filesz <= PAGE_SIZE
        /\ \A b \in 0 .. hdr.filesz - 1 : memory[frame][Start(hdr) + b] = FileByte(hdr.offset + b)
    /\ step = "zero" => page \in DOMAIN user /\ user[page] = Mapping(frame)
    /\ step = "unmap" => (i = 0 /\ AfterFirst) \/ (i = 1 /\ AfterSecond)

\* The pages of the task are pages of its segments; of the segment that is
\* being loaded, the ones up to i.
PagesOwned ==
    /\ step = "header" \/ InSegment =>
        \A p \in DOMAIN Done :
            \/ \E k \in 1 .. n - 1 : p \in PagesOf(program[k])
            \/ InSegment /\ p \in PagesOf(hdr) /\ p \in FirstPage(hdr) .. FirstPage(hdr) + i
               /\ (step # "unmap" => p # FirstPage(hdr) + i)
    /\ step = "stack" => \A p \in DOMAIN user : \E k \in BeforeNull : p \in PagesOf(program[k])
    /\ step = "loaded" =>
        \A p \in DOMAIN user \ UserStack : \E k \in BeforeNull : p \in PagesOf(program[k])
    /\ step = "zero" => page \in PagesOf(hdr)

LInv == IInv /\ Earlier /\ Progress /\ PagesOwned /\ PanicExplained
-----------------------------------------------------------------------------

\* Where WithPages adds pages that are not mapped, it leaves the others alone.
LEMMA WithPagesFact ==
    ASSUME NEW ctx, NEW new, DOMAIN new \cap DOMAIN ctx = {}
    PROVE  /\ DOMAIN WithPages(ctx, new) = DOMAIN new \cup DOMAIN ctx
           /\ \A p \in DOMAIN new : WithPages(ctx, new)[p] = new[p]
           /\ \A p \in DOMAIN ctx : WithPages(ctx, new)[p] = ctx[p]
BY Zenon DEF WithPages

LEMMA InitIInv == Init => IInv
<1> SUFFICES ASSUME Init PROVE IInv
  BY Zenon
<1>1. DOMAIN kern = {} /\ DOMAIN user = {}
  BY DEF Init
<1>2. memory \in Seq(Frame)
  BY DEF Init
<1> QED BY <1>1, <1>2, LoaderAssumption
        DEF Init, IInv, TypeOK, FramesInOrder, FramesDistinct, KernelHasPage, Mapped

LEMMA ParseIInv == IInv /\ parse => IInv'
BY Zenon DEF IInv, TypeOK, FramesInOrder, FramesDistinct, KernelHasPage, Mapped, parse, segment,
       page, virtual_addr, hdr

LEMMA HeaderFact == IInv /\ n <= Len(program) => program[n] \in ProgramHeader
BY DEF IInv, TypeOK

LEMMA ElfLoadIInv == IInv /\ elf_load => IInv'
<1> SUFFICES ASSUME IInv, elf_load PROVE IInv'
  BY Zenon
<1>1. step = "header" /\ step' \in {"stack", "page", "panic"}
  BY Zenon DEF elf_load
<1>2. TypeOK'
  <2>1. step' = "page" => n <= Len(program) /\ file_size' = program[n].filesz
    BY Zenon DEF elf_load, Type
  <2>2. step' # "page" => UNCHANGED file_size
    BY Zenon DEF elf_load, segment
  <2>3. CASE step' = "page"
    <3>1. program[n] \in ProgramHeader
      BY <2>1, <2>3, HeaderFact, Zenon
    <3>2. file_size' \in Nat
      BY <2>1, <2>3, <3>1, Zenon DEF ProgramHeader
    <3> QED BY <1>1, <2>1, <2>3, <3>2 DEF IInv, TypeOK, Mapped, elf_load, segment
  <2>4. CASE step' # "page"
    BY <1>1, <2>2, <2>4, Zenon DEF IInv, TypeOK, Mapped, elf_load, segment
  <2> QED BY <2>3, <2>4, Zenon
<1>3. FramesInOrder' /\ FramesDistinct' /\ KernelHasPage'
  BY <1>1 DEF IInv, FramesInOrder, FramesDistinct, KernelHasPage, Mapped, elf_load
<1> QED BY <1>2, <1>3, Zenon DEF IInv

LEMMA NextSegmentIInv == IInv /\ next_segment => IInv'
BY DEF IInv, TypeOK, FramesInOrder, FramesDistinct, KernelHasPage, Mapped, next_segment

\* In a segment, page stays the same as long as i does.
LEMMA PageFact == UNCHANGED <<program, n, i>> => page' = page
BY Zenon DEF page, virtual_addr, hdr

LEMMA MapKernelIInv == IInv /\ map_kernel => IInv'
<1> SUFFICES ASSUME IInv, map_kernel PROVE IInv'
  BY Zenon
<1>1. step = "page" /\ step' \in {"copy", "panic"} /\ UNCHANGED <<program, segment, user>>
  BY Zenon DEF map_kernel
<1>2. memory' \in Seq(Frame) /\ Len(memory') = Len(memory) + 1 /\ Len(memory) \in Nat
  <2>1. [b \in 0 .. PAGE_SIZE - 1 |-> Other] \in Frame
    BY DEF Frame, Other
  <2>2. memory \in Seq(Frame)
    BY Zenon DEF IInv, TypeOK
  <2> QED BY <2>1, <2>2 DEF map_kernel
<1>3. TypeOK'
  BY <1>1, <1>2, Zenon DEF IInv, TypeOK, Mapped, segment
<1>4. FramesInOrder' /\ FramesDistinct'
  BY <1>1, <1>2 DEF IInv, FramesInOrder, FramesDistinct
<1>5. KernelHasPage'
  <2>1. DOMAIN kern = {}
    BY <1>1, Zenon DEF IInv, KernelHasPage, Mapped
  <2>2. step' = "copy" => DOMAIN kern' = {page}
    BY <2>1, Zenon DEF map_kernel, WithPages
  <2>3. page' = page
    BY <1>1, PageFact, Zenon DEF segment
  <2> QED BY <1>1, <2>2, <2>3, Zenon DEF KernelHasPage, Mapped
<1> QED BY <1>3, <1>4, <1>5, Zenon DEF IInv

\* A store changes bytes of the frame handed out last, and nothing else.
LEMMA StoredFact ==
    ASSUME memory \in Seq(Frame), Len(memory) > 0, NEW addr, NEW val,
           \A b \in DOMAIN val : val[b] \in Int
    PROVE  Stored(addr, val) \in Seq(Frame) /\ Len(Stored(addr, val)) = Len(memory)
<1> DEFINE new == [b \in 0 .. PAGE_SIZE - 1 |->
                    IF b - Offset(addr) \in DOMAIN val THEN val[b - Offset(addr)]
                    ELSE memory[frame][b]]
<1>1. frame \in DOMAIN memory /\ memory[frame] \in Frame
  BY DEF frame
<1>2. new \in Frame
  BY <1>1, Zenon DEF Frame
<1>3. Stored(addr, val) = [memory EXCEPT ![frame] = new]
  BY Zenon DEF Stored
<1> HIDE DEF new
<1> QED BY <1>1, <1>2, <1>3

LEMMA CopyIInv == IInv /\ copy => IInv'
<1> SUFFICES ASSUME IInv, copy PROVE IInv'
  BY Zenon
<1> DEFINE val == [b \in 0 .. file_size - 1 |-> FileByte(hdr.offset + i * PAGE_SIZE + b)]
<1>1. /\ step = "copy" /\ step' \in {"map_user", "panic"}
      /\ UNCHANGED <<program, n, i, file_size, kern, user>>
  BY Zenon DEF copy, segment
<1>2. memory \in Seq(Frame) /\ Len(memory) > 0
  BY <1>1, Zenon DEF IInv, TypeOK, FramesInOrder, Mapped
<1>3. \A b \in DOMAIN val : val[b] \in Int
  <2>1. hdr \in ProgramHeader
    BY <1>1, HeaderFact, Zenon DEF IInv, TypeOK, Mapped, hdr
  <2>2. hdr.offset \in Nat /\ i \in Nat /\ file_size \in Nat /\ i * PAGE_SIZE \in Nat
    BY <2>1, LoaderAssumption DEF ProgramHeader, IInv, TypeOK
  <2> QED BY <2>2 DEF FileByte, Other
<1>4. memory' = memory \/ memory' = Stored(virtual_addr, val)
  BY Zenon DEF copy
<1>5. memory' \in Seq(Frame) /\ Len(memory') = Len(memory)
  <2> HIDE DEF val
  <2> QED BY <1>2, <1>3, <1>4, StoredFact
<1> QED BY <1>1, <1>5, PageFact
        DEF IInv, TypeOK, FramesInOrder, FramesDistinct, KernelHasPage, Mapped

LEMMA MapUserIInv == IInv /\ map_user => IInv'
<1> SUFFICES ASSUME IInv, map_user PROVE IInv'
  BY Zenon
<1>1. /\ step = "map_user" /\ step' \in {"zero", "panic"}
      /\ UNCHANGED <<program, n, i, file_size, kern, memory>>
  BY Zenon DEF map_user, segment
<1>2. TypeOK'
  BY <1>1, Zenon DEF IInv, TypeOK, Mapped
<1>3. KernelHasPage'
  BY <1>1, PageFact, Zenon DEF IInv, KernelHasPage, Mapped
<1>4. CASE UNCHANGED user
  BY <1>1, <1>2, <1>3, <1>4 DEF IInv, FramesInOrder, FramesDistinct, Mapped
<1>5. CASE page \notin DOMAIN user /\ user' = WithPages(user, [p \in {page} |-> UserMapping])
  <2>1. /\ DOMAIN user' = {page} \cup DOMAIN user
        /\ user'[page] = UserMapping
        /\ \A p \in DOMAIN user : user'[p] = user[p]
    BY <1>5, Zenon DEF WithPages
  <2>2. UserMapping.frame = Len(memory)
    BY Zenon DEF UserMapping, Mapping, frame
  <2>3. /\ Len(memory) \in Nat \ {0}
        /\ \A p \in DOMAIN user : user[p].frame \in 1 .. Len(memory) /\ user[p].frame < Len(memory)
    BY <1>1 DEF IInv, TypeOK, FramesInOrder, Mapped
  <2>4. FramesInOrder'
    BY <1>1, <2>1, <2>2, <2>3 DEF FramesInOrder
  <2>5. FramesDistinct'
    BY <2>1, <2>2, <2>3 DEF IInv, FramesDistinct
  <2> QED BY <1>2, <1>3, <2>4, <2>5, Zenon DEF IInv
<1> QED BY <1>4, <1>5, Zenon DEF map_user

LEMMA ZeroIInv == IInv /\ zero => IInv'
<1> SUFFICES ASSUME IInv, zero PROVE IInv'
  BY Zenon
<1> DEFINE val == [b \in 0 .. ZeroCount - 1 |-> Zero]
<1>1. /\ step = "zero" /\ step' \in {"unmap", "panic"}
      /\ UNCHANGED <<program, n, i, kern, user>>
  BY Zenon DEF zero
<1>2. file_size' \in Nat
  BY LoaderAssumption DEF zero, IInv, TypeOK
<1>3. memory' \in Seq(Frame) /\ Len(memory') = Len(memory)
  <2>1. CASE UNCHANGED memory
    BY <2>1, Zenon DEF IInv, TypeOK
  <2>2. CASE memory' = Stored(ZeroAddr, val)
    <3>1. \A b \in DOMAIN val : val[b] \in Int
      BY DEF Zero
    <3>2. memory \in Seq(Frame) /\ Len(memory) > 0
      BY <1>1, Zenon DEF IInv, TypeOK, FramesInOrder, Mapped
    <3> HIDE DEF val
    <3> QED BY <2>2, <3>1, <3>2, StoredFact, Zenon
  <2> QED BY <2>1, <2>2, Zenon DEF zero
<1> QED BY <1>1, <1>2, <1>3, PageFact
        DEF IInv, TypeOK, FramesInOrder, FramesDistinct, KernelHasPage, Mapped

LEMMA UnmapKernelIInv == IInv /\ unmap_kernel => IInv'
<1> SUFFICES ASSUME IInv, unmap_kernel PROVE IInv'
  BY Zenon
<1>1. DOMAIN kern' = {}
  BY Zenon DEF unmap_kernel, IInv, KernelHasPage, Mapped
<1> QED BY <1>1
        DEF unmap_kernel, IInv, TypeOK, FramesInOrder, FramesDistinct, KernelHasPage, Mapped

LEMMA MapUserStackIInv == IInv /\ map_user_stack => IInv'
<1> SUFFICES ASSUME IInv, map_user_stack PROVE IInv'
  BY Zenon
<1>1. /\ step = "stack" /\ step' \in {"loaded", "panic"}
      /\ UNCHANGED <<program, n, i, file_size, kern>>
  BY Zenon DEF map_user_stack, segment
<1>2. KernelHasPage'
  BY <1>1, Zenon DEF IInv, KernelHasPage, Mapped
<1>3. CASE step' = "panic"
  BY <1>1, <1>2, <1>3, Zenon DEF map_user_stack, IInv, TypeOK, FramesInOrder, FramesDistinct, Mapped
<1>4. CASE step' = "loaded"
  <2> DEFINE stack == [p \in UserStack |->
                        [frame |-> frame + 1 + p - UserStackPage, write |-> TRUE]]
             fresh == [k \in 1 .. USER_STACK_PAGE_COUNT |-> [b \in 0 .. PAGE_SIZE - 1 |-> Other]]
  <2>1. /\ UserStack \cap DOMAIN user = {}
        /\ user' = WithPages(user, stack) /\ memory' = memory \o fresh
    BY <1>4, Zenon DEF map_user_stack
  <2>2. fresh \in Seq(Frame)
    <3>1. USER_STACK_PAGE_COUNT \in Nat
      BY LoaderAssumption, Zenon
    <3>2. [b \in 0 .. PAGE_SIZE - 1 |-> Other] \in Frame
      BY DEF Frame, Other
    <3>3. fresh \in [1 .. USER_STACK_PAGE_COUNT -> Frame]
      BY <3>2, Zenon
    <3> HIDE DEF fresh
    <3> QED BY <3>1, <3>3
  <2>3. TypeOK'
    <3> HIDE DEF fresh, stack
    <3>1. memory' \in Seq(Frame)
      BY <2>1, <2>2 DEF IInv, TypeOK
    <3> QED BY <1>1, <1>4, <3>1, Zenon DEF IInv, TypeOK, Mapped
  <2>4. FramesInOrder'
    BY <1>4, Zenon DEF FramesInOrder, Mapped
  <2>5. /\ DOMAIN user' = UserStack \cup DOMAIN user
        /\ \A p \in UserStack : user'[p] = stack[p]
        /\ \A p \in DOMAIN user : user'[p] = user[p]
    <3>1. DOMAIN stack = UserStack
      BY Zenon
    <3> HIDE DEF stack
    <3>2. /\ DOMAIN WithPages(user, stack) = DOMAIN stack \cup DOMAIN user
          /\ \A p \in DOMAIN stack : WithPages(user, stack)[p] = stack[p]
          /\ \A p \in DOMAIN user : WithPages(user, stack)[p] = user[p]
      BY <2>1, <3>1, WithPagesFact, Zenon
    <3> QED BY <2>1, <3>1, <3>2, Zenon
  <2>6. /\ Len(memory) \in Nat
        /\ \A p \in DOMAIN user : user[p].frame \in 1 .. Len(memory)
    BY <1>1 DEF IInv, TypeOK, FramesInOrder
  <2>7. \A p \in UserStack : /\ stack[p].frame = Len(memory) + 1 + p - UserStackPage
                             /\ p \in Nat
    BY LoaderAssumption DEF frame, UserStack
  <2>8. UserStackPage \in Nat /\ \A p \in UserStack : UserStackPage <= p
    BY LoaderAssumption DEF UserStack
  <2>9. FramesDistinct'
    <3> HIDE DEF stack
    <3> SUFFICES ASSUME NEW p \in DOMAIN user', NEW q \in DOMAIN user', p # q
                 PROVE  user'[p].frame # user'[q].frame
      BY Zenon DEF FramesDistinct
    <3>1. CASE p \in DOMAIN user /\ q \in DOMAIN user
      BY <2>5, <3>1, Zenon DEF IInv, FramesDistinct
    <3>2. CASE p \in UserStack /\ q \in UserStack
      <4>1. /\ user'[p].frame = Len(memory) + 1 + p - UserStackPage
            /\ user'[q].frame = Len(memory) + 1 + q - UserStackPage
        BY <2>5, <2>7, <3>2, Zenon
      <4>2. p \in Nat /\ q \in Nat /\ UserStackPage \in Nat /\ Len(memory) \in Nat
        BY <2>6, <2>7, <2>8, <3>2, Zenon
      <4> QED BY <4>1, <4>2
    <3>3. CASE (p \in UserStack /\ q \in DOMAIN user) \/ (q \in UserStack /\ p \in DOMAIN user)
      BY <2>5, <2>6, <2>7, <2>8, <3>3
    <3> QED BY <2>5, <3>1, <3>2, <3>3, Zenon
  <2> QED BY <1>2, <2>3, <2>4, <2>9, Zenon DEF IInv
<1> QED BY <1>1, <1>3, <1>4, Zenon

LEMMA NextIInv == IInv /\ [Next]_vars => IInv'
<1> SUFFICES ASSUME IInv, [Next]_vars PROVE IInv'
  BY Zenon
<1>1. CASE UNCHANGED vars
  BY <1>1 DEF vars, segment, IInv, TypeOK, FramesInOrder, FramesDistinct, KernelHasPage, Mapped,
              page, virtual_addr, hdr
<1> QED BY <1>1, ParseIInv, ElfLoadIInv, NextSegmentIInv, MapKernelIInv, CopyIInv, MapUserIInv,
           ZeroIInv, UnmapKernelIInv, MapUserStackIInv, Zenon
        DEF Next, handle_loadable_segment, Ended

-----------------------------------------------------------------------------
(* Arithmetic of pages and segments.                                       *)

LEMMA SegmentFact ==
    ASSUME NEW s \in ProgramHeader
    PROVE  /\ s.vaddr \in Nat /\ s.offset \in Nat /\ s.filesz \in Nat /\ s.memsz \in Nat
           /\ Start(s) \in 0 .. PAGE_SIZE - 1 /\ FirstPage(s) \in Nat
           /\ s.vaddr = FirstPage(s) * PAGE_SIZE + Start(s)
           /\ Size(s) \in Nat /\ Size(s) >= s.filesz /\ Size(s) >= s.memsz
           /\ Size(s) = s.filesz \/ Size(s) = s.memsz
<1>1. s.vaddr \in Nat /\ s.offset \in Nat /\ s.filesz \in Nat /\ s.memsz \in Nat
  BY Zenon DEF ProgramHeader
<1>2. PAGE_SIZE \in Nat \ {0}
  BY LoaderAssumption, Zenon
<1>3. /\ Start(s) \in 0 .. PAGE_SIZE - 1 /\ FirstPage(s) \in Nat
      /\ s.vaddr = FirstPage(s) * PAGE_SIZE + Start(s)
  <2>1. \A a \in Nat : /\ a % PAGE_SIZE \in 0 .. PAGE_SIZE - 1 /\ a \div PAGE_SIZE \in Nat
                       /\ a = (a \div PAGE_SIZE) * PAGE_SIZE + (a % PAGE_SIZE)
    BY <1>2
  <2> QED BY <1>1, <2>1, Zenon DEF Start, FirstPage
<1>4. /\ Size(s) \in Nat /\ Size(s) >= s.filesz /\ Size(s) >= s.memsz
      /\ Size(s) = s.filesz \/ Size(s) = s.memsz
  BY <1>1 DEF Size
<1> QED BY <1>1, <1>3, <1>4, Zenon

\* Where a byte of the first page of a segment is, and one of the second page
\* if the segment starts with a page.
LEMMA FirstAddr ==
    ASSUME NEW s \in ProgramHeader, NEW b \in Nat, Start(s) + b < PAGE_SIZE
    PROVE  /\ (s.vaddr + b) \div PAGE_SIZE = FirstPage(s)
           /\ (s.vaddr + b) % PAGE_SIZE = Start(s) + b
<1> DEFINE q == FirstPage(s)
           r == Start(s) + b
<1>1. PAGE_SIZE \in Nat \ {0} /\ q \in Nat /\ r \in 0 .. PAGE_SIZE - 1
  BY LoaderAssumption, SegmentFact
<1>2. s.vaddr + b = q * PAGE_SIZE + r
  BY LoaderAssumption, SegmentFact
<1> HIDE DEF q, r
<1>3. (q * PAGE_SIZE + r) \div PAGE_SIZE = q /\ (q * PAGE_SIZE + r) % PAGE_SIZE = r
  BY <1>1
<1> QED BY <1>2, <1>3, Zenon DEF q, r

LEMMA SecondAddr ==
    ASSUME NEW s \in ProgramHeader, NEW b \in Nat, Start(s) = 0,
           PAGE_SIZE <= b, b < 2 * PAGE_SIZE
    PROVE  /\ (s.vaddr + b) \div PAGE_SIZE = FirstPage(s) + 1
           /\ (s.vaddr + b) % PAGE_SIZE = b - PAGE_SIZE
<1> DEFINE q == FirstPage(s) + 1
           r == b - PAGE_SIZE
<1>1. PAGE_SIZE \in Nat \ {0} /\ q \in Nat /\ r \in 0 .. PAGE_SIZE - 1
  BY LoaderAssumption, SegmentFact
<1>2. s.vaddr + b = q * PAGE_SIZE + r
  BY LoaderAssumption, SegmentFact
<1> HIDE DEF q, r
<1>3. (q * PAGE_SIZE + r) \div PAGE_SIZE = q /\ (q * PAGE_SIZE + r) % PAGE_SIZE = r
  BY <1>1
<1> QED BY <1>2, <1>3, Zenon DEF q, r

LEMMA PagesOfFact ==
    ASSUME NEW s \in ProgramHeader, Size(s) > 0
    PROVE  /\ FirstPage(s) \in PagesOf(s)
           /\ Start(s) = 0 /\ Size(s) > PAGE_SIZE => FirstPage(s) + 1 \in PagesOf(s)
<1> DEFINE last == (s.vaddr + Size(s) - 1) \div PAGE_SIZE
<1>1. PAGE_SIZE \in Nat \ {0} /\ s.vaddr \in Nat /\ Size(s) \in Nat /\ FirstPage(s) \in Nat
  BY LoaderAssumption, SegmentFact, Zenon
<1>2. s.vaddr + Size(s) - 1 \in Nat
  BY <1>1
<1>3. last \in Nat /\ s.vaddr + Size(s) - 1 < (last + 1) * PAGE_SIZE
  BY <1>1, <1>2
<1> HIDE DEF last
<1>4. \A x, y \in Nat : x * PAGE_SIZE < y * PAGE_SIZE => x < y
  BY <1>1
<1>5. FirstPage(s) * PAGE_SIZE < (last + 1) * PAGE_SIZE
  BY <1>1, <1>3, SegmentFact
<1>6. Start(s) = 0 /\ Size(s) > PAGE_SIZE => (FirstPage(s) + 1) * PAGE_SIZE < (last + 1) * PAGE_SIZE
  BY <1>1, <1>3, SegmentFact
<1>7. FirstPage(s) <= last
  BY <1>1, <1>3, <1>4, <1>5
<1>8. Start(s) = 0 /\ Size(s) > PAGE_SIZE => FirstPage(s) + 1 <= last
  BY <1>1, <1>3, <1>4, <1>6
<1>9. PagesOf(s) = FirstPage(s) .. last
  BY <1>1 DEF PagesOf, last, FirstPage
<1> QED BY <1>1, <1>3, <1>7, <1>8, <1>9

\* The segment that is being loaded, its page i and how many pages it has.
LEMMA SegmentPages ==
    ASSUME IInv, InSegment
    PROVE  /\ n \in DOMAIN program /\ hdr \in ProgramHeader
           /\ page = FirstPage(hdr) + i
           /\ virtual_addr = page * PAGE_SIZE + Start(hdr)
           /\ page \in Nat
           /\ page_count \in Nat
           /\ i < page_count <=> i * PAGE_SIZE < Size(hdr)
<1>1. n \in DOMAIN program /\ hdr \in ProgramHeader
  BY DEF IInv, TypeOK, InSegment, hdr
<1>2. PAGE_SIZE \in Nat \ {0} /\ i \in Nat
  BY LoaderAssumption, Zenon DEF IInv, TypeOK
<1> DEFINE q == FirstPage(hdr) + i
           r == Start(hdr)
<1>3. q \in Nat /\ r \in 0 .. PAGE_SIZE - 1
  BY <1>1, <1>2, SegmentFact
<1>4. virtual_addr = q * PAGE_SIZE + r
  BY <1>1, <1>2, SegmentFact DEF virtual_addr
<1>5. page = q
  <2> HIDE DEF q, r
  <2> QED BY <1>2, <1>3, <1>4 DEF page
<1>6. page_count \in Nat /\ (i < page_count <=> i * PAGE_SIZE < Size(hdr))
  <2> DEFINE up == Size(hdr) + PAGE_SIZE - 1
             c == up \div PAGE_SIZE
  <2>1. Size(hdr) \in Nat /\ up \in Nat /\ i * PAGE_SIZE \in Nat
    BY <1>1, <1>2, SegmentFact
  <2>2. page_count = c
    BY Zenon DEF page_count, paging_page_count
  <2>3. up = Size(hdr) + PAGE_SIZE - 1
    BY Zenon
  <2>4. c \in Nat /\ c * PAGE_SIZE <= up /\ up < c * PAGE_SIZE + PAGE_SIZE
    <3> HIDE DEF up
    <3> QED BY <1>2, <2>1
  <2> HIDE DEF up, c
  <2>5. i < c => i * PAGE_SIZE + PAGE_SIZE <= c * PAGE_SIZE
    <3>1. \A x, y \in Nat : x < y => x * PAGE_SIZE + PAGE_SIZE <= y * PAGE_SIZE
      BY <1>2
    <3> QED BY <1>2, <2>4, <3>1, Zenon
  <2>6. ~ (i < c) => c * PAGE_SIZE <= i * PAGE_SIZE
    <3>1. \A x, y \in Nat : x <= y => x * PAGE_SIZE <= y * PAGE_SIZE
      BY <1>2
    <3> QED BY <1>2, <2>4, <3>1
  <2>7. c * PAGE_SIZE \in Nat
    BY <1>2, <2>4
  <2> QED BY <1>2, <2>1, <2>2, <2>3, <2>4, <2>5, <2>6, <2>7
<1> QED BY <1>1, <1>3, <1>4, <1>5, <1>6, Zenon

\* Bytes stay where they are as long as their pages and frames do.
LEMMA KeepBytes ==
    ASSUME NEW u, NEW m, NEW v, NEW w,
           \A p \in DOMAIN u : p \in DOMAIN v /\ v[p] = u[p] /\ w[u[p].frame] = m[u[p].frame]
    PROVE  \A s, count : BytesIn(u, m, s, count) => BytesIn(v, w, s, count)
BY DEF BytesIn, ByteIn

LEMMA InMemoryFact == \A s : SegmentInMemory(s) <=> BytesIn(user, memory, s, Size(s))
BY Zenon DEF SegmentInMemory, BytesIn, ByteIn, UserByte, Data

\* The segments passed so far, and the one that is being loaded, are in front
\* of the first NULL entry.
LEMMA Passed ==
    ASSUME IInv, Earlier, step = "header" \/ InSegment
    PROVE  /\ 1 .. n - 1 \subseteq BeforeNull
           /\ InSegment => n \in BeforeNull
           /\ Type \in {"END", "NULL"} => BeforeNull \subseteq 1 .. n - 1
<1>1. /\ n \in Nat \ {0} /\ n - 1 <= Len(program) /\ program \in Seq(ProgramHeader)
      /\ \A k \in 1 .. n - 1 : program[k].type = "LOAD"
      /\ InSegment => program[n].type = "LOAD" /\ n <= Len(program)
  BY Zenon DEF IInv, TypeOK, Earlier, hdr, InSegment
<1>2. 1 .. n - 1 \subseteq BeforeNull
  BY <1>1 DEF BeforeNull, Loads, Reached
<1>3. InSegment => n \in BeforeNull
  BY <1>1 DEF BeforeNull, Loads, Reached
<1>4. ASSUME Type \in {"END", "NULL"}, NEW k \in BeforeNull
      PROVE  k \in 1 .. n - 1
  <2>1. k \in 1 .. Len(program) /\ \A j \in 1 .. k : program[j].type # "NULL"
    BY <1>1 DEF BeforeNull, Loads, Reached
  <2>2. n <= Len(program) => program[n].type = "NULL"
    <3>1. n <= Len(program) => program[n] \in ProgramHeader
      BY <1>1
    <3> QED BY <1>4, <3>1, Zenon DEF Type, ProgramHeader
  <2> QED BY <1>1, <2>1, <2>2
<1> QED BY <1>2, <1>3, <1>4, Zenon

\* A step that panics for a reason.
LEMMA PanicStep ==
    ASSUME LInv, IInv', step' = "panic", UNCHANGED <<header, program>>, PanicExplained'
    PROVE  LInv'
BY Zenon DEF LInv, Earlier, Progress, PagesOwned, InSegment, Mapped

LEMMA InitLInv == Init => LInv
<1> SUFFICES ASSUME Init PROVE LInv
  BY Zenon
<1>1. DOMAIN user = {}
  BY DEF Init
<1> QED BY <1>1, InitIInv, LoaderAssumption, Zenon
        DEF Init, LInv, Earlier, Progress, PagesOwned, PanicExplained, InSegment, Mapped

\* elf_parse_header finds nothing wrong with exactly the expected headers.
LEMMA ParseFact ==
    ASSUME NEW h \in Header
    PROVE  elf_parse_header(h) = 0 <=> h = Expected
<1> DEFINE I == {k \in 1 .. Len(Checks) : h[Checks[k]] # Expected[Checks[k]]}
           first == CHOOSE k \in I : \A j \in I : k <= j
<1>1. Len(Checks) = 6
  BY Zenon DEF Checks
<1>2. elf_parse_header(h) = IF I = {} THEN 0 ELSE first
  BY Zenon DEF elf_parse_header
<1>3. I # {} => first # 0
  <2> SUFFICES ASSUME I # {} PROVE first # 0
    BY Zenon
  <2>1. I \subseteq 1 .. 6
    BY <1>1, Zenon
  <2> HIDE DEF I
  <2>2. \E x \in I : \A y \in I : x <= y
    <3>1. \A k \in 1 .. 6 : k \in I /\ (\A j \in I : j >= k) => \E x \in I : \A y \in I : x <= y
      BY <2>1, Zenon
    <3>2. PICK k \in I : k \in 1 .. 6
      BY <2>1, Zenon
    <3>3. k = 1 \/ k = 2 \/ k = 3 \/ k = 4 \/ k = 5 \/ k = 6
      BY <3>2
    <3>4. \/ 1 \in I
          \/ 1 \notin I /\ 2 \in I
          \/ 1 \notin I /\ 2 \notin I /\ 3 \in I
          \/ 1 \notin I /\ 2 \notin I /\ 3 \notin I /\ 4 \in I
          \/ 1 \notin I /\ 2 \notin I /\ 3 \notin I /\ 4 \notin I /\ 5 \in I
          \/ 1 \notin I /\ 2 \notin I /\ 3 \notin I /\ 4 \notin I /\ 5 \notin I /\ 6 \in I
      BY <3>3, Zenon
    <3> QED BY <2>1, <3>1, <3>4
  <2>3. first \in I
    BY <2>2, Zenon
  <2> HIDE DEF first
  <2> QED BY <2>1, <2>3
<1>4. I = {} <=> \A k \in 1 .. 6 : h[Checks[k]] = Expected[Checks[k]]
  BY <1>1, Zenon
<1>5. (\A k \in 1 .. 6 : h[Checks[k]] = Expected[Checks[k]]) =>
         /\ h.magic = Expected.magic /\ h.class = Expected.class /\ h.data = Expected.data
         /\ h.osabi = Expected.osabi /\ h.type = Expected.type /\ h.machine = Expected.machine
  BY DEF Checks
<1>6. /\ h.magic = Expected.magic /\ h.class = Expected.class /\ h.data = Expected.data
      /\ h.osabi = Expected.osabi /\ h.type = Expected.type /\ h.machine = Expected.machine
      => h = Expected
  BY Zenon DEF Header, Expected
<1> QED BY <1>2, <1>3, <1>4, <1>5, <1>6, Zenon

LEMMA ParseLInv == LInv /\ IInv' /\ parse => LInv'
<1> SUFFICES ASSUME LInv, IInv', parse PROVE LInv'
  BY Zenon
<1>1. /\ step = "parse" /\ header \in Header /\ n = 1 /\ DOMAIN user = {}
      /\ UNCHANGED <<header, program, n, user>>
  BY Zenon DEF LInv, Earlier, parse, segment
<1>2. CASE step' = "panic"
  <2>1. header # Expected
    BY <1>1, <1>2, ParseFact, Zenon DEF parse
  <2> QED BY <1>1, <1>2, <2>1, PanicStep, Zenon DEF PanicExplained
<1>3. CASE step' = "header"
  <2>1. header = Expected
    BY <1>1, <1>3, ParseFact, Zenon DEF parse
  <2>2. DOMAIN Done' = {}
    BY <1>1, <1>3, Zenon DEF Done
  <2>3. Earlier'
    BY <1>1, <1>3, <2>1 DEF Earlier, InSegment, Mapped, IInv, TypeOK
  <2> QED BY <1>3, <2>2, <2>3, Zenon DEF LInv, Progress, PagesOwned, PanicExplained, InSegment, Mapped
<1> QED BY <1>2, <1>3, Zenon DEF parse

LEMMA ElfLoadLInv == LInv /\ IInv' /\ elf_load => LInv'
<1> SUFFICES ASSUME LInv, IInv', elf_load PROVE LInv'
  BY Zenon
<1>1. /\ step = "header" /\ IInv /\ Earlier /\ PagesOwned
      /\ UNCHANGED <<header, program, n, kern, user, memory>>
      /\ n \in Nat \ {0} /\ program \in Seq(ProgramHeader)
  BY Zenon DEF LInv, elf_load, segment, IInv, TypeOK
<1>2. /\ header \in Header /\ header = Expected /\ n - 1 <= Len(program)
      /\ \A k \in 1 .. n - 1 :
            program[k].type = "LOAD" /\ BytesIn(user, memory, program[k], Size(program[k]))
      /\ \A p \in DOMAIN user : \E k \in 1 .. n - 1 : p \in PagesOf(program[k])
  BY <1>1, Zenon DEF Earlier, PagesOwned, Done, InSegment, Mapped
<1>3. CASE Type \in {"END", "NULL"} /\ step' = "stack"
  <2>1. BeforeNull \subseteq 1 .. n - 1 /\ 1 .. n - 1 \subseteq BeforeNull
    BY <1>1, <1>3, Passed, Zenon
  <2>2. BeforeNull' = BeforeNull
    BY <1>1, Zenon DEF BeforeNull, Loads, Reached
  <2>3. Earlier'
    BY <1>1, <1>2, <1>3, <2>1, <2>2, Zenon DEF Earlier, InSegment, Mapped
  <2>4. PagesOwned'
    BY <1>1, <1>2, <1>3, <2>1, <2>2, Zenon DEF PagesOwned, InSegment, Mapped
  <2> QED BY <1>3, <2>3, <2>4, Zenon DEF LInv, Progress, PanicExplained, Mapped
<1>4. CASE Type = "LOAD" /\ i' = 0 /\ file_size' = program[n].filesz /\ step' = "page"
  <2>1. hdr'.type = "LOAD" /\ file_size' = hdr'.filesz
    BY <1>1, <1>4, Zenon DEF Type, hdr
  <2>2. Earlier'
    BY <1>1, <1>2, <1>4, <2>1, Zenon DEF Earlier, InSegment, Mapped, Done
  <2>3. PagesOwned'
    BY <1>1, <1>2, <1>4, Zenon DEF PagesOwned, InSegment, Mapped, Done
  <2> QED BY <1>4, <2>1, <2>2, <2>3, Zenon DEF LInv, Progress, PanicExplained, Mapped
<1>5. CASE Type \notin {"END", "NULL", "LOAD"} /\ step' = "panic"
  <2>1. n \in DOMAIN program /\ program[n].type \notin {"NULL", "LOAD"}
    BY <1>1, <1>5 DEF Type
  <2>2. \A j \in 1 .. n : j \in 1 .. n - 1 \/ j = n
    BY <1>1
  <2>3. "LOAD" # "NULL"
    OBVIOUS
  <2>4. n \in Reached
    BY <1>2, <2>1, <2>2, <2>3, Zenon DEF Reached
  <2>5. Reached' = Reached
    BY <1>1, Zenon DEF Reached
  <2> QED BY <1>1, <1>5, <2>1, <2>4, <2>5, PanicStep, Zenon DEF PanicExplained
<1> QED BY <1>3, <1>4, <1>5, Zenon DEF elf_load

\* The segment that is being loaded while i and n stay the same.
LEMMA SameSegment ==
    ASSUME UNCHANGED <<program, n, i>>
    PROVE  hdr' = hdr /\ page' = page /\ virtual_addr' = virtual_addr /\ BeforeNull' = BeforeNull
BY Zenon DEF hdr, page, virtual_addr, BeforeNull, Loads, Reached

LEMMA NextSegmentLInv == LInv /\ IInv' /\ next_segment => LInv'
<1> SUFFICES ASSUME LInv, IInv', next_segment PROVE LInv'
  BY Zenon
<1>1. /\ step = "page" /\ step' = "header" /\ n' = n + 1 /\ i >= page_count
      /\ IInv /\ Earlier /\ Progress /\ PagesOwned /\ InSegment
      /\ UNCHANGED <<header, program, i, user, memory>>
      /\ n \in Nat \ {0} /\ i \in Nat
  BY Zenon DEF LInv, next_segment, IInv, TypeOK, InSegment
<1>2. n \in DOMAIN program /\ hdr \in ProgramHeader /\ Size(hdr) <= i * PAGE_SIZE
  BY <1>1, SegmentPages, SegmentFact, LoaderAssumption
<1>3. BytesIn(user, memory, hdr, Size(hdr))
  <2>1. PAGE_SIZE \in Nat \ {0} /\ Size(hdr) \in Nat
    BY <1>2, SegmentFact, LoaderAssumption, Zenon
  <2>2. CASE i = 0
    <3>1. Size(hdr) = 0
      BY <1>2, <2>1, <2>2
    <3> QED BY <3>1 DEF BytesIn
  <2>3. CASE i = 1 /\ AfterFirst
    <3>1. hdr.filesz = PAGE_SIZE => Size(hdr) = PAGE_SIZE
      BY <1>2, <2>1, <2>3, SegmentFact
    <3> QED BY <2>3, <3>1, Zenon DEF AfterFirst
  <2>4. CASE i = 2 /\ AfterSecond
    <3>1. Size(hdr) = hdr.memsz
      BY <1>2, <2>1, <2>4, SegmentFact DEF AfterSecond
    <3> QED BY <2>4, <3>1, Zenon DEF AfterSecond
  <2> QED BY <1>1, <2>2, <2>3, <2>4, Zenon DEF Progress
<1>4. /\ header \in Header /\ header = Expected /\ hdr.type = "LOAD"
      /\ \A k \in 1 .. n - 1 :
            program[k].type = "LOAD" /\ BytesIn(user, memory, program[k], Size(program[k]))
      /\ \A p \in DOMAIN user :
            (\E k \in 1 .. n - 1 : p \in PagesOf(program[k])) \/ p \in PagesOf(hdr)
  BY <1>1, Zenon DEF Earlier, PagesOwned, Done, InSegment, Mapped
<1>5. \A k \in 1 .. n' - 1 : k \in 1 .. n - 1 \/ k = n
  BY <1>1
<1>6. Earlier'
  <2>1. \A k \in 1 .. n' - 1 :
            program[k].type = "LOAD" /\ BytesIn(user, memory, program[k], Size(program[k]))
    BY <1>3, <1>4, <1>5, Zenon DEF hdr
  <2>2. n' - 1 <= Len(program)
    BY <1>1, <1>2 DEF IInv, TypeOK
  <2> QED BY <1>1, <1>4, <2>1, <2>2, Zenon DEF Earlier, InSegment, Mapped, Done
<1>7. PagesOwned'
  <2>1. n \in 1 .. n' - 1 /\ 1 .. n - 1 \subseteq 1 .. n' - 1
    BY <1>1
  <2> QED BY <1>1, <1>4, <2>1, Zenon DEF PagesOwned, InSegment, Mapped, Done, hdr
<1> QED BY <1>1, <1>6, <1>7, Zenon DEF LInv, Progress, PanicExplained, Mapped

LEMMA MapKernelLInv == LInv /\ IInv' /\ map_kernel => LInv'
<1> SUFFICES ASSUME LInv, IInv', map_kernel PROVE LInv'
  BY Zenon
<1>1. /\ step = "page" /\ i < page_count
      /\ IInv /\ Earlier /\ Progress /\ PagesOwned /\ InSegment
      /\ UNCHANGED <<header, program, n, i, file_size, user>>
      /\ n \in Nat \ {0} /\ i \in Nat /\ memory \in Seq(Frame)
  BY Zenon DEF LInv, map_kernel, IInv, TypeOK, InSegment, segment
<1>2. step' = "copy" /\ memory' = Append(memory, [b \in 0 .. PAGE_SIZE - 1 |-> Other])
  <2>1. DOMAIN kern = {}
    BY <1>1, Zenon DEF IInv, KernelHasPage, Mapped
  <2> QED BY <2>1, Zenon DEF map_kernel
<1>3. n \in DOMAIN program /\ hdr \in ProgramHeader /\ i * PAGE_SIZE < Size(hdr)
  BY <1>1, SegmentPages, Zenon
<1>4. \A s, count : BytesIn(user, memory, s, count) => BytesIn(user', memory', s, count)
  <2>1. \A p \in DOMAIN user : user[p].frame \in 1 .. Len(memory)
    BY <1>1, Zenon DEF IInv, FramesInOrder
  <2>2. \A f \in 1 .. Len(memory) : memory'[f] = memory[f]
    BY <1>1, <1>2
  <2> QED BY <1>1, <2>1, <2>2, KeepBytes, Zenon
<1>5. Done = user /\ Done' = user'
  BY <1>1, <1>2, Zenon DEF Done
<1>6. Earlier'
  BY <1>1, <1>2, <1>4, <1>5, SameSegment, Zenon DEF Earlier, InSegment, Mapped
<1>7. InFirst' \/ InSecond'
  <2>1. PAGE_SIZE \in Nat \ {0} /\ Size(hdr) \in Nat
    BY <1>3, SegmentFact, LoaderAssumption, Zenon
  <2>2. CASE i = 0 /\ file_size = hdr.filesz
    BY <1>1, <1>3, <2>1, <2>2, SameSegment DEF InFirst
  <2>3. CASE i = 1 /\ AfterFirst
    <3>1. Size(hdr) > PAGE_SIZE
      BY <1>3, <2>1, <2>3
    <3>2. ~ (Start(hdr) + Size(hdr) <= PAGE_SIZE)
      BY <1>3, <2>1, <3>1, SegmentFact
    <3>3. /\ Start(hdr) = 0 /\ hdr.filesz = PAGE_SIZE /\ file_size = 0
          /\ BytesIn(user, memory, hdr, PAGE_SIZE)
      BY <2>3, <3>2, Zenon DEF AfterFirst
    <3>4. PAGE_SIZE < hdr.memsz
      BY <1>3, <2>1, <3>1, <3>3, SegmentFact
    <3> QED BY <1>1, <1>4, <1>5, <2>3, <3>3, <3>4, SameSegment, Zenon DEF InSecond
  <2>4. CASE i = 2 /\ AfterSecond
    BY <1>3, <2>1, <2>4, SegmentFact DEF AfterSecond
  <2> QED BY <1>1, <2>2, <2>3, <2>4, Zenon DEF Progress
<1>8. PagesOwned'
  BY <1>1, <1>2, <1>5, SameSegment, Zenon DEF PagesOwned, InSegment, Mapped
<1> QED BY <1>2, <1>6, <1>7, <1>8, Zenon DEF LInv, Progress, PanicExplained

\* A store is to the frame handed out last; the pages loaded before have others.
LEMMA StoreKeeps ==
    ASSUME IInv, step \in {"copy", "zero"}, NEW addr, NEW val,
           \A p \in DOMAIN Done : Done[p].frame < Len(memory)
    PROVE  \A s, count : BytesIn(Done, memory, s, count) => BytesIn(user, Stored(addr, val), s, count)
<1>1. memory \in Seq(Frame)
  BY Zenon DEF IInv, TypeOK
<1>2. \A p \in DOMAIN Done : p \in DOMAIN user /\ user[p] = Done[p]
  BY Zenon DEF Done
<1>3. \A p \in DOMAIN Done : Done[p].frame \in 1 .. Len(memory) /\ Done[p].frame # Len(memory)
  BY <1>1, <1>2 DEF IInv, FramesInOrder
<1>4. \A f \in 1 .. Len(memory) : f # Len(memory) => Stored(addr, val)[f] = memory[f]
  BY <1>1 DEF Stored, frame
<1> QED BY <1>2, <1>3, <1>4, KeepBytes, Zenon

\* What a store leaves in that frame.
LEMMA StoredBytes ==
    ASSUME IInv, step \in Mapped, NEW addr, NEW val, NEW b \in 0 .. PAGE_SIZE - 1
    PROVE  Stored(addr, val)[frame][b] =
                IF b - Offset(addr) \in DOMAIN val THEN val[b - Offset(addr)] ELSE memory[frame][b]
<1>1. memory \in Seq(Frame) /\ frame \in DOMAIN memory
  BY DEF IInv, TypeOK, FramesInOrder, frame
<1> QED BY <1>1, Zenon DEF Stored

LEMMA CopyLInv == LInv /\ IInv' /\ copy => LInv'
<1> SUFFICES ASSUME LInv, IInv', copy PROVE LInv'
  BY Zenon
<1> DEFINE val == [b \in 0 .. file_size - 1 |-> FileByte(hdr.offset + i * PAGE_SIZE + b)]
<1>1. /\ step = "copy" /\ step \in Mapped
      /\ IInv /\ Earlier /\ Progress /\ PagesOwned /\ InSegment
      /\ UNCHANGED <<header, program, n, i, file_size, user>>
      /\ n \in Nat \ {0} /\ i \in Nat /\ memory \in Seq(Frame)
  BY Zenon DEF LInv, copy, IInv, TypeOK, InSegment, segment, Mapped
<1>2. /\ n \in DOMAIN program /\ hdr \in ProgramHeader /\ page = FirstPage(hdr) + i
      /\ virtual_addr = page * PAGE_SIZE + Start(hdr) /\ page \in Nat
      /\ n \in BeforeNull
  BY <1>1, SegmentPages, Passed, Zenon
<1>3. /\ PAGE_SIZE \in Nat \ {0} /\ Start(hdr) \in 0 .. PAGE_SIZE - 1
      /\ hdr.filesz \in Nat /\ hdr.offset \in Nat /\ Size(hdr) \in Nat /\ Size(hdr) >= hdr.filesz
      /\ page * PAGE_SIZE \in Nat /\ (page + 1) * PAGE_SIZE = page * PAGE_SIZE + PAGE_SIZE
      /\ Offset(virtual_addr) = Start(hdr)
  <2>1. /\ PAGE_SIZE \in Nat \ {0} /\ Start(hdr) \in 0 .. PAGE_SIZE - 1
        /\ hdr.filesz \in Nat /\ hdr.offset \in Nat /\ Size(hdr) \in Nat /\ Size(hdr) >= hdr.filesz
    BY <1>2, SegmentFact, LoaderAssumption, Zenon
  <2>2. \A x \in Nat : x * PAGE_SIZE \in Nat /\ (x + 1) * PAGE_SIZE = x * PAGE_SIZE + PAGE_SIZE
    BY <2>1
  <2> QED BY <1>2, <2>1, <2>2 DEF Offset
<1>4. InFirst \/ InSecond
  BY <1>1, Zenon DEF Progress
<1>5. CASE ~ InPage(virtual_addr, file_size) /\ step' = "panic"
  <2>1. CASE InFirst
    <3>1. Start(hdr) + hdr.filesz > PAGE_SIZE
      BY <1>2, <1>3, <1>5, <2>1 DEF InFirst, InPage
    <3>2. ~ Fits(hdr)
      BY <1>3, <3>1 DEF Fits, Start
    <3> QED BY <1>1, <1>2, <1>5, <3>2, PanicStep, SameSegment, Zenon DEF PanicExplained, hdr
  <2>2. CASE InSecond
    BY <1>5, <2>2 DEF InSecond, InPage
  <2> QED BY <1>4, <2>1, <2>2, Zenon
<1>6. CASE /\ InPage(virtual_addr, file_size) /\ step' = "map_user"
           /\ memory' = Stored(virtual_addr, val)
  <2>1. Done = user /\ Done' = user' /\ frame' = frame
    <3>1. Len(Stored(virtual_addr, val)) = Len(memory)
      BY <1>1 DEF Stored
    <3> QED BY <1>1, <1>6, <3>1, Zenon DEF Done, frame
  <2>2. \A p \in DOMAIN Done : Done[p].frame < Len(memory)
    BY <1>1, <2>1, Zenon DEF IInv, FramesInOrder
  <2>3. \A s, count : BytesIn(user, memory, s, count) => BytesIn(user', memory', s, count)
    <3> HIDE DEF val
    <3> QED BY <1>1, <1>6, <2>1, <2>2, StoreKeeps, Zenon
  <2>4. Earlier'
    BY <1>1, <1>6, <2>1, <2>3, SameSegment, Zenon DEF Earlier, InSegment, Mapped
  <2>5. PagesOwned'
    BY <1>1, <1>6, <2>1, SameSegment, Zenon DEF PagesOwned, InSegment, Mapped
  <2>6. (InFirst' \/ InSecond') /\ (i' = 0 => InFirst)
    BY <1>1, <1>4, <2>1, <2>3, SameSegment DEF InFirst, InSecond
  <2>7. ASSUME InFirst
        PROVE  /\ Start(hdr) + hdr.filesz <= PAGE_SIZE
               /\ \A b \in 0 .. hdr.filesz - 1 :
                    memory'[frame][Start(hdr) + b] = FileByte(hdr.offset + b)
    <3>1. Start(hdr) + hdr.filesz <= PAGE_SIZE
      <4>1. hdr.filesz > 0 => page * PAGE_SIZE + Start(hdr) + hdr.filesz <= (page + 1) * PAGE_SIZE
        BY <1>2, <1>6, <2>7, Zenon DEF InFirst, InPage
      <4> QED BY <1>3, <4>1
    <3>2. ASSUME NEW b \in 0 .. hdr.filesz - 1
          PROVE  memory'[frame][Start(hdr) + b] = FileByte(hdr.offset + b)
      <4>1. Start(hdr) + b \in 0 .. PAGE_SIZE - 1 /\ (Start(hdr) + b) - Start(hdr) = b
        BY <1>3, <3>1
      <4>2. DOMAIN val = 0 .. hdr.filesz - 1 /\ val[b] = FileByte(hdr.offset + b)
        BY <1>3, <2>7 DEF InFirst
      <4> HIDE DEF val
      <4>3. memory'[frame][Start(hdr) + b] = val[b]
        <5>1. Stored(virtual_addr, val)[frame][Start(hdr) + b] =
                IF (Start(hdr) + b) - Offset(virtual_addr) \in DOMAIN val
                THEN val[(Start(hdr) + b) - Offset(virtual_addr)]
                ELSE memory[frame][Start(hdr) + b]
          BY <1>1, <4>1, StoredBytes
        <5>2. (Start(hdr) + b) - Offset(virtual_addr) = b /\ b \in DOMAIN val
          BY <1>3, <4>1, <4>2, Zenon
        <5> QED BY <1>6, <5>1, <5>2, Zenon
      <4> QED BY <4>2, <4>3, Zenon
    <3> QED BY <3>1, <3>2, Zenon
  <2>8. Progress'
    BY <1>1, <1>6, <2>1, <2>6, <2>7, SameSegment, Zenon DEF Progress
  <2> QED BY <1>6, <2>4, <2>5, <2>8, Zenon DEF LInv, PanicExplained
<1> QED BY <1>5, <1>6, Zenon DEF copy

LEMMA MapUserLInv == LInv /\ IInv' /\ map_user => LInv'
<1> SUFFICES ASSUME LInv, IInv', map_user PROVE LInv'
  BY Zenon
<1>1. /\ step = "map_user"
      /\ IInv /\ Earlier /\ Progress /\ PagesOwned /\ InSegment
      /\ UNCHANGED <<header, program, n, i, file_size, memory>>
      /\ n \in Nat \ {0} /\ i \in Nat
  BY Zenon DEF LInv, map_user, IInv, TypeOK, InSegment, segment, Mapped
<1>2. /\ n \in DOMAIN program /\ hdr \in ProgramHeader /\ page = FirstPage(hdr) + i
      /\ page \in Nat /\ n \in BeforeNull /\ 1 .. n - 1 \subseteq BeforeNull
  BY <1>1, SegmentPages, Passed, Zenon
<1>3. Done = user /\ (InFirst \/ InSecond)
  BY <1>1, Zenon DEF Done, Progress
<1>4. page \in PagesOf(hdr)
  <2>1. /\ PAGE_SIZE \in Nat \ {0} /\ Size(hdr) \in Nat /\ Size(hdr) >= hdr.memsz
        /\ hdr.memsz \in Nat /\ FirstPage(hdr) \in Nat
    BY <1>2, SegmentFact, LoaderAssumption, Zenon
  <2>2. CASE InFirst
    BY <1>2, <2>1, <2>2, PagesOfFact DEF InFirst
  <2>3. CASE InSecond
    <3>1. Size(hdr) > PAGE_SIZE /\ Size(hdr) > 0 /\ Start(hdr) = 0 /\ i = 1
      BY <2>1, <2>3 DEF InSecond
    <3> QED BY <1>2, <3>1, PagesOfFact, Zenon
  <2> QED BY <1>3, <2>2, <2>3, Zenon
<1>5. CASE page \in DOMAIN user /\ step' = "panic"
  <2>1. PICK k \in 1 .. n - 1 : page \in PagesOf(program[k])
    <3>1. FirstPage(hdr) \in Nat
      BY <1>2, SegmentFact, Zenon
    <3> QED BY <1>1, <1>2, <1>3, <1>5, <3>1, Zenon DEF PagesOwned
  <2>2. k \in BeforeNull /\ k # n /\ PagesOf(program[k]) \cap PagesOf(program[n]) # {}
    BY <1>1, <1>2, <1>4, <2>1 DEF hdr
  <2>3. BeforeNull' = BeforeNull
    BY <1>1, SameSegment, Zenon
  <2> QED BY <1>1, <1>2, <1>5, <2>2, <2>3, PanicStep, Zenon DEF PanicExplained
<1>6. CASE /\ page \notin DOMAIN user /\ step' = "zero"
           /\ user' = WithPages(user, [p \in {page} |-> UserMapping])
  <2>1. /\ DOMAIN user' = {page} \cup DOMAIN user
        /\ user'[page] = UserMapping
        /\ \A p \in DOMAIN user : user'[p] = user[p]
    BY <1>6, Zenon DEF WithPages
  <2>2. DOMAIN Done' = DOMAIN user /\ \A p \in DOMAIN user : Done'[p] = user[p]
    BY <1>1, <1>6, <2>1, SameSegment, Zenon DEF Done
  <2>3. \A s, count : BytesIn(user, memory, s, count) => BytesIn(Done', memory', s, count)
    BY <1>1, <2>2, KeepBytes, Zenon
  <2>4. \A p \in DOMAIN Done' : Done'[p].frame < Len(memory')
    BY <1>1, <2>2, Zenon DEF IInv, FramesInOrder
  <2>5. Earlier'
    BY <1>1, <1>3, <1>6, <2>3, <2>4, SameSegment, Zenon DEF Earlier, InSegment, Mapped
  <2>6. PagesOwned'
    BY <1>1, <1>3, <1>4, <1>6, <2>2, SameSegment, Zenon DEF PagesOwned, InSegment, Mapped
  <2>7. (InFirst' \/ InSecond') /\ frame' = frame
    BY <1>1, <1>3, <2>3, SameSegment, Zenon DEF InFirst, InSecond, frame
  <2>8. page' \in DOMAIN user' /\ user'[page'] = Mapping(frame)'
    BY <1>1, <2>1, <2>7, SameSegment, Zenon DEF UserMapping, Mapping
  <2>9. Progress'
    BY <1>1, <1>6, <2>7, <2>8, SameSegment, Zenon DEF Progress
  <2> QED BY <1>6, <2>5, <2>6, <2>9, Zenon DEF LInv, PanicExplained
<1> QED BY <1>5, <1>6, Zenon DEF map_user

\* The bytes of a segment with a page loaded at a frame.
LEMMA FirstBytes ==
    ASSUME NEW u, NEW m, NEW s \in ProgramHeader, NEW count \in Nat,
           Start(s) + count <= PAGE_SIZE, FirstPage(s) \in DOMAIN u,
           u[FirstPage(s)].write = ("W" \in s.flags),
           \A b \in 0 .. count - 1 : m[u[FirstPage(s)].frame][Start(s) + b] = Data(s, b)
    PROVE  BytesIn(u, m, s, count)
<1> SUFFICES ASSUME NEW b \in 0 .. count - 1 PROVE ByteIn(u, m, s, b)
  BY Zenon DEF BytesIn
<1>1. b \in Nat /\ Start(s) + b < PAGE_SIZE
  BY SegmentFact, LoaderAssumption
<1>2. (s.vaddr + b) \div PAGE_SIZE = FirstPage(s) /\ (s.vaddr + b) % PAGE_SIZE = Start(s) + b
  BY <1>1, FirstAddr, Zenon
<1> QED BY <1>2, Zenon DEF ByteIn

LEMMA ZeroLInv == LInv /\ IInv' /\ zero => LInv'
<1> SUFFICES ASSUME LInv, IInv', zero PROVE LInv'
  BY Zenon
<1> DEFINE val == [b \in 0 .. ZeroCount - 1 |-> Zero]
           P == PAGE_SIZE
<1>1. /\ step = "zero" /\ step \in Mapped
      /\ IInv /\ Earlier /\ Progress /\ PagesOwned /\ InSegment
      /\ UNCHANGED <<header, program, n, i, user>>
      /\ n \in Nat \ {0} /\ i \in Nat /\ memory \in Seq(Frame)
  BY Zenon DEF LInv, zero, IInv, TypeOK, InSegment, Mapped
<1>2. /\ n \in DOMAIN program /\ hdr \in ProgramHeader /\ page = FirstPage(hdr) + i
      /\ virtual_addr = page * P + Start(hdr) /\ page \in Nat /\ n \in BeforeNull
  BY <1>1, SegmentPages, Passed, Zenon
<1>3. /\ P \in Nat \ {0} /\ Start(hdr) \in 0 .. P - 1
      /\ hdr.filesz \in Nat /\ hdr.memsz \in Nat /\ FirstPage(hdr) \in Nat
      /\ Size(hdr) \in Nat /\ Size(hdr) >= hdr.filesz /\ Size(hdr) >= hdr.memsz
      /\ (Size(hdr) = hdr.filesz \/ Size(hdr) = hdr.memsz)
  BY <1>2, SegmentFact, LoaderAssumption, Zenon
<1>4. page * P \in Nat /\ (page + 1) * P = page * P + P
  <2>1. \A x \in Nat : x * P \in Nat /\ (x + 1) * P = x * P + P
    BY <1>3
  <2> QED BY <1>2, <2>1, Zenon
<1>5. /\ InFirst \/ InSecond
      /\ page \in DOMAIN user /\ user[page].frame = frame
      /\ user[page].write = ("W" \in hdr.flags)
      /\ InFirst => /\ Start(hdr) + hdr.filesz <= P
                    /\ \A b \in 0 .. hdr.filesz - 1 :
                         memory[frame][Start(hdr) + b] = FileByte(hdr.offset + b)
  BY <1>1 DEF Progress, InFirst, Mapping, elf_flags_to_paging_flags
<1>6. \A p \in DOMAIN Done : Done[p].frame < Len(memory)
  BY <1>1, Zenon DEF Earlier
<1>7. ASSUME step' = "unmap", NEW addr, NEW v, memory' = memory \/ memory' = Stored(addr, v),
             (i = 0 /\ AfterFirst') \/ (i = 1 /\ AfterSecond')
      PROVE  LInv'
  <2>1. \A s, count : BytesIn(Done, memory, s, count) => BytesIn(user', memory', s, count)
    <3>1. CASE memory' = memory
      <4>1. \A p \in DOMAIN Done : p \in DOMAIN user /\ user[p] = Done[p]
        BY Zenon DEF Done
      <4> QED BY <1>1, <3>1, <4>1, KeepBytes, Zenon
    <3>2. CASE memory' = Stored(addr, v)
      BY <1>1, <1>6, <3>2, StoreKeeps, Zenon
    <3> QED BY <1>7, <3>1, <3>2, Zenon
  <2>2. Done' = user
    BY <1>1, <1>7, Zenon DEF Done
  <2>3. Earlier'
    BY <1>1, <1>7, <2>1, <2>2, SameSegment, Zenon DEF Earlier, InSegment, Mapped
  <2>4. PagesOwned'
    <3>1. page \in PagesOf(hdr) /\ page \in FirstPage(hdr) .. FirstPage(hdr) + i
      BY <1>1, <1>2, <1>3 DEF PagesOwned
    <3>2. \A p \in DOMAIN user : p = page \/ p \in DOMAIN Done
      BY Zenon DEF Done
    <3> QED BY <1>1, <1>7, <2>2, <3>1, <3>2, SameSegment, Zenon DEF PagesOwned, InSegment, Mapped
  <2>5. Progress'
    BY <1>1, <1>7, Zenon DEF Progress
  <2> QED BY <1>7, <2>3, <2>4, <2>5, Zenon DEF LInv, PanicExplained
<1>8. CASE /\ file_size >= P /\ file_size' = file_size - P
           /\ step' = "unmap" /\ UNCHANGED memory
  <2>1. InFirst /\ i = 0 /\ file_size = hdr.filesz
    BY <1>3, <1>5, <1>8 DEF InFirst, InSecond
  <2>2. Start(hdr) = 0 /\ hdr.filesz = P /\ file_size' = 0
    BY <1>3, <1>5, <1>8, <2>1
  <2>3. \A b \in 0 .. P - 1 : memory[user[page].frame][Start(hdr) + b] = Data(hdr, b)
    BY <1>3, <1>5, <2>1, <2>2 DEF Data
  <2>4. page = FirstPage(hdr) /\ P \in Nat /\ Start(hdr) + P <= P
    BY <1>2, <1>3, <2>1, <2>2
  <2>5. BytesIn(user, memory, hdr, P)
    BY <1>2, <1>5, <2>3, <2>4, FirstBytes, Zenon
  <2>6. AfterFirst'
    BY <1>1, <1>8, <2>2, <2>5, SameSegment, Zenon DEF AfterFirst
  <2> QED BY <1>7, <1>8, <2>1, <2>6, Zenon
<1>9. CASE /\ file_size < P /\ hdr.memsz <= hdr.filesz
           /\ step' = "unmap" /\ UNCHANGED <<file_size, memory>>
  <2>1. InFirst /\ i = 0 /\ file_size = hdr.filesz /\ Size(hdr) = hdr.filesz
    BY <1>3, <1>5, <1>9 DEF InFirst, InSecond
  <2>2. \A b \in 0 .. Size(hdr) - 1 : memory[user[page].frame][Start(hdr) + b] = Data(hdr, b)
    BY <1>3, <1>5, <2>1 DEF Data
  <2>3. page = FirstPage(hdr) /\ Start(hdr) + Size(hdr) <= P
    BY <1>2, <1>3, <1>5, <2>1
  <2>4. BytesIn(user, memory, hdr, Size(hdr))
    BY <1>2, <1>3, <1>5, <2>2, <2>3, FirstBytes, Zenon
  <2>5. AfterFirst'
    BY <1>1, <1>9, <2>1, <2>3, <2>4, SameSegment, Zenon DEF AfterFirst
  <2> QED BY <1>7, <1>9, <2>1, <2>5, Zenon
<1>10. CASE /\ file_size < P /\ hdr.memsz > hdr.filesz /\ ~ InPage(ZeroAddr, ZeroCount)
            /\ step' = "panic"
  <2>1. ~ Fits(hdr)
    <3>1. Size(hdr) = hdr.memsz
      BY <1>3, <1>10
    <3>2. CASE InFirst
      <4>1. Start(hdr) + hdr.memsz > P /\ hdr.filesz < P
        BY <1>2, <1>3, <1>4, <1>5, <1>10, <3>2 DEF InFirst, InPage, ZeroAddr, ZeroCount
      <4> QED BY <1>3, <3>1, <4>1 DEF Fits, Start
    <3>3. CASE InSecond
      <4>1. hdr.memsz > 2 * P
        BY <1>2, <1>3, <1>4, <1>10, <3>3 DEF InSecond, InPage, ZeroAddr, ZeroCount
      <4> QED BY <1>3, <3>1, <4>1 DEF Fits, Start
    <3> QED BY <1>5, <3>2, <3>3, Zenon
  <2> QED BY <1>1, <1>2, <1>10, <2>1, PanicStep, SameSegment, Zenon DEF PanicExplained, hdr
<1>11. CASE /\ file_size < P /\ hdr.memsz > hdr.filesz /\ InPage(ZeroAddr, ZeroCount)
            /\ memory' = Stored(ZeroAddr, val) /\ step' = "unmap" /\ UNCHANGED file_size
  <2>1. Size(hdr) = hdr.memsz /\ ZeroCount \in Nat \ {0} /\ ZeroCount = hdr.memsz - hdr.filesz
    BY <1>3, <1>11 DEF ZeroCount
  <2>2. DOMAIN val = 0 .. ZeroCount - 1 /\ \A b \in DOMAIN val : val[b] = Zero
    BY Zenon
  <2> HIDE DEF val
  <2>3. CASE InFirst
    <3>1. i = 0 /\ file_size = hdr.filesz /\ page = FirstPage(hdr)
      BY <1>2, <1>3, <2>3 DEF InFirst
    <3>2. Start(hdr) + hdr.memsz <= P /\ Offset(ZeroAddr) = Start(hdr) + hdr.filesz
      <4>1. ZeroAddr = page * P + Start(hdr) + hdr.filesz
        BY <1>2, <3>1, Zenon DEF ZeroAddr
      <4>2. ZeroAddr + ZeroCount <= (page + 1) * P
        BY <1>11, <2>1 DEF InPage
      <4> QED BY <1>3, <1>4, <2>1, <4>1, <4>2 DEF Offset
    <3>3. ASSUME NEW b \in 0 .. hdr.memsz - 1
          PROVE  memory'[user[page].frame][Start(hdr) + b] = Data(hdr, b)
      <4>1. Start(hdr) + b \in 0 .. P - 1
        BY <1>3, <3>2
      <4>2. memory'[frame][Start(hdr) + b] =
                IF (Start(hdr) + b) - Offset(ZeroAddr) \in DOMAIN val
                THEN val[(Start(hdr) + b) - Offset(ZeroAddr)]
                ELSE memory[frame][Start(hdr) + b]
        BY <1>1, <1>11, <4>1, StoredBytes, Zenon
      <4>3. (Start(hdr) + b) - Offset(ZeroAddr) = b - hdr.filesz
        BY <1>3, <3>2
      <4>4. CASE b < hdr.filesz
        <5>1. b - hdr.filesz \notin DOMAIN val /\ b \in 0 .. hdr.filesz - 1
          BY <1>3, <2>2, <4>4
        <5> QED BY <1>5, <2>3, <4>2, <4>3, <4>4, <5>1, Zenon DEF Data
      <4>5. CASE ~ (b < hdr.filesz)
        <5>1. b - hdr.filesz \in DOMAIN val
          BY <1>3, <2>1, <2>2, <4>5
        <5> QED BY <1>5, <2>2, <4>2, <4>3, <4>5, <5>1, Zenon DEF Data
      <4> QED BY <4>4, <4>5, Zenon
    <3>4. BytesIn(user, memory', hdr, hdr.memsz)
      <4>1. /\ FirstPage(hdr) \in DOMAIN user /\ user[FirstPage(hdr)].write = ("W" \in hdr.flags)
            /\ \A b \in 0 .. hdr.memsz - 1 :
                memory'[user[FirstPage(hdr)].frame][Start(hdr) + b] = Data(hdr, b)
        BY <1>5, <3>1, <3>3, Zenon
      <4> QED BY <1>2, <1>3, <3>2, <4>1, FirstBytes, Zenon
    <3>5. AfterFirst'
      BY <1>1, <1>11, <2>1, <3>1, <3>2, <3>4, SameSegment, Zenon DEF AfterFirst
    <3> QED BY <1>7, <1>11, <3>1, <3>5, Zenon
  <2>4. CASE InSecond
    <3>1. /\ i = 1 /\ file_size = 0 /\ page = FirstPage(hdr) + 1 /\ Start(hdr) = 0
          /\ hdr.filesz = P /\ P < hdr.memsz /\ BytesIn(Done, memory, hdr, P)
      BY <1>2, <2>4, Zenon DEF InSecond
    <3>2. hdr.memsz <= 2 * P /\ Offset(ZeroAddr) = 0
      <4>1. ZeroAddr = page * P
        BY <1>2, <1>4, <3>1 DEF ZeroAddr
      <4>2. ZeroAddr + ZeroCount <= (page + 1) * P
        BY <1>11, <2>1 DEF InPage
      <4> QED BY <1>3, <1>4, <2>1, <3>1, <4>1, <4>2 DEF Offset
    <3>3. BytesIn(user, memory', hdr, P)
      BY <1>1, <1>6, <1>11, <3>1, StoreKeeps, Zenon
    <3>4. ASSUME NEW b \in P .. hdr.memsz - 1
          PROVE  ByteIn(user, memory', hdr, b)
      <4>1. b \in Nat /\ P <= b /\ b < 2 * P /\ b - P \in 0 .. P - 1 /\ b - P \in 0 .. ZeroCount - 1
        BY <1>3, <2>1, <3>1, <3>2
      <4>2. /\ (hdr.vaddr + b) \div PAGE_SIZE = page
            /\ (hdr.vaddr + b) % PAGE_SIZE = b - P
        BY <1>2, <3>1, <4>1, SecondAddr, Zenon
      <4>3. memory'[frame][b - P] =
                IF (b - P) - Offset(ZeroAddr) \in DOMAIN val
                THEN val[(b - P) - Offset(ZeroAddr)] ELSE memory[frame][b - P]
        BY <1>1, <1>11, <4>1, StoredBytes, Zenon
      <4>4. (b - P) - Offset(ZeroAddr) = b - P
        BY <1>3, <3>2, <4>1
      <4>5. memory'[frame][b - P] = Zero
        BY <2>2, <4>1, <4>3, <4>4, Zenon
      <4>6. Data(hdr, b) = Zero
        BY <1>3, <3>1, <4>1 DEF Data
      <4> QED BY <1>5, <4>2, <4>5, <4>6, Zenon DEF ByteIn
    <3>5. BytesIn(user, memory', hdr, hdr.memsz)
      <4>1. \A b \in 0 .. hdr.memsz - 1 : b \in 0 .. P - 1 \/ b \in P .. hdr.memsz - 1
        BY <1>3
      <4> QED BY <3>3, <3>4, <4>1, Zenon DEF BytesIn
    <3>6. AfterSecond'
      BY <1>1, <1>11, <3>1, <3>2, <3>5, SameSegment, Zenon DEF AfterSecond
    <3> QED BY <1>7, <1>11, <3>1, <3>6, Zenon
  <2> QED BY <1>5, <2>3, <2>4, Zenon
<1> QED BY <1>8, <1>9, <1>10, <1>11, Zenon DEF zero

LEMMA UnmapKernelLInv == LInv /\ IInv' /\ unmap_kernel => LInv'
<1> SUFFICES ASSUME LInv, IInv', unmap_kernel PROVE LInv'
  BY Zenon
<1>1. /\ step = "unmap" /\ step' = "page" /\ i' = i + 1
      /\ IInv /\ Earlier /\ Progress /\ PagesOwned /\ InSegment
      /\ UNCHANGED <<header, program, n, file_size, user, memory>>
      /\ i \in Nat
  BY Zenon DEF LInv, unmap_kernel, IInv, TypeOK, InSegment, Mapped
<1>2. hdr' = hdr /\ Done' = user /\ Done = user /\ FirstPage(hdr) \in Nat
  BY <1>1, SegmentPages, SegmentFact, Zenon DEF hdr, Done
<1>3. Earlier'
  BY <1>1, <1>2, Zenon DEF Earlier, InSegment, Mapped
<1>4. PagesOwned'
  <2>1. FirstPage(hdr) .. FirstPage(hdr) + i \subseteq FirstPage(hdr) .. FirstPage(hdr) + i'
    BY <1>1, <1>2
  <2>2. FirstPage(hdr) + i' \notin FirstPage(hdr) .. FirstPage(hdr) + i
    BY <1>1, <1>2
  <2>3. \A p \in DOMAIN user :
            \/ \E k \in 1 .. n - 1 : p \in PagesOf(program[k])
            \/ p \in PagesOf(hdr) /\ p \in FirstPage(hdr) .. FirstPage(hdr) + i
    BY <1>1, <1>2, Zenon DEF PagesOwned
  <2>4. \A p \in DOMAIN Done' :
            \/ \E k \in 1 .. n' - 1 : p \in PagesOf(program'[k])
            \/ /\ p \in PagesOf(hdr') /\ p \in FirstPage(hdr') .. FirstPage(hdr') + i'
               /\ p # FirstPage(hdr') + i'
    <3> SUFFICES ASSUME NEW p \in DOMAIN user
                 PROVE  \/ \E k \in 1 .. n - 1 : p \in PagesOf(program[k])
                        \/ /\ p \in PagesOf(hdr) /\ p \in FirstPage(hdr) .. FirstPage(hdr) + i'
                           /\ p # FirstPage(hdr) + i'
      BY <1>1, <1>2, Zenon
    <3> QED BY <2>1, <2>2, <2>3, Zenon
  <2> QED BY <1>1, <2>4, Zenon DEF PagesOwned, InSegment
<1>5. (i' = 1 /\ AfterFirst') \/ (i' = 2 /\ AfterSecond')
  <2>1. (i = 0 /\ AfterFirst) \/ (i = 1 /\ AfterSecond)
    BY <1>1, Zenon DEF Progress
  <2>2. AfterFirst' = AfterFirst
    BY <1>1, <1>2, Zenon DEF AfterFirst
  <2>3. AfterSecond' = AfterSecond
    BY <1>1, <1>2, Zenon DEF AfterSecond
  <2> QED BY <1>1, <2>1, <2>2, <2>3
<1>6. Progress'
  BY <1>1, <1>5, Zenon DEF Progress
<1> QED BY <1>1, <1>3, <1>4, <1>6, Zenon DEF LInv, PanicExplained

LEMMA MapUserStackLInv == LInv /\ IInv' /\ map_user_stack => LInv'
<1> SUFFICES ASSUME LInv, IInv', map_user_stack PROVE LInv'
  BY Zenon
<1>1. /\ step = "stack" /\ IInv /\ Earlier /\ PagesOwned
      /\ UNCHANGED <<header, program, n, i>> /\ memory \in Seq(Frame)
  BY Zenon DEF LInv, map_user_stack, IInv, TypeOK, segment
<1>2. /\ header \in Header /\ header = Expected
      /\ \A k \in BeforeNull : BytesIn(user, memory, program[k], Size(program[k]))
      /\ \A p \in DOMAIN user : \E k \in BeforeNull : p \in PagesOf(program[k])
      /\ BeforeNull' = BeforeNull
  BY <1>1, SameSegment, Zenon DEF Earlier, PagesOwned
<1>3. CASE UserStack \cap DOMAIN user # {} /\ step' = "panic"
  <2>1. \E k \in BeforeNull : PagesOf(program[k]) \cap UserStack # {}
    BY <1>2, <1>3, Zenon
  <2> QED BY <1>1, <1>2, <1>3, <2>1, PanicStep, Zenon DEF PanicExplained
<1>4. CASE UserStack \cap DOMAIN user = {} /\ step' = "loaded"
  <2> DEFINE stack == [p \in UserStack |->
                        [frame |-> frame + 1 + p - UserStackPage, write |-> TRUE]]
             fresh == [k \in 1 .. USER_STACK_PAGE_COUNT |-> [b \in 0 .. PAGE_SIZE - 1 |-> Other]]
  <2>1. user' = WithPages(user, stack) /\ memory' = memory \o fresh
    BY <1>4, Zenon DEF map_user_stack
  <2>2. DOMAIN stack \cap DOMAIN user = {}
    BY <1>4, Zenon
  <2>3. USER_STACK_PAGE_COUNT \in Nat
    BY LoaderAssumption, Zenon
  <2>4. fresh \in Seq(Frame)
    <3>1. [b \in 0 .. PAGE_SIZE - 1 |-> Other] \in Frame
      BY DEF Frame, Other
    <3>2. fresh \in [1 .. USER_STACK_PAGE_COUNT -> Frame]
      BY <3>1, Zenon
    <3> HIDE DEF fresh
    <3> QED BY <2>3, <3>2
  <2> HIDE DEF stack, fresh
  <2>5. \A p \in DOMAIN user : p \in DOMAIN user' /\ user'[p] = user[p]
    <3>1. /\ DOMAIN WithPages(user, stack) = DOMAIN stack \cup DOMAIN user
          /\ \A p \in DOMAIN user : WithPages(user, stack)[p] = user[p]
      BY <2>2, WithPagesFact, Zenon
    <3> QED BY <2>1, <3>1, Zenon
  <2>6. \A p \in DOMAIN user : user[p].frame \in 1 .. Len(memory)
    BY <1>1, Zenon DEF IInv, FramesInOrder
  <2>7. \A f \in 1 .. Len(memory) : memory'[f] = memory[f]
    BY <1>1, <2>1, <2>4
  <2>8. \A s, count : BytesIn(user, memory, s, count) => BytesIn(user', memory', s, count)
    BY <2>5, <2>6, <2>7, KeepBytes, Zenon
  <2>9. Earlier'
    BY <1>1, <1>2, <1>4, <2>8, Zenon DEF Earlier, InSegment, Mapped
  <2>10. DOMAIN user' = UserStack \cup DOMAIN user
    BY <2>1, <2>2, WithPagesFact DEF stack
  <2>11. UserStack' = UserStack
    BY DEF UserStack
  <2>12. \A p \in DOMAIN user' \ UserStack' : \E k \in BeforeNull' : p \in PagesOf(program'[k])
    BY <1>1, <1>2, <2>10, <2>11, Zenon
  <2> QED BY <1>4, <2>9, <2>12, Zenon
          DEF LInv, Progress, PagesOwned, PanicExplained, InSegment, Mapped
<1> QED BY <1>3, <1>4, Zenon DEF map_user_stack

LEMMA NextLInv == LInv /\ [Next]_vars => LInv'
<1> SUFFICES ASSUME LInv, [Next]_vars PROVE LInv'
  BY Zenon
<1>1. IInv'
  BY NextIInv, Zenon DEF LInv
<1>2. CASE UNCHANGED vars
  <2>1. UNCHANGED <<header, program, step, n, i, file_size, user, memory>>
    BY <1>2, Zenon DEF vars, segment
  <2>2. UNCHANGED <<hdr, page, frame, BeforeNull>>
    BY <2>1, SameSegment, Zenon DEF frame
  <2>3. UNCHANGED Done
    BY <2>1, <2>2, Zenon DEF Done
  <2>4. Earlier'
    BY <2>1, <2>2, <2>3, Zenon DEF LInv, Earlier, InSegment
  <2>5. UNCHANGED <<AfterFirst, AfterSecond, InFirst, InSecond>>
    BY <2>1, <2>2, <2>3, Zenon DEF AfterFirst, AfterSecond, InFirst, InSecond
  <2>6. Progress'
    BY <2>1, <2>2, <2>5, Zenon DEF LInv, Progress, Mapping
  <2>7. PagesOwned' /\ PanicExplained'
    <3>1. UNCHANGED <<Reached, UserStack>>
      BY <2>1, Zenon DEF Reached, UserStack
    <3>2. PagesOwned'
      BY <2>1, <2>2, <2>3, <3>1, Zenon DEF LInv, PagesOwned, InSegment
    <3>3. PanicExplained'
      BY <2>1, <2>2, <3>1, Zenon DEF LInv, PanicExplained
    <3> QED BY <3>2, <3>3, Zenon
  <2> QED BY <1>1, <2>4, <2>6, <2>7, Zenon DEF LInv
<1> QED BY <1>1, <1>2, ParseLInv, ElfLoadLInv, NextSegmentLInv, MapKernelLInv, CopyLInv,
           MapUserLInv, ZeroLInv, UnmapKernelLInv, MapUserStackLInv, Zenon
        DEF Next, handle_loadable_segment, Ended

\* Whatever program headers a file has, elf_load and handle_loadable_segment
\* give no two pages of the task the same frame, the pages of the stack
\* included, and a finished load leaves no mapping in the kernel's context.
THEOREM LoadedFramesPrivate == Spec => []FramesPrivate
<1>1. Spec => []IInv
  BY InitIInv, NextIInv, PTL DEF Spec
<1>2. IInv => FramesPrivate
  BY Zenon DEF IInv, FramesDistinct, KernelHasPage, FramesPrivate, Mapped
<1> QED BY <1>1, <1>2, PTL

\* A load that comes to its end has every segment in front of the first NULL
\* entry in the memory of the task, byte for byte, with zeros behind its data
\* and the write permission of its header, whatever the order and the sizes of
\* the segments are; the task has no other pages but the stack's; and the load
\* started from a correct ELF header.
THEOREM LoadIsExact == Spec => []LoadedExactly
<1>1. Spec => []LInv
  BY InitLInv, NextLInv, PTL DEF Spec
<1>2. LInv => LoadedExactly
  BY InMemoryFact, Zenon DEF LInv, Earlier, PagesOwned, LoadedExactly
<1> QED BY <1>1, <1>2, PTL

\* elf_load and handle_loadable_segment panic for no other reason than a wrong
\* header, an unsupported entry, a segment that does not fit, or two mappings
\* of one page by the file: in particular never because of a mapping they left
\* in the kernel's context themselves.
THEOREM PanicHasReason == Spec => []PanicExplained
<1>1. Spec => []LInv
  BY InitLInv, NextLInv, PTL DEF Spec
<1>2. LInv => PanicExplained
  BY Zenon DEF LInv
<1> QED BY <1>1, <1>2, PTL
=============================================================================
