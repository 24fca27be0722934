---------------------------- MODULE PagingProofs ----------------------------
(***************************************************************************)
(* The invariant behind the theorems of PagingMain, for every layout of    *)
(* the kernel and of two programs, and that accesses, faults and switches  *)
(* keep it.                                                                *)
(*                                                                         *)
(* The invariant says whose the entries are: kernel pages get theirs once, *)
(* with a frame of their own; pages of programs are mapped for the kernel  *)
(* while they are loaded, and later for one of the tasks that have them.   *)
(* After a panic nothing moves, so that only the properties are claimed.   *)
(***************************************************************************)
EXTENDS Paging, TLAPS

Flags == {"P", "W", "U"}
Entries == [frame : Int, flags : SUBSET Flags]
Owners == {Main} \cup User
Regions == 0 .. Region(LastPage)
Faults == [page : Page \cup {None}, err_code : SUBSET {"P"}, entry : Entries,
           at : {"none", "entry", "dir", "table"}]

KernelArea == Image \cup LowStack \cup Upper
Stacks == LowStack \cup Upper
UserPages == Segments[1] \cup Segments[2] \cup UserStack

\* Where kernel_main creates a task, and where a user task.
Creating == {"init_paging", "stack", "push"}
Loading == {"elf", "parse", "directory", "copy_directory", "load", "copy", "unmap"}

TypeOK ==
    /\ dir \in [Owners -> [Regions -> SUBSET Flags]]
    /\ tables \in [Page -> Entries]
    /\ vmm \in [Owners -> [Page -> Entries]]
    /\ DOMAIN tlb \subseteq Page /\ \A p \in DOMAIN tlb : tlb[p] \in Entries
    /\ cr2 \in Page /\ current \in Task /\ fault \in [Task -> Faults]
    /\ pc \in Creating \cup Loading \cup {"run", "panic"}
    /\ new \in Nat /\ page \in Page /\ todo \subseteq Page
    /\ frames \in Nat /\ brk \in Nat /\ brk >= FirstPage
    /\ stack \in [Task -> Page \cup {None}] /\ dirpage \in [User -> Page \cup {None}]

\* Until the tasks run, only kernel_main does; after that, only user tasks fault.
Control ==
    /\ pc # "run" => current = Main /\ new \in Task /\ hit.task = Main
    /\ pc \in Loading => new \in User
    /\ pc \in {"load", "copy", "unmap"} => todo \subseteq Segments[new]
    /\ pc \in {"copy", "unmap"} => page \in todo
    /\ pc = "run" => new \notin Task
    /\ pc = "init_paging" => tlb = << >> /\ \A p \in Page : tables[p] = NoEntry
    /\ pc = "init_paging" => new = Main
    /\ pc \in {"parse", "copy_directory"} => page \in FirstPage .. brk - 1
    /\ pc = "push" => page \in Stacks
    /\ \A u \in User :
        dirpage[u] # None => new > u \/ (new = u /\ pc \in {"push", "load", "copy", "unmap"})

\* The image, the stacks and the page directories of the tasks are mapped: in
\* the first directory, and in the directories of the tasks that need them.
KernelMapped ==
    /\ pc # "init_paging" =>
        \A p \in Image : Present(Main, p) /\ tables[p].frame = FixedFrame(p)
    /\ \A t \in Task : stack[t] # None =>
        /\ StackMapped(stack[t]) \subseteq Stacks /\ stack[t] + StackPages - 1 \in Page
        /\ \A p \in StackMapped(stack[t]) : Present(Main, p) /\ tables[p].frame > 0
    /\ \A u \in User : dirpage[u] # None =>
        /\ dirpage[u] \in Stacks /\ Present(Main, dirpage[u]) /\ tables[dirpage[u]].frame > 0
        /\ IsCreated(u) => \A p \in KernelPages(u) : "P" \in dir[u][Region(p)]
    /\ pc \in {"directory", "copy_directory"} \/ (pc = "push" /\ new \in User) => stack[new] # None
    /\ pc = "push" /\ new \in User => dirpage[new] # None

\* Frames go to one page each.
KernelFrames ==
    /\ \A p \in Stacks : tables[p].frame > 0 => tables[p].frame < frames
    /\ \A p, q \in Stacks : p # q /\ tables[p].frame > 0 => tables[p].frame # tables[q].frame
    /\ pc \notin {"init_paging", "stack"} \/ new # Main => frames > 1
    /\ pc \in {"init_paging", "stack"} /\ new = Main => \A p \in LowStack : tables[p] = NoEntry
    /\ \A p \in Upper : p >= brk => tables[p] = NoEntry
    /\ pc \in {"parse", "copy_directory"} =>
        /\ tables[page] \in {NoEntry, vmm[Main][page]}
        /\ vmm[Main][page].flags = KernelFlags
    /\ pc = "parse" => vmm[Main][page].frame = FixedFrame(page)
    /\ pc = "copy_directory" =>
        /\ vmm[Main][page].frame = frames - 1 /\ frames - 1 > 0
        /\ \A p \in Stacks \ {page} : tables[p].frame < frames - 1

\* What is mapped at the pages of programs, and for whom it is allocated.
Allocated(o, u, p) ==
    /\ p \in Pages(u) /\ vmm[o][p].flags = UserFlags(u, p)
    /\ vmm[o][p].frame > 0 /\ vmm[o][p].frame < frames

Kept == pc \in {"copy", "unmap"}

UserMapped ==
    /\ \A p \in UserPages :
        vmm[Main][p] = NoAlloc \/ (Kept /\ p = page)
    /\ Kept => Allocated(Main, new, page)
    /\ \A u \in User : \A p \in UserPages : vmm[u][p] = NoAlloc \/ Allocated(u, u, p)
    /\ \A p \in UserPages :
        \/ tables[p] = NoEntry
        \/ Kept /\ p = page /\ tables[p] = vmm[Main][p]
        \/ pc = "run" /\ \E v \in User : tables[p] = vmm[v][p] /\ vmm[v][p] # NoAlloc
    /\ pc # "run" => \A p \in UserPages : dir[Main][Region(p)] = {} \/ (Kept /\ Region(p) = Region(page))
    /\ \A u \in User : \A p \in UserPages :
        \/ dir[u][Region(p)] = {}
        \/ pc = "run" /\ \E q \in Pages(u) : Region(q) = Region(p) /\ dir[u][Region(p)] = UserFlags(u, q)

\* The fault that is handled: the entry is the allocation of the page.
FaultsOK ==
    /\ \A t \in Task : fault[t] # NoFault =>
        /\ fault[t].at # "none"
        /\ IF pc = "run" THEN t \in User ELSE t = Main /\ pc \in {"parse", "copy_directory", "copy"}
        /\ fault[t].at = "entry" => IF pc = "run" THEN cr2 \in UserPages ELSE cr2 = page
        /\ fault[t].at \in {"dir", "table"} =>
            /\ IF pc = "run" THEN fault[t].page \in UserPages ELSE fault[t].page = page
            /\ fault[t].entry = vmm[Owner(t)][fault[t].page] /\ fault[t].entry # NoAlloc
            /\ fault[t].err_code = {}
    /\ fault[current].at = "entry" /\ fault[current].err_code = {} => cr2 \notin DOMAIN tlb
    /\ fault[current].at \in {"dir", "table"} => fault[current].page \notin DOMAIN tlb

\* Why a task may not be allowed to write to a page that it maps writable.
Explained(u, p) ==
    \/ \E q \in ReadOnly[u] : Region(q) = Region(p)
    \/ \E v \in User : p \in ReadOnly[v]

TlbOK ==
    /\ TlbCoherent
    /\ \A p \in DOMAIN tlb : "P" \in tlb[p].flags
    /\ pc # "run" => \A p \in DOMAIN tlb : p \in KernelArea \/ (pc = "unmap" /\ p = page)
    /\ current \in User => \A p \in DOMAIN tlb :
        /\ p \in Pages(current) /\ "U" \in tlb[p].flags
        /\ "W" \in tlb[p].flags \/ Explained(current, p)

Safe == SwitchIsSafe /\ TlbCoherent /\ PrivatePagesOwn /\ ProtectionFaultsExplained

IInv ==
    /\ TypeOK /\ Control /\ KernelMapped /\ KernelFrames /\ UserMapped /\ FaultsOK /\ TlbOK
    /\ PrivatePagesOwn /\ ProtectionFaultsExplained

Inv == IF pc = "panic" THEN Safe ELSE IInv
-----------------------------------------------------------------------------
(* The layout, entries and updates.                                        *)

LEMMA RegionFact == \A p \in Page : Region(p) \in Regions
<1> SUFFICES ASSUME NEW p \in Page PROVE Region(p) \in Regions
  BY Zenon
<1>1. RegionPages \in Nat \ {0} /\ LastPage \in Nat /\ p \in Nat /\ p <= LastPage
  BY PagingAssumption DEF Page
<1> DEFINE a == p \div RegionPages
           b == LastPage \div RegionPages
<1>2. /\ a \in Nat /\ b \in Nat /\ a * RegionPages <= p
      /\ LastPage < b * RegionPages + RegionPages
  BY <1>1
<1> HIDE DEF a, b
<1>3. b < a => b * RegionPages + RegionPages <= a * RegionPages
  <2>1. \A x, y \in Nat : x < y => x * RegionPages + RegionPages <= y * RegionPages
    BY <1>1
  <2> QED BY <1>2, <2>1, Zenon
<1>4. a * RegionPages \in Nat /\ b * RegionPages \in Nat
  BY <1>1, <1>2
<1>5. a <= b
  BY <1>1, <1>2, <1>3, <1>4
<1> QED BY <1>2, <1>5 DEF Regions, Region, a, b

LEMMA Layout ==
    /\ UserPages \subseteq Page /\ KernelArea \subseteq Page
    /\ Stacks \subseteq KernelArea /\ Image \subseteq KernelArea /\ Image \cap Stacks = {}
    /\ \A p \in UserPages, q \in KernelArea : Region(p) # Region(q)
    /\ UserPages \cap KernelArea = {}
    /\ \A u \in User : Pages(u) \subseteq UserPages /\ Segments[u] \subseteq Pages(u)
    /\ UserStack \subseteq UserPages /\ \A u \in User : UserStack \subseteq Pages(u)
<1>1. /\ Segments \in [User -> SUBSET Page] /\ Image \cup LowStack \cup UserStack \subseteq Page
      /\ Image \cap LowStack = {} /\ Image \cap Upper = {}
  BY PagingAssumption, Zenon
<1>2. Upper \subseteq Page
  BY PagingAssumption DEF Upper, Page
<1>3. \A u \in User : Pages(u) \subseteq UserPages /\ Segments[u] \subseteq Pages(u)
  BY Zenon DEF User, Pages, UserPages
<1>4. \A p \in UserPages : \E u \in User : p \in Segments[u] \cup UserStack
  BY Zenon DEF User, UserPages
<1>5. \A p \in UserPages, q \in KernelArea : Region(p) # Region(q)
  BY <1>4, PagingAssumption, Zenon DEF KernelArea
<1>6. UserPages \cap KernelArea = {}
  BY <1>5, Zenon
<1>7. UserPages \subseteq Page
  BY <1>1, Zenon DEF UserPages, User
<1> QED BY <1>1, <1>2, <1>3, <1>5, <1>6, <1>7, Zenon DEF KernelArea, Stacks, UserPages, Pages

LEMMA EntryFact ==
    /\ \A f \in Int, x \in SUBSET Flags :
        Entry(f, x) \in Entries /\ Entry(f, x).frame = f /\ Entry(f, x).flags = x
    /\ \A e \in Entries : Entry(e.frame, e.flags) = e
    /\ \A e \in Entries : e.frame \in Int /\ e.flags \in SUBSET Flags
    /\ NoEntry \in Entries /\ NoEntry.frame = 0 /\ NoEntry.flags = {}
    /\ NoAlloc \in Entries /\ NoAlloc.frame = -1 /\ NoAlloc.flags = {}
BY DEF Entry, Entries, NoEntry, NoAlloc, None

LEMMA FlagsFact ==
    /\ KernelFlags \in SUBSET Flags /\ "P" \in KernelFlags
    /\ \A u, p : /\ UserFlags(u, p) \in SUBSET Flags /\ "P" \in UserFlags(u, p)
                 /\ "U" \in UserFlags(u, p) /\ ("W" \in UserFlags(u, p) <=> p \notin ReadOnly[u])
BY Zenon DEF KernelFlags, UserFlags, Flags

LEMMA TaskFact ==
    /\ Main \in Task /\ User \subseteq Task /\ Main \notin User /\ Task \subseteq Nat
    /\ Owners = {Main} \cup User
    /\ \A t \in Task : Owner(t) \in Owners
    /\ \A u \in User : Owner(u) = u /\ u \in Owners
    /\ Main \in Owners /\ \A t \in Task : t \notin User => Owner(t) = Main
BY PagingAssumption DEF Main, Task, User, Owner, Owners

LEMMA FaultFact ==
    /\ NoFault \in Faults /\ NoFault.at = "none" /\ NoFault.err_code = {}
    /\ \A p \in Page, c \in SUBSET {"P"}, e \in Entries, a \in {"none", "entry", "dir", "table"} :
        LET f == [page |-> p, err_code |-> c, entry |-> e, at |-> a]
        IN  f \in Faults /\ f.page = p /\ f.err_code = c /\ f.entry = e /\ f.at = a
BY EntryFact DEF NoFault, Faults, None

LEMMA DirSet ==
    ASSUME dir \in [Owners -> [Regions -> SUBSET Flags]],
           NEW o \in Owners, NEW r \in Regions, NEW x \in SUBSET Flags,
           dir' = [dir EXCEPT ![o][r] = x]
    PROVE  /\ dir' \in [Owners -> [Regions -> SUBSET Flags]]
           /\ \A a \in Owners, b \in Regions :
                dir'[a][b] = IF a = o /\ b = r THEN x ELSE dir[a][b]
BY Zenon

LEMMA DirReplace ==
    ASSUME dir \in [Owners -> [Regions -> SUBSET Flags]],
           NEW o \in Owners, NEW d \in [Regions -> SUBSET Flags],
           dir' = [dir EXCEPT ![o] = d]
    PROVE  /\ dir' \in [Owners -> [Regions -> SUBSET Flags]]
           /\ dir'[o] = d /\ \A a \in Owners \ {o} : dir'[a] = dir[a]
BY Zenon

LEMMA TablesSet ==
    ASSUME tables \in [Page -> Entries], NEW p \in Page, NEW e \in Entries,
           tables' = [tables EXCEPT ![p] = e]
    PROVE  /\ tables' \in [Page -> Entries] /\ tables'[p] = e
           /\ \A q \in Page \ {p} : tables'[q] = tables[q]
BY Zenon

LEMMA VmmSet ==
    ASSUME vmm \in [Owners -> [Page -> Entries]], NEW o \in Owners, NEW p \in Page,
           NEW e \in Entries, vmm' = [vmm EXCEPT ![o][p] = e]
    PROVE  /\ vmm' \in [Owners -> [Page -> Entries]] /\ vmm'[o][p] = e
           /\ \A q \in Page \ {p} : vmm'[o][q] = vmm[o][q]
           /\ \A a \in Owners \ {o} : vmm'[a] = vmm[a]
BY Zenon

LEMMA VmmReplace ==
    ASSUME vmm \in [Owners -> [Page -> Entries]], NEW o \in Owners, NEW v \in [Page -> Entries],
           vmm' = [vmm EXCEPT ![o] = v]
    PROVE  /\ vmm' \in [Owners -> [Page -> Entries]] /\ vmm'[o] = v
           /\ \A a \in Owners \ {o} : vmm'[a] = vmm[a]
BY Zenon

LEMMA WithPagesFact ==
    ASSUME NEW f \in [Page -> Entries], NEW e, DOMAIN e \subseteq Page,
           \A p \in DOMAIN e : e[p] \in Entries
    PROVE  /\ WithPages(f, e) \in [Page -> Entries]
           /\ \A p \in DOMAIN e : WithPages(f, e)[p] = e[p]
           /\ \A p \in Page \ DOMAIN e : WithPages(f, e)[p] = f[p]
BY Zenon DEF WithPages

LEMMA FaultSet ==
    ASSUME fault \in [Task -> Faults], NEW t \in Task, NEW f \in Faults,
           fault' = [fault EXCEPT ![t] = f]
    PROVE  /\ fault' \in [Task -> Faults] /\ fault'[t] = f
           /\ \A u \in Task \ {t} : fault'[u] = fault[u]
BY Zenon

\* The properties follow from the invariant.
LEMMA IInvSwitch == IInv => SwitchIsSafe
<1> SUFFICES ASSUME IInv PROVE SwitchIsSafe
  BY Zenon
<1>1. ASSUME NEW t \in Task, IsCreated(t), NEW p \in KernelPages(t)
      PROVE  /\ Present(Owner(t), p)
             /\ \/ p \in Image /\ tables[p].frame = FixedFrame(p)
                \/ p \in Stacks /\ tables[p].frame > 0
  <2>1. stack[t] # None /\ (t \in User => dirpage[t] # None)
    BY <1>1, Zenon DEF IsCreated
  <2>2. pc # "init_paging"
    <3>1. stack[t] \in Nat /\ StackPages \in Nat \ {0, 1}
      BY <2>1, PagingAssumption DEF IInv, TypeOK, Page
    <3>2. stack[t] + 1 \in StackMapped(stack[t])
      BY <3>1 DEF StackMapped
    <3>3. Present(Main, stack[t] + 1) /\ stack[t] + 1 \in Page
      BY <2>1, <3>2, Layout, Zenon DEF IInv, KernelMapped
    <3>4. tables[stack[t] + 1].flags # {}
      BY <3>3, Zenon DEF Present
    <3> QED BY <3>3, <3>4, EntryFact, Zenon DEF IInv, Control
  <2>3. /\ Present(Main, p)
        /\ \/ p \in Image /\ tables[p].frame = FixedFrame(p)
           \/ p \in Stacks /\ tables[p].frame > 0
    <3>1. CASE p \in Image
      BY <2>2, <3>1, Zenon DEF IInv, KernelMapped
    <3>2. CASE p \in StackMapped(stack[t])
      BY <2>1, <3>2, Zenon DEF IInv, KernelMapped
    <3>3. CASE t \in User /\ p = dirpage[t]
      BY <2>1, <3>3, Zenon DEF IInv, KernelMapped
    <3> QED BY <1>1, <3>1, <3>2, <3>3, Zenon DEF KernelPages
  <2>4. CASE t \in User
    BY <1>1, <2>1, <2>3, <2>4, TaskFact, Zenon DEF IInv, KernelMapped, Present
  <2>5. CASE t \notin User
    BY <2>3, <2>5, TaskFact, Zenon
  <2> QED BY <2>3, <2>4, <2>5, Zenon
<1>2. \A p \in Image : p \in Nat
  BY Layout DEF Page
<1>3. Image \cap Stacks = {}
  BY Layout, Zenon
<1>4. ASSUME NEW t \in Task, IsCreated(t), NEW p \in KernelPages(t),
             NEW u \in Task, IsCreated(u), NEW q \in KernelPages(u), p # q
      PROVE  tables[p].frame # tables[q].frame
  <2>1. \/ p \in Image /\ tables[p].frame = FixedFrame(p)
        \/ p \in Stacks /\ tables[p].frame > 0
    BY <1>1, <1>4, Zenon
  <2>2. \/ q \in Image /\ tables[q].frame = FixedFrame(q)
        \/ q \in Stacks /\ tables[q].frame > 0
    BY <1>1, <1>4, Zenon
  <2>3. CASE p \in Stacks /\ q \in Stacks
    BY <1>2, <1>3, <1>4, <2>1, <2>2, <2>3, Zenon DEF IInv, KernelFrames
  <2>4. CASE ~ (p \in Stacks /\ q \in Stacks)
    BY <1>2, <1>3, <1>4, <2>1, <2>2, <2>4 DEF FixedFrame
  <2> QED BY <2>3, <2>4, Zenon
<1>5. ASSUME NEW t \in Task, IsCreated(t), NEW p \in KernelPages(t)
      PROVE  tables[p].frame # 0
  BY <1>1, <1>2, <1>5 DEF FixedFrame
<1> QED BY <1>1, <1>4, <1>5, Zenon DEF SwitchIsSafe

LEMMA InvSafe == Inv => Safe
BY IInvSwitch, Zenon DEF Inv, IInv, TlbOK, Safe

LEMMA InitInv == Init => Inv
<1> SUFFICES ASSUME Init PROVE Inv
  BY Zenon
<1>1. /\ \A o \in Owners, r \in Regions : dir[o][r] = {}
      /\ \A p \in Page : tables[p] = NoEntry
      /\ \A o \in Owners, p \in Page : vmm[o][p] = NoAlloc
      /\ \A t \in Task : fault[t] = NoFault /\ stack[t] = None
      /\ \A u \in User : dirpage[u] = None
      /\ DOMAIN tlb = {} /\ tlb = << >> /\ pc = "init_paging" /\ new = Main /\ current = Main
      /\ frames = 0 /\ brk = FirstPage /\ hit.task = Main
  BY DEF Init, Owners, Regions
<1>2. TypeOK
  <2>1. 0 \in Page /\ Main \in Nat /\ FirstPage \in Nat
    BY PagingAssumption DEF Page, Main
  <2> QED BY <1>1, <2>1, EntryFact, TaskFact, FaultFact
          DEF Init, TypeOK, Owners, Regions, Creating, Loading
<1>3. Control
  BY <1>1, TaskFact, Zenon DEF Control, Loading
<1>4. KernelMapped
  BY <1>1, Zenon DEF KernelMapped
<1>5. KernelFrames
  BY <1>1, Layout, EntryFact DEF KernelFrames, Stacks
<1>6. UserMapped
  BY <1>1, Layout, RegionFact, TaskFact DEF UserMapped, Kept
<1>7. FaultsOK /\ TlbOK
  BY <1>1, TaskFact, FaultFact DEF FaultsOK, TlbOK, TlbCoherent
<1>8. PrivatePagesOwn /\ ProtectionFaultsExplained
  BY <1>1, TaskFact, FaultFact DEF PrivatePagesOwn, ProtectionFaultsExplained
<1> QED BY <1>1, <1>2, <1>3, <1>4, <1>5, <1>6, <1>7, <1>8, Zenon DEF Inv, IInv

-----------------------------------------------------------------------------
(* Steps that leave parts of the state alone.                              *)

\* No step takes the entry of a kernel page away, in the first directory or in
\* that of a task that has been created.
KernelSteady ==
    /\ \A p \in KernelArea : "P" \in tables[p].flags => tables'[p] = tables[p]
    /\ \A p \in KernelArea : "P" \in dir[Main][Region(p)] => "P" \in dir'[Main][Region(p)]
    /\ \A u \in User : dirpage[u] # None =>
        \A p \in KernelArea : "P" \in dir[u][Region(p)] => "P" \in dir'[u][Region(p)]

LEMMA PagesOfKernel ==
    ASSUME IInv, NEW u \in User, stack[u] # None, dirpage[u] # None
    PROVE  KernelPages(u) \subseteq KernelArea
BY Layout, TaskFact DEF IInv, KernelMapped, KernelPages

\* A kernel stack, or a page directory, that is mapped as KernelMapped says.
StackThere(t) ==
    /\ StackMapped(stack[t]) \subseteq Stacks /\ stack[t] + StackPages - 1 \in Page
    /\ \A p \in StackMapped(stack[t]) : Present(Main, p) /\ tables[p].frame > 0

DirThere(u) ==
    /\ dirpage[u] \in Stacks /\ Present(Main, dirpage[u]) /\ tables[dirpage[u]].frame > 0
    /\ IsCreated(u) => \A p \in KernelPages(u) : "P" \in dir[u][Region(p)]

LEMMA MappedStep ==
    ASSUME IInv, KernelSteady,
           pc # "init_paging" \/
                \A p \in Image : Present(Main, p)' /\ tables'[p].frame = FixedFrame(p),
           \A t \in Task : stack'[t] = stack[t] \/ StackThere(t)',
           \A u \in User : dirpage[u] # None => dirpage'[u] = dirpage[u] /\ stack'[u] = stack[u],
           \A u \in User : dirpage'[u] = dirpage[u] \/ DirThere(u)',
           (pc' \in {"directory", "copy_directory"} \/ (pc' = "push" /\ new' \in User))
                => stack'[new'] # None,
           pc' = "push" /\ new' \in User => dirpage'[new'] # None
    PROVE  KernelMapped'
<1>1. \A p \in KernelArea : Present(Main, p) => Present(Main, p)' /\ tables'[p] = tables[p]
  BY Zenon DEF KernelSteady, Present
<1>2. (\A p \in Image : Present(Main, p) /\ tables[p].frame = FixedFrame(p))'
  BY <1>1, Layout, Zenon DEF IInv, KernelMapped, FixedFrame
<1>3. ASSUME NEW t \in Task, stack'[t] # None
      PROVE  StackThere(t)'
  <2>1. CASE stack'[t] = stack[t]
    <3>1. StackThere(t)
      BY <1>3, <2>1, Zenon DEF IInv, KernelMapped, StackThere
    <3> QED BY <1>1, <2>1, <3>1, Layout, Zenon DEF StackThere
  <2> QED BY <2>1, Zenon
<1>4. ASSUME NEW u \in User, dirpage'[u] # None
      PROVE  DirThere(u)'
  <2>1. CASE dirpage'[u] = dirpage[u]
    <3>1. DirThere(u) /\ stack'[u] = stack[u]
      BY <1>4, <2>1, Zenon DEF IInv, KernelMapped, DirThere
    <3>2. dirpage[u] \in Stacks /\ Present(Main, dirpage[u])' /\ tables'[dirpage[u]].frame > 0
      BY <1>1, <3>1, Layout, Zenon DEF DirThere
    <3>3. IsCreated(u)' = IsCreated(u) /\ KernelPages(u)' = KernelPages(u)
      BY <2>1, <3>1, Zenon DEF IsCreated, KernelPages
    <3>4. ASSUME IsCreated(u), NEW p \in KernelPages(u)
          PROVE  "P" \in dir'[u][Region(p)]
      <4>1. "P" \in dir[u][Region(p)]
        BY <3>1, <3>4, Zenon DEF DirThere
      <4>2. p \in KernelArea
        BY <1>4, <2>1, <3>4, PagesOfKernel, Zenon DEF IsCreated
      <4> QED BY <1>4, <2>1, <4>1, <4>2, Zenon DEF KernelSteady
    <3> QED BY <2>1, <3>2, <3>3, <3>4, Zenon DEF DirThere
  <2> QED BY <2>1, Zenon
<1> QED BY <1>2, <1>3, <1>4, Zenon DEF KernelMapped, StackThere, DirThere

LEMMA MappedKept ==
    ASSUME IInv, KernelSteady, pc # "init_paging", UNCHANGED <<stack, dirpage>>,
           (pc' \in {"directory", "copy_directory"} \/ (pc' = "push" /\ new' \in User))
                => stack[new'] # None,
           pc' = "push" /\ new' \in User => dirpage[new'] # None
    PROVE  KernelMapped'
BY MappedStep, Zenon

LEMMA SameMapped ==
    ASSUME KernelMapped, UNCHANGED <<dir, tables, stack, dirpage, pc, new>>
    PROVE  KernelMapped'
BY Zenon DEF KernelMapped, Present, IsCreated, KernelPages

LEMMA SameFrames ==
    ASSUME KernelFrames, UNCHANGED <<tables, vmm, frames, pc, new, page, brk>>
    PROVE  KernelFrames'
BY Zenon DEF KernelFrames

LEMMA SameUser ==
    ASSUME UserMapped, UNCHANGED <<dir, tables, vmm, frames, pc, new, page>>
    PROVE  UserMapped'
BY DEF UserMapped, Kept, Allocated

LEMMA NothingMapped ==
    ASSUME IInv, UNCHANGED <<dir, tables>>
    PROVE  KernelSteady
BY Zenon DEF KernelSteady

\* Translations in use stay right if their pages are not touched.
LEMMA CoherentKept ==
    ASSUME TlbCoherent, TypeOK, UNCHANGED current, DOMAIN tlb' \subseteq DOMAIN tlb,
           \A p \in DOMAIN tlb' : tlb'[p] = tlb[p] /\ tables'[p] = tables[p],
           \A p \in DOMAIN tlb' : "P" \in dir[Owner(current)][Region(p)] => "P" \in dir'[Owner(current)][Region(p)]
    PROVE  TlbCoherent'
BY Zenon DEF TlbCoherent, Present

\* A permitted access caches what the tables say.
LEMMA AccessFact ==
    ASSUME IInv, NEW p \in Page, NEW user, NEW write, Access(p, user, write)
    PROVE  /\ Translation(p) \in Entries /\ "P" \in Translation(p).flags
           /\ Present(Owner(current), p) /\ Translation(p).frame = tables[p].frame
           /\ DOMAIN tlb' = DOMAIN tlb \cup {p} /\ tlb'[p] = Translation(p)
           /\ \A q \in DOMAIN tlb : tlb'[q] = tlb[q]
           /\ \A q \in DOMAIN tlb' : tlb'[q] \in Entries /\ "P" \in tlb'[q].flags
           /\ hit'.task = current /\ hit'.page = p /\ hit'.frame = Translation(p).frame
<1>1. Translation(p) \in Entries
  <2>1. CASE p \in DOMAIN tlb
    BY <2>1, Zenon DEF IInv, TypeOK, Translation
  <2>2. CASE p \notin DOMAIN tlb
    <3>1. dir[Owner(current)][Region(p)] \in SUBSET Flags
      BY TaskFact, RegionFact DEF IInv, TypeOK
    <3>2. tables[p].frame \in Int /\ tables[p].flags \in SUBSET Flags
      BY EntryFact, Zenon DEF IInv, TypeOK
    <3> QED BY <2>2, <3>1, <3>2, EntryFact, Zenon DEF Translation
  <2> QED BY <2>1, <2>2, Zenon
<1>2. "P" \in Translation(p).flags
  BY Zenon DEF Access, Permitted
<1>3. Present(Owner(current), p) /\ Translation(p).frame = tables[p].frame
  <2>1. CASE p \in DOMAIN tlb
    BY <2>1, Zenon DEF IInv, TlbOK, TlbCoherent, Translation
  <2>2. CASE p \notin DOMAIN tlb
    BY <1>2, <2>2, Zenon DEF Entry, Translation, Present
  <2> QED BY <2>1, <2>2, Zenon
<1>4. /\ DOMAIN tlb' = DOMAIN tlb \cup {p} /\ tlb'[p] = Translation(p)
      /\ \A q \in DOMAIN tlb : tlb'[q] = tlb[q]
  BY Zenon DEF Access, Translation
<1>5. hit'.task = current /\ hit'.page = p /\ hit'.frame = Translation(p).frame
  BY Zenon DEF Access
<1>6. \A q \in DOMAIN tlb' : tlb'[q] \in Entries /\ "P" \in tlb'[q].flags
  BY <1>1, <1>2, <1>4, Zenon DEF IInv, TypeOK, TlbOK
<1> QED BY <1>1, <1>2, <1>3, <1>4, <1>5, <1>6, Zenon

LEMMA AccessCoherent ==
    ASSUME IInv, NEW p \in Page, NEW user, NEW write, Access(p, user, write),
           UNCHANGED <<tables, current>>, dir'[Owner(current)] = dir[Owner(current)]
    PROVE  TlbCoherent'
<1>1. /\ Present(Owner(current), p) /\ Translation(p).frame = tables[p].frame
      /\ DOMAIN tlb' = DOMAIN tlb \cup {p} /\ tlb'[p] = Translation(p)
      /\ \A q \in DOMAIN tlb : tlb'[q] = tlb[q]
  BY AccessFact, Zenon
<1>2. \A q \in DOMAIN tlb' : Present(Owner(current), q) /\ tlb'[q].frame = tables[q].frame
  BY <1>1, Zenon DEF IInv, TlbOK, TlbCoherent
<1> QED BY <1>2, Zenon DEF TlbCoherent, Present

-----------------------------------------------------------------------------
(* The steps of the tasks.                                                 *)

LEMMA EvictInv ==
    ASSUME IInv, NEW p \in DOMAIN tlb, evict(p)
    PROVE  IInv'
<1> USE DEF kmain
<1>1. /\ UNCHANGED <<dir, tables, vmm, current, fault, frames, hit, cr2>>
      /\ UNCHANGED <<pc, new, page, todo, brk, stack, dirpage>>
      /\ DOMAIN tlb' \subseteq DOMAIN tlb /\ \A q \in DOMAIN tlb' : tlb'[q] = tlb[q]
  BY Zenon DEF evict
<1>2. TypeOK'
  BY <1>1, Zenon DEF IInv, TypeOK
<1>3. Control'
  <2>1. pc # "init_paging"
    BY DEF IInv, Control
  <2> QED BY <1>1, <2>1, Zenon DEF IInv, Control
<1>4. KernelMapped'
  BY <1>1, SameMapped, Zenon DEF IInv
<1>5. KernelFrames'
  BY <1>1, SameFrames, Zenon DEF IInv
<1>6. UserMapped'
  BY <1>1, SameUser, Zenon DEF IInv
<1>7. FaultsOK'
  BY <1>1 DEF IInv, FaultsOK
<1>8. TlbOK'
  <2>1. TlbCoherent'
    BY <1>1, CoherentKept, Zenon DEF IInv, TlbOK
  <2> QED BY <1>1, <2>1, Zenon DEF IInv, TlbOK, Explained
<1>9. PrivatePagesOwn' /\ ProtectionFaultsExplained'
  BY <1>1, Zenon DEF IInv, PrivatePagesOwn, ProtectionFaultsExplained
<1> QED BY <1>2, <1>3, <1>4, <1>5, <1>6, <1>7, <1>8, <1>9, Zenon DEF IInv

LEMMA SwitchInv ==
    ASSUME IInv, NEW t \in Task, do_task_switch(t)
    PROVE  IInv'
<1> USE DEF kmain
<1>1. /\ UNCHANGED <<dir, tables, vmm, fault, frames, hit, cr2>>
      /\ UNCHANGED <<pc, new, page, todo, brk, stack, dirpage>>
      /\ pc = "run" /\ current' = t /\ t # current
  BY Zenon DEF do_task_switch
<1>2. \/ tlb' = tlb /\ Owner(t) = Owner(current)
      \/ DOMAIN tlb' = {}
  BY DEF do_task_switch, AfterLoad
<1>3. t \in User => DOMAIN tlb' = {}
  BY <1>1, <1>2, TaskFact, Zenon DEF IInv, TypeOK, Owner
<1>4. TypeOK'
  BY <1>1, <1>2, Zenon DEF IInv, TypeOK
<1>5. Control'
  BY <1>1, Zenon DEF IInv, Control, Loading
<1>6. KernelMapped'
  BY <1>1, SameMapped, Zenon DEF IInv
<1>7. KernelFrames'
  BY <1>1, SameFrames, Zenon DEF IInv
<1>8. UserMapped'
  BY <1>1, SameUser, Zenon DEF IInv
<1>9. FaultsOK'
  <2>1. t \notin User => fault[t] = NoFault
    BY <1>1, Zenon DEF IInv, FaultsOK
  <2>2. /\ fault[t].at = "entry" /\ fault[t].err_code = {} => cr2 \notin DOMAIN tlb'
        /\ fault[t].at \in {"dir", "table"} => fault[t].page \notin DOMAIN tlb'
    BY <1>3, <2>1, FaultFact, Zenon
  <2> QED BY <1>1, <2>2, Zenon DEF IInv, FaultsOK
<1>10. TlbOK'
  <2>1. TlbCoherent'
    BY <1>1, <1>2, Zenon DEF IInv, TlbOK, TlbCoherent, Present
  <2> QED BY <1>1, <1>2, <1>3, <2>1, Zenon DEF IInv, TlbOK
<1>11. PrivatePagesOwn' /\ ProtectionFaultsExplained'
  BY <1>1, Zenon DEF IInv, PrivatePagesOwn, ProtectionFaultsExplained
<1> QED BY <1>4, <1>5, <1>6, <1>7, <1>8, <1>9, <1>10, <1>11, Zenon DEF IInv

\* What a translation of a page of a program allows its task, and where it leads.
LEMMA UserTranslation ==
    ASSUME IInv, pc = "run", current \in User, NEW p \in Pages(current),
           "P" \in Translation(p).flags
    PROVE  /\ "U" \in Translation(p).flags
           /\ "W" \in Translation(p).flags \/ Explained(current, p)
           /\ \E v \in User : p \in Pages(v) /\ tables[p].frame = vmm[v][p].frame
<1>1. p \in UserPages /\ p \in Page
  BY Layout, Zenon
<1>2. Present(current, p)
  <2>1. CASE p \in DOMAIN tlb
    BY <2>1, TaskFact, Zenon DEF IInv, TlbOK, TlbCoherent
  <2>2. CASE p \notin DOMAIN tlb
    BY <2>2, TaskFact, Zenon DEF Translation, Entry, Present
  <2> QED BY <2>1, <2>2, Zenon
<1>3. PICK q \in Pages(current) :
        Region(q) = Region(p) /\ dir[current][Region(p)] = UserFlags(current, q)
  <2>1. dir[current][Region(p)] # {}
    BY <1>2, Zenon DEF Present
  <2> QED BY <1>1, <2>1, Zenon DEF IInv, UserMapped
<1>4. PICK v \in User : tables[p] = vmm[v][p] /\ vmm[v][p] # NoAlloc
  <2>1. tables[p].flags # {}
    BY <1>2, Zenon DEF Present
  <2> QED BY <1>1, <2>1, EntryFact, Zenon DEF IInv, UserMapped, Kept
<1>5. p \in Pages(v) /\ tables[p].flags = UserFlags(v, p)
  BY <1>1, <1>4 DEF IInv, UserMapped, Allocated
<1>6. CASE p \in DOMAIN tlb
  BY <1>4, <1>5, <1>6, Zenon DEF IInv, TlbOK, Translation
<1>7. CASE p \notin DOMAIN tlb
  <2>1. Translation(p).flags = UserFlags(current, q) \cap UserFlags(v, p)
    BY <1>3, <1>5, <1>7, TaskFact, Zenon DEF Translation, Entry
  <2>2. /\ "U" \in UserFlags(current, q) /\ "U" \in UserFlags(v, p)
        /\ "W" \in UserFlags(current, q) \/ q \in ReadOnly[current]
        /\ "W" \in UserFlags(v, p) \/ p \in ReadOnly[v]
    BY FlagsFact, Zenon
  <2> QED BY <1>3, <1>4, <1>5, <2>1, <2>2, Zenon DEF Explained
<1> QED BY <1>6, <1>7, Zenon

LEMMA UserHitInv ==
    ASSUME IInv, NEW p \in Page, NEW write \in BOOLEAN,
           pc = "run", current \in User, fault[current] = NoFault, p \in Pages(current),
           Access(p, TRUE, write),
           UNCHANGED <<cr2, dir, tables, vmm, current, fault, kmain, frames>>
    PROVE  IInv'
<1>1. /\ UNCHANGED <<dir, tables, vmm, fault, frames, current, cr2>>
      /\ UNCHANGED <<pc, new, page, todo, brk, stack, dirpage>>
  BY Zenon DEF kmain
<1>2. /\ DOMAIN tlb' = DOMAIN tlb \cup {p} /\ tlb'[p] = Translation(p)
      /\ Translation(p) \in Entries /\ "P" \in Translation(p).flags
      /\ Translation(p).frame = tables[p].frame
      /\ \A q \in DOMAIN tlb : tlb'[q] = tlb[q]
      /\ \A q \in DOMAIN tlb' : tlb'[q] \in Entries /\ "P" \in tlb'[q].flags
      /\ hit'.task = current /\ hit'.page = p /\ hit'.frame = Translation(p).frame
  BY AccessFact, Zenon
<1>3. /\ "U" \in Translation(p).flags
      /\ "W" \in Translation(p).flags \/ Explained(current, p)
      /\ \E v \in User : p \in Pages(v) /\ tables[p].frame = vmm[v][p].frame
  BY <1>2, UserTranslation, Zenon
<1>4. TypeOK'
  BY <1>1, <1>2, Zenon DEF IInv, TypeOK
<1>5. Control'
  BY <1>1, Zenon DEF IInv, Control, Loading
<1>6. KernelMapped'
  BY <1>1, SameMapped, Zenon DEF IInv
<1>7. KernelFrames'
  BY <1>1, SameFrames, Zenon DEF IInv
<1>8. UserMapped'
  BY <1>1, SameUser, Zenon DEF IInv
<1>9. FaultsOK'
  <2>1. fault[current].at = "none"
    BY FaultFact, Zenon
  <2> QED BY <1>1, <2>1 DEF IInv, FaultsOK
<1>10. TlbOK'
  <2>1. TlbCoherent'
    BY <1>1, AccessCoherent, Zenon
  <2>2. \A q \in DOMAIN tlb' :
          /\ q \in Pages(current) /\ "U" \in tlb'[q].flags
          /\ "W" \in tlb'[q].flags \/ Explained(current, q)
    BY <1>2, <1>3, Zenon DEF IInv, TlbOK
  <2> QED BY <1>1, <1>2, <2>1, <2>2 DEF TlbOK, Explained
<1>11. PrivatePagesOwn'
  BY <1>1, <1>2, <1>3, Zenon DEF PrivatePagesOwn
<1>12. ProtectionFaultsExplained'
  BY <1>1, Zenon DEF IInv, ProtectionFaultsExplained
<1> QED BY <1>4, <1>5, <1>6, <1>7, <1>8, <1>9, <1>10, <1>11, <1>12, Zenon DEF IInv

\* A page fault of the task that runs, on a page it may fault on.
LEMMA PageFaultInv ==
    ASSUME IInv, NEW p \in Page, NEW user, NEW write, page_fault(p, user, write),
           IF pc = "run" THEN current \in User /\ p \in UserPages
           ELSE p = page /\ pc \in {"parse", "copy_directory", "copy"},
           "P" \in Translation(p).flags /\ current \in User => Explained(current, p)
    PROVE  IInv'
<1> DEFINE f == [page |-> p, err_code |-> Translation(p).flags \cap {"P"},
                 entry |-> NoEntry, at |-> "entry"]
<1>1. /\ UNCHANGED <<dir, tables, vmm, tlb, frames, current, hit>>
      /\ UNCHANGED <<pc, new, page, todo, brk, stack, dirpage>>
      /\ cr2' = p /\ fault' = [fault EXCEPT ![current] = f]
  BY Zenon DEF page_fault, kmain
<1>2. /\ f \in Faults /\ f.page = p /\ f.err_code = Translation(p).flags \cap {"P"}
      /\ f.at = "entry"
  BY FaultFact, EntryFact, Zenon
<1> HIDE DEF f
<1>3. /\ fault' \in [Task -> Faults] /\ fault'[current] = f
      /\ \A t \in Task \ {current} : fault'[t] = fault[t]
  BY <1>1, <1>2, FaultSet, Zenon DEF IInv, TypeOK
<1>4. TypeOK'
  BY <1>1, <1>3, Zenon DEF IInv, TypeOK
<1>5. Control'
  BY <1>1, Zenon DEF IInv, Control
<1>6. KernelMapped'
  BY <1>1, SameMapped, Zenon DEF IInv
<1>7. KernelFrames'
  BY <1>1, SameFrames, Zenon DEF IInv
<1>8. UserMapped'
  BY <1>1, SameUser, Zenon DEF IInv
<1>9. FaultsOK'
  <2>1. pc # "run" => current = Main
    BY Zenon DEF IInv, Control
  <2>2. p \in DOMAIN tlb => "P" \in f.err_code
    BY <1>2, Zenon DEF IInv, TlbOK, Translation
  <2>3. ASSUME NEW t \in Task, fault'[t] # NoFault
        PROVE  /\ fault'[t].at # "none"
               /\ IF pc = "run" THEN t \in User ELSE t = Main /\ pc \in {"parse", "copy_directory", "copy"}
               /\ fault'[t].at = "entry" => IF pc = "run" THEN p \in UserPages ELSE p = page
               /\ fault'[t].at \in {"dir", "table"} =>
                   /\ IF pc = "run" THEN fault'[t].page \in UserPages ELSE fault'[t].page = page
                   /\ fault'[t].entry = vmm[Owner(t)][fault'[t].page] /\ fault'[t].entry # NoAlloc
                   /\ fault'[t].err_code = {}
    <3>1. CASE t = current
      BY <1>2, <1>3, <2>1, <3>1, Zenon
    <3>2. CASE t # current
      <4>1. fault'[t] = fault[t]
        BY <1>3, <3>2, Zenon
      <4> QED BY <2>3, <4>1, Zenon DEF IInv, FaultsOK
    <3> QED BY <3>1, <3>2, Zenon
  <2>4. /\ fault'[current].at = "entry" /\ fault'[current].err_code = {} => p \notin DOMAIN tlb
        /\ fault'[current].at \in {"dir", "table"} => fault'[current].page \notin DOMAIN tlb
    BY <1>2, <1>3, <2>2, Zenon
  <2> QED BY <1>1, <2>3, <2>4, Zenon DEF FaultsOK
<1>10. TlbOK'
  BY <1>1, Zenon DEF IInv, TlbOK, TlbCoherent, Present, Explained
<1>11. PrivatePagesOwn'
  BY <1>1, Zenon DEF IInv, PrivatePagesOwn
<1>12. ProtectionFaultsExplained'
  <2>1. ASSUME NEW u \in User, "P" \in fault'[u].err_code
        PROVE  Explained(u, fault'[u].page)
    <3>1. CASE u = current
      BY <1>2, <1>3, <2>1, <3>1, Zenon
    <3>2. CASE u # current
      BY <1>3, <2>1, <3>2, TaskFact, Zenon DEF IInv, ProtectionFaultsExplained, Explained
    <3> QED BY <3>1, <3>2, Zenon
  <2> QED BY <2>1, Zenon DEF ProtectionFaultsExplained, Explained
<1> QED BY <1>4, <1>5, <1>6, <1>7, <1>8, <1>9, <1>10, <1>11, <1>12, Zenon DEF IInv

LEMMA UserAccessInv ==
    ASSUME IInv, NEW p \in Page, NEW write \in BOOLEAN, user_access(p, write)
    PROVE  IInv'
<1>1. /\ pc = "run" /\ current \in User /\ fault[current] = NoFault
      /\ p \in Pages(current) /\ p \in UserPages
  BY Layout, Zenon DEF user_access
<1>2. CASE Access(p, TRUE, write) /\ UNCHANGED <<cr2, dir, tables, vmm, current, fault, kmain, frames>>
  BY <1>1, <1>2, UserHitInv, Zenon
<1>3. CASE page_fault(p, TRUE, write)
  <2>1. "P" \in Translation(p).flags => Explained(current, p)
    BY <1>1, <1>3, UserTranslation, Zenon DEF page_fault, Permitted
  <2> QED BY <1>1, <1>3, <2>1, PageFaultInv, Zenon
<1> QED BY <1>2, <1>3, Zenon DEF user_access

LEMMA KernelFaultInv ==
    ASSUME IInv, kernel_access
    PROVE  IInv'
<1>1. page \in Page /\ current = Main /\ pc \in {"parse", "copy_directory", "copy"}
  BY Zenon DEF IInv, TypeOK, kernel_access
<1>2. page_fault(page, FALSE, pc # "parse")
  BY Zenon DEF kernel_access
<1> QED BY <1>1, <1>2, TaskFact, PageFaultInv, Zenon

\* The page being handled, and the allocation that the handler finds for it.
LEMMA HandledAlloc ==
    ASSUME IInv, pc # "panic",
           NEW p \in Page, fault[current] # NoFault, vmm[Owner(current)][p] # NoAlloc,
           IF pc = "run" THEN p \in UserPages ELSE p = page
    PROVE  LET alloc == vmm[Owner(current)][p] IN
           /\ alloc \in Entries /\ alloc.frame # 0 /\ alloc.frame < frames
           /\ "P" \in alloc.flags
           /\ \/ pc = "run" /\ current \in User /\ p \in Pages(current) /\ alloc.flags = UserFlags(current, p)
              \/ pc \in {"parse", "copy_directory"} /\ current = Main /\ p = page /\ p \in Upper
              \/ pc = "copy" /\ current = Main /\ p = page /\ p \in UserPages
<1>1. vmm[Owner(current)][p] \in Entries
  BY TaskFact DEF IInv, TypeOK
<1>2. CASE pc = "run"
  <2>1. current \in User /\ Owner(current) = current
    BY <1>2, TaskFact, Zenon DEF IInv, FaultsOK, TypeOK
  <2>2. Allocated(current, current, p)
    BY <1>2, <2>1, Zenon DEF IInv, UserMapped
  <2>3. "P" \in UserFlags(current, p)
    BY FlagsFact, Zenon
  <2> QED BY <1>1, <1>2, <2>1, <2>2, <2>3, EntryFact DEF Allocated
<1>3. CASE pc # "run"
  <2>1. current = Main /\ Owner(current) = Main /\ pc \in {"parse", "copy_directory", "copy"} /\ p = page
    BY <1>3, TaskFact, Zenon DEF IInv, FaultsOK, Control, TypeOK
  <2>2. CASE pc \in {"parse", "copy_directory"}
    <3>1. p \in Upper
      BY <2>1, <2>2 DEF IInv, Control, TypeOK, Upper, Page
    <3>2. vmm[Main][p].flags = KernelFlags /\ frames \in Nat
      BY <2>1, <2>2, Zenon DEF IInv, KernelFrames, TypeOK
    <3>3. vmm[Main][p].frame # 0 /\ vmm[Main][p].frame < frames
      <4>1. CASE pc = "parse"
        BY <2>1, <3>2, <4>1 DEF IInv, KernelFrames, FixedFrame, Page
      <4>2. CASE pc = "copy_directory"
        BY <2>1, <3>2, <4>2 DEF IInv, KernelFrames
      <4> QED BY <2>2, <4>1, <4>2, Zenon
    <3> QED BY <1>1, <2>1, <2>2, <3>1, <3>2, <3>3, FlagsFact, Zenon
  <2>3. CASE pc = "copy"
    <3>1. Allocated(Main, new, page) /\ new \in User
      BY <2>3, Zenon DEF IInv, UserMapped, Kept, Control, Loading
    <3>2. page \in UserPages /\ "P" \in vmm[Main][page].flags
      BY <3>1, Layout, FlagsFact DEF Allocated
    <3>3. vmm[Main][p].frame > 0 /\ vmm[Main][p].frame < frames
      BY <2>1, <3>1, Zenon DEF Allocated
    <3> QED BY <1>1, <2>1, <2>3, <3>2, <3>3, EntryFact
  <2> QED BY <2>1, <2>2, <2>3, Zenon
<1> QED BY <1>2, <1>3, Zenon

\* The part of FaultsOK that is about one task.
FaultOK(t) ==
    fault[t] # NoFault =>
        /\ fault[t].at # "none"
        /\ IF pc = "run" THEN t \in User ELSE t = Main /\ pc \in {"parse", "copy_directory", "copy"}
        /\ fault[t].at = "entry" => IF pc = "run" THEN cr2 \in UserPages ELSE cr2 = page
        /\ fault[t].at \in {"dir", "table"} =>
            /\ IF pc = "run" THEN fault[t].page \in UserPages ELSE fault[t].page = page
            /\ fault[t].entry = vmm[Owner(t)][fault[t].page] /\ fault[t].entry # NoAlloc
            /\ fault[t].err_code = {}

LEMMA OtherFaults ==
    ASSUME IInv, UNCHANGED <<vmm, pc, page, cr2>>, NEW t \in Task, fault'[t] = fault[t]
    PROVE  FaultOK(t)'
<1>1. FaultOK(t)
  BY Zenon DEF IInv, FaultsOK, FaultOK
<1> QED BY <1>1, Zenon DEF FaultOK

LEMMA HandlerInv ==
    ASSUME IInv, page_fault_handler, pc' # "panic"
    PROVE  IInv'
<1> DEFINE alloc == vmm[Owner(current)][cr2]
           f == [page |-> cr2, err_code |-> fault[current].err_code,
                 entry |-> alloc, at |-> "dir"]
<1>1. /\ pc # "panic" /\ fault[current].at = "entry"
      /\ "P" \notin fault[current].err_code /\ alloc # NoAlloc
      /\ UNCHANGED <<dir, tables, vmm, tlb, cr2, current, hit>>
      /\ UNCHANGED <<pc, new, page, todo, brk, stack, dirpage>>
      /\ fault' = [fault EXCEPT ![current] =
                            [page |-> cr2, err_code |-> fault[current].err_code,
                             entry |-> Entry(FaultFrame(alloc), alloc.flags), at |-> "dir"]]
      /\ frames' = IF FaultFrame(alloc) = frames THEN frames + 1 ELSE frames
  BY Zenon DEF page_fault_handler
<1>2. /\ cr2 \in Page /\ current \in Task /\ fault[current] # NoFault /\ frames \in Nat
      /\ fault[current].err_code \in SUBSET {"P"}
  <2>1. cr2 \in Page /\ current \in Task /\ frames \in Nat /\ fault[current] \in Faults
    BY Zenon DEF IInv, TypeOK
  <2> QED BY <1>1, <2>1, FaultFact, Zenon DEF Faults
<1>3. /\ FaultOK(current)
      /\ (fault[current].err_code = {} => cr2 \notin DOMAIN tlb)
  BY <1>1, <1>2, Zenon DEF IInv, FaultsOK, FaultOK
<1>4. IF pc = "run" THEN cr2 \in UserPages ELSE cr2 = page
  BY <1>1, <1>2, <1>3, Zenon DEF FaultOK
<1>5. /\ alloc \in Entries /\ alloc.frame # 0 /\ alloc.frame < frames
  BY <1>1, <1>2, <1>4, HandledAlloc, Zenon
<1>6. frames' = frames /\ Entry(FaultFrame(alloc), alloc.flags) = alloc
  BY <1>1, <1>2, <1>5, EntryFact DEF FaultFrame
<1>7. /\ f \in Faults /\ f.page = cr2 /\ f.err_code = fault[current].err_code
      /\ f.entry = alloc /\ f.at = "dir"
  BY <1>2, <1>5, FaultFact, Zenon
<1>8. fault[current].err_code = {}
  BY <1>1, <1>2, Zenon
<1>9. fault' = [fault EXCEPT ![current] = f]
  BY <1>1, <1>6, Zenon
<1> HIDE DEF f
<1>10. /\ fault' \in [Task -> Faults] /\ fault'[current] = f
       /\ \A t \in Task \ {current} : fault'[t] = fault[t]
  BY <1>2, <1>7, <1>9, FaultSet, Zenon DEF IInv, TypeOK
<1>11. TypeOK'
  BY <1>1, <1>6, <1>10, Zenon DEF IInv, TypeOK
<1>12. Control'
  BY <1>1, Zenon DEF IInv, Control
<1>13. KernelMapped'
  BY <1>1, SameMapped, Zenon DEF IInv
<1>14. KernelFrames'
  BY <1>1, <1>6, SameFrames, Zenon DEF IInv
<1>15. UserMapped'
  BY <1>1, <1>6, SameUser, Zenon DEF IInv
<1>16. FaultsOK'
  <2>1. FaultOK(current)'
    BY <1>1, <1>2, <1>3, <1>4, <1>7, <1>8, <1>10 DEF FaultOK
  <2>2. \A t \in Task \ {current} : FaultOK(t)'
    BY <1>1, <1>10, OtherFaults, Zenon
  <2>3. cr2 \notin DOMAIN tlb
    BY <1>3, <1>8, Zenon
  <2> QED BY <1>1, <1>7, <1>10, <2>1, <2>2, <2>3 DEF FaultsOK, FaultOK
<1>17. TlbOK'
  BY <1>1, Zenon DEF IInv, TlbOK, TlbCoherent, Present, Explained
<1>18. PrivatePagesOwn'
  BY <1>1, Zenon DEF IInv, PrivatePagesOwn
<1>19. ProtectionFaultsExplained'
  BY <1>7, <1>8, <1>10, TaskFact DEF IInv, ProtectionFaultsExplained
<1> QED BY <1>11, <1>12, <1>13, <1>14, <1>15, <1>16, <1>17, <1>18, <1>19, Zenon DEF IInv

LEMMA FaultDirInv ==
    ASSUME IInv, fault_dir
    PROVE  IInv'
<1> DEFINE p == fault[current].page
           o == Owner(current)
           x == fault[current].entry.flags
           f == [page |-> p, err_code |-> fault[current].err_code,
                 entry |-> fault[current].entry, at |-> "table"]
<1>1. /\ pc # "panic" /\ fault[current].at = "dir"
      /\ dir' = [dir EXCEPT ![o][Region(p)] = x]
      /\ fault' = [fault EXCEPT ![current].at = "table"]
      /\ UNCHANGED <<cr2, tables, vmm, tlb, current, frames, hit>>
      /\ UNCHANGED <<pc, new, page, todo, brk, stack, dirpage>>
  BY Zenon DEF fault_dir, kmain
<1>2. /\ current \in Task /\ fault[current] # NoFault /\ fault[current] \in Faults /\ page \in Page
  BY <1>1, FaultFact DEF IInv, TypeOK
<1>3. FaultOK(current) /\ p \notin DOMAIN tlb
  BY <1>1, <1>2, Zenon DEF IInv, FaultsOK, FaultOK
<1>4. /\ IF pc = "run" THEN p \in UserPages ELSE p = page
      /\ fault[current].entry = vmm[o][p] /\ vmm[o][p] # NoAlloc
      /\ fault[current].err_code = {} /\ p \in Page
  BY <1>1, <1>2, <1>3, Layout, Zenon DEF FaultOK
<1>5. /\ "P" \in x /\ fault[current].entry \in Entries
      /\ \/ pc = "run" /\ current \in User /\ p \in Pages(current) /\ x = UserFlags(current, p)
         \/ pc \in {"parse", "copy_directory"} /\ current = Main /\ p = page /\ p \in Upper
         \/ pc = "copy" /\ current = Main /\ p = page /\ p \in UserPages
  BY <1>1, <1>2, <1>4, HandledAlloc, Zenon
<1>7. fault' = [fault EXCEPT ![current] = f]
  <2>1. \A g \in Faults : [g EXCEPT !.at = "table"] =
          [page |-> g.page, err_code |-> g.err_code, entry |-> g.entry, at |-> "table"]
    BY DEF Faults
  <2>2. fault' = [fault EXCEPT ![current] = [fault[current] EXCEPT !.at = "table"]]
    BY <1>1, Zenon
  <2> QED BY <1>2, <2>1, <2>2, Zenon
<1>8. /\ f \in Faults /\ f.page = p /\ f.err_code = fault[current].err_code
      /\ f.entry = fault[current].entry /\ f.at = "table"
  BY <1>4, <1>5, FaultFact, Zenon
<1>9. o \in Owners /\ Region(p) \in Regions /\ x \in SUBSET Flags
  BY <1>2, <1>4, <1>5, TaskFact, RegionFact, EntryFact, Zenon
<1>10. (current \in User => o = current) /\ (current = Main => o = Main)
  BY <1>2, TaskFact, Zenon
<1> HIDE DEF f, p, o, x
<1>11. /\ fault' \in [Task -> Faults] /\ fault'[current] = f
       /\ \A t \in Task \ {current} : fault'[t] = fault[t]
  BY <1>2, <1>7, <1>8, FaultSet, Zenon DEF IInv, TypeOK
<1>12. /\ dir' \in [Owners -> [Regions -> SUBSET Flags]]
       /\ \A a \in Owners, b \in Regions :
            dir'[a][b] = IF a = o /\ b = Region(p) THEN x ELSE dir[a][b]
  BY <1>1, <1>9, DirSet DEF IInv, TypeOK
<1>13. TypeOK'
  BY <1>1, <1>11, <1>12, Zenon DEF IInv, TypeOK
<1>14. Control'
  BY <1>1, Zenon DEF IInv, Control
<1>15. \A a \in Owners, b \in Regions : "P" \in dir[a][b] => "P" \in dir'[a][b]
  BY <1>5, <1>12, Zenon
<1>16. KernelSteady
  BY <1>1, <1>15, Layout, RegionFact, TaskFact, Zenon DEF KernelSteady
<1>17. KernelMapped'
  BY <1>1, <1>5, <1>16, MappedKept, Zenon DEF IInv, KernelMapped
<1>18. KernelFrames'
  BY <1>1, SameFrames, Zenon DEF IInv
<1>19. UserMapped'
  <2>1. ASSUME pc # "run", NEW q \in UserPages
        PROVE  dir'[Main][Region(q)] = {} \/ (Kept /\ Region(q) = Region(page))
    <3>1. Region(q) \in Regions /\ Main \in Owners
      BY RegionFact, Layout, TaskFact, Zenon
    <3>2. dir[Main][Region(q)] = {} \/ (Kept /\ Region(q) = Region(page))
      BY <2>1, Zenon DEF IInv, UserMapped
    <3>3. CASE pc = "copy"
      BY <1>5, <1>12, <3>1, <3>2, <3>3, Zenon DEF Kept
    <3>4. CASE p \in Upper
      <4>1. Region(q) # Region(p)
        BY <3>4, Layout, Zenon DEF KernelArea
      <4> QED BY <1>12, <3>1, <3>2, <4>1, Zenon
    <3> QED BY <1>5, <2>1, <3>3, <3>4, Zenon
  <2>2. ASSUME NEW u \in User, NEW q \in UserPages
        PROVE  \/ dir'[u][Region(q)] = {}
               \/ pc = "run" /\ \E r \in Pages(u) :
                    Region(r) = Region(q) /\ dir'[u][Region(q)] = UserFlags(u, r)
    <3>1. Region(q) \in Regions /\ u \in Owners /\ u # Main
      BY RegionFact, Layout, TaskFact, Zenon
    <3>2. \/ dir[u][Region(q)] = {}
          \/ pc = "run" /\ \E r \in Pages(u) :
               Region(r) = Region(q) /\ dir[u][Region(q)] = UserFlags(u, r)
      BY Zenon DEF IInv, UserMapped
    <3>3. CASE u = o /\ Region(q) = Region(p)
      <4>1. dir'[u][Region(q)] = x /\ pc = "run" /\ u = current
        BY <1>5, <1>10, <1>12, <3>1, <3>3, Zenon
      <4>2. p \in Pages(u) /\ x = UserFlags(u, p)
        BY <1>5, <4>1, TaskFact, Zenon
      <4> QED BY <3>3, <4>1, <4>2, Zenon
    <3>4. CASE ~ (u = o /\ Region(q) = Region(p))
      BY <1>12, <3>1, <3>2, <3>4, Zenon
    <3> QED BY <3>3, <3>4, Zenon
  <2>3. /\ \A q \in UserPages : vmm'[Main][q] = NoAlloc \/ (Kept' /\ q = page')
        /\ Kept' => Allocated(Main, new, page)'
        /\ \A u \in User : \A q \in UserPages : vmm'[u][q] = NoAlloc \/ Allocated(u, u, q)'
    BY <1>1, Zenon DEF IInv, UserMapped, Kept, Allocated
  <2>4. \A q \in UserPages :
          \/ tables'[q] = NoEntry
          \/ Kept' /\ q = page' /\ tables'[q] = vmm'[Main][q]
          \/ pc' = "run" /\ \E v \in User : tables'[q] = vmm'[v][q] /\ vmm'[v][q] # NoAlloc
    BY <1>1, Zenon DEF IInv, UserMapped, Kept
  <2>5. Kept' = Kept
    BY <1>1, Zenon DEF Kept
  <2> QED BY <1>1, <2>1, <2>2, <2>3, <2>4, <2>5, Zenon DEF UserMapped
<1>20. FaultsOK'
  <2>1. FaultOK(current)'
    BY <1>1, <1>2, <1>3, <1>4, <1>8, <1>11, Zenon DEF FaultOK, p, o
  <2>2. \A t \in Task \ {current} : FaultOK(t)'
    BY <1>1, <1>11, OtherFaults, Zenon
  <2> QED BY <1>1, <1>3, <1>8, <1>11, <2>1, <2>2, ZenonT(30) DEF FaultsOK, FaultOK
<1>21. TlbOK'
  <2>1. \A q \in DOMAIN tlb : Region(q) \in Regions
    BY RegionFact, Zenon DEF IInv, TypeOK
  <2>2. TlbCoherent'
    BY <1>1, <1>2, <1>15, <2>1, TaskFact, CoherentKept, Zenon DEF IInv, TlbOK
  <2> QED BY <1>1, <2>2, Zenon DEF IInv, TlbOK, Explained
<1>22. PrivatePagesOwn'
  BY <1>1, Zenon DEF IInv, PrivatePagesOwn
<1>23. ProtectionFaultsExplained'
  BY <1>4, <1>8, <1>11, TaskFact DEF IInv, ProtectionFaultsExplained
<1> QED BY <1>13, <1>14, <1>17, <1>18, <1>19, <1>20, <1>21, <1>22, <1>23, Zenon DEF IInv

LEMMA FaultTableInv ==
    ASSUME IInv, fault_table
    PROVE  IInv'
<1> DEFINE p == fault[current].page
           e == fault[current].entry
<1>1. /\ pc # "panic" /\ fault[current].at = "table"
      /\ tables' = [tables EXCEPT ![p] = e]
      /\ fault' = [fault EXCEPT ![current] = NoFault]
      /\ UNCHANGED <<cr2, dir, vmm, tlb, current, frames, hit>>
      /\ UNCHANGED <<pc, new, page, todo, brk, stack, dirpage>>
  BY Zenon DEF fault_table, kmain
<1>2. current \in Task /\ fault[current] # NoFault /\ page \in Page
  BY <1>1, FaultFact, Zenon DEF IInv, TypeOK
<1>3. FaultOK(current) /\ p \notin DOMAIN tlb
  BY <1>1, <1>2, Zenon DEF IInv, FaultsOK, FaultOK
<1>4. /\ IF pc = "run" THEN p \in UserPages ELSE p = page
      /\ e = vmm[Owner(current)][p] /\ vmm[Owner(current)][p] # NoAlloc /\ p \in Page
  BY <1>1, <1>2, <1>3, Layout, Zenon DEF FaultOK
<1>5. /\ e \in Entries /\ e.frame # 0 /\ e.frame < frames
      /\ \/ pc = "run" /\ current \in User /\ p \in UserPages /\ e = vmm[current][p] /\ e # NoAlloc
         \/ pc \in {"parse", "copy_directory"} /\ p = page /\ p \in Upper /\ e = vmm[Main][page]
         \/ pc = "copy" /\ p = page /\ p \in UserPages /\ e = vmm[Main][page]
  <2>1. (current \in User => Owner(current) = current) /\ (current = Main => Owner(current) = Main)
    BY <1>2, TaskFact, Zenon
  <2> QED BY <1>1, <1>2, <1>4, <2>1, HandledAlloc, Zenon
<1> HIDE DEF p, e
<1>6. /\ tables' \in [Page -> Entries] /\ tables'[p] = e
      /\ \A q \in Page \ {p} : tables'[q] = tables[q]
  BY <1>1, <1>4, <1>5, TablesSet DEF IInv, TypeOK
<1>7. /\ fault' \in [Task -> Faults] /\ fault'[current] = NoFault
      /\ \A t \in Task \ {current} : fault'[t] = fault[t]
  BY <1>1, <1>2, FaultFact, FaultSet, Zenon DEF IInv, TypeOK
<1>8. TypeOK'
  BY <1>1, <1>6, <1>7, Zenon DEF IInv, TypeOK
<1>9. Control'
  BY <1>1, <1>5, Zenon DEF IInv, Control
<1>10. KernelMapped'
  <2>1. p \in KernelArea => tables[p] \in {NoEntry, e}
    BY <1>5, Layout, Zenon DEF IInv, KernelFrames
  <2>2. KernelSteady
    BY <1>1, <1>6, <2>1, Layout, EntryFact DEF KernelSteady
  <2> QED BY <1>1, <1>5, <2>2, MappedKept, Zenon DEF IInv, KernelMapped
<1>11. KernelFrames'
  <2>1. CASE p \in UserPages
    <3>1. \A q \in Stacks : tables'[q] = tables[q]
      BY <1>6, <2>1, Layout, Zenon
    <3>2. \A q \in Upper : tables'[q] = tables[q]
      BY <3>1, Zenon DEF Stacks
    <3>3. pc \in {"run", "copy"}
      BY <1>5, <2>1, Layout, Zenon DEF KernelArea
    <3> QED BY <1>1, <3>1, <3>2, <3>3 DEF IInv, KernelFrames
  <2>2. CASE pc \in {"parse", "copy_directory"} /\ p = page /\ p \in Upper /\ e = vmm[Main][page]
    <3>1. \A q \in Stacks \ {p} : tables'[q] = tables[q] /\ tables'[q].frame \in Int
      BY <1>6, Layout, EntryFact, Zenon DEF IInv, TypeOK
    <3>2. frames \in Nat /\ brk \in Nat /\ p \in Nat /\ p < brk /\ e.frame \in Int
      BY <1>4, <1>5, <2>2, EntryFact DEF IInv, TypeOK, Control, Page
    <3>3. \A q \in Stacks : tables'[q].frame > 0 => tables'[q].frame < frames
      BY <1>5, <1>6, <3>1, Zenon DEF IInv, KernelFrames
    <3>4. \A q \in Stacks \ {p} : tables'[q].frame > 0 \/ e.frame > 0 => tables'[q].frame # e.frame
      <4>1. CASE pc = "parse"
        <5>1. e.frame = - 2 - p
          BY <2>2, <4>1, Zenon DEF IInv, KernelFrames, FixedFrame
        <5>2. e.frame < 0
          BY <3>2, <5>1
        <5> QED BY <3>1, <3>2, <5>2
      <4>2. CASE pc = "copy_directory"
        BY <2>2, <3>1, <3>2, <4>2 DEF IInv, KernelFrames
      <4> QED BY <2>2, <4>1, <4>2, Zenon
    <3>5. \A q, r \in Stacks : q # r /\ tables'[q].frame > 0 => tables'[q].frame # tables'[r].frame
      BY <1>6, <3>1, <3>4 DEF IInv, KernelFrames
    <3>6. \A q \in Upper : q >= brk => tables'[q] = NoEntry
      <4>1. \A q \in Upper : q >= brk => q # p /\ q \in Page
        BY <3>2, Layout DEF Upper, KernelArea
      <4> QED BY <1>6, <4>1, Zenon DEF IInv, KernelFrames
    <3>7. pc = "copy_directory" => \A q \in Stacks \ {page} : tables'[q].frame < frames - 1
      BY <2>2, <3>1, Zenon DEF IInv, KernelFrames
    <3> QED BY <1>1, <1>6, <2>2, <3>3, <3>5, <3>6, <3>7 DEF IInv, KernelFrames
  <2> QED BY <1>5, <2>1, <2>2, Zenon
<1>12. UserMapped'
  <2>1. \A q \in UserPages : q # p => tables'[q] = tables[q]
    BY <1>6, Layout, Zenon
  <2>2. \A q \in UserPages :
          \/ tables'[q] = NoEntry
          \/ Kept /\ q = page /\ tables'[q] = vmm[Main][q]
          \/ pc = "run" /\ \E v \in User : tables'[q] = vmm[v][q] /\ vmm[v][q] # NoAlloc
    <3>1. SUFFICES ASSUME NEW q \in UserPages
                   PROVE  \/ tables'[q] = NoEntry
                          \/ Kept /\ q = page /\ tables'[q] = vmm[Main][q]
                          \/ pc = "run" /\ \E v \in User : tables'[q] = vmm[v][q] /\ vmm[v][q] # NoAlloc
      BY Zenon
    <3>2. CASE q = p
      BY <1>5, <1>6, <3>2, Layout, Zenon DEF Kept, KernelArea
    <3>3. CASE q # p
      BY <2>1, <3>3, Zenon DEF IInv, UserMapped
    <3> QED BY <3>2, <3>3, Zenon
  <2>3. Kept' = Kept
    BY <1>1, Zenon DEF Kept
  <2> QED BY <1>1, <2>2, <2>3 DEF IInv, UserMapped, Allocated
<1>13. FaultsOK'
  <2>1. ASSUME NEW t \in Task, t = current PROVE FaultOK(t)'
    BY <1>7, <2>1, Zenon DEF FaultOK
  <2>2. ASSUME NEW t \in Task, t # current PROVE FaultOK(t)'
    BY <1>1, <1>7, <2>2, OtherFaults, Zenon
  <2>3. \A t \in Task : FaultOK(t)'
    BY <2>1, <2>2, Zenon
  <2>4. fault'[current].at \notin {"entry", "dir", "table"}
    BY <1>7, FaultFact, Zenon
  <2> QED BY <1>1, <2>3, <2>4, Zenon DEF FaultsOK, FaultOK
<1>14. TlbOK'
  <2>1. \A q \in DOMAIN tlb : tables'[q] = tables[q]
    BY <1>3, <1>6, Zenon DEF IInv, TypeOK, p
  <2>2. TlbCoherent'
    BY <1>1, <2>1, CoherentKept, Zenon DEF IInv, TlbOK
  <2> QED BY <1>1, <2>2, Zenon DEF IInv, TlbOK, Explained
<1>15. PrivatePagesOwn'
  BY <1>1, Zenon DEF IInv, PrivatePagesOwn
<1>16. ProtectionFaultsExplained'
  <2>1. ASSUME NEW u \in User, "P" \in fault'[u].err_code
        PROVE  u \in Task \ {current} /\ fault'[u] = fault[u]
    BY <1>7, <2>1, FaultFact, TaskFact
  <2> QED BY <2>1 DEF IInv, ProtectionFaultsExplained
<1> QED BY <1>8, <1>9, <1>10, <1>11, <1>12, <1>13, <1>14, <1>15, <1>16, Zenon DEF IInv
=============================================================================
