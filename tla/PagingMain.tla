----------------------------- MODULE PagingMain -----------------------------
(***************************************************************************)
(* kernel_main keeps the invariant of PagingProofs, and the theorems that  *)
(* follow from it: every task that has been created can be switched to,    *)
(* the TLB has no stale translation, the loader writes to its own frames,  *)
(* a page of one task only shows that task's memory, and a protection      *)
(* fault has one of two reasons.                                           *)
(***************************************************************************)
EXTENDS PagingProofs

(* The steps of kernel_main.                                               *)

LEMMA AtFact ==
    ASSUME IInv, NEW w, w # "run", At(w)
    PROVE  /\ pc = w /\ current = Main /\ new \in Task /\ hit.task = Main
           /\ \A t \in Task : fault[t] = NoFault
BY TaskFact, Zenon DEF IInv, At, Control, FaultsOK

LEMMA KernelRest ==
    ASSUME IInv, NEW w, w # "run", At(w), UNCHANGED <<fault, current>>, hit'.task = Main
    PROVE  FaultsOK' /\ PrivatePagesOwn' /\ ProtectionFaultsExplained'
<1>1. current' = Main /\ \A t \in Task : fault'[t] = NoFault
  BY AtFact, Zenon
<1>2. FaultsOK'
  BY <1>1, FaultFact, TaskFact DEF FaultsOK
<1>3. PrivatePagesOwn'
  BY TaskFact, Zenon DEF PrivatePagesOwn
<1>4. \A u \in User : fault'[u].err_code = {}
  <2>1. NoFault.err_code = {}
    BY FaultFact
  <2> QED BY <1>1, <2>1, TaskFact, Zenon
<1>5. ProtectionFaultsExplained'
  BY <1>4, Zenon DEF ProtectionFaultsExplained
<1> QED BY <1>2, <1>3, <1>5, Zenon

LEMMA KernelTlb ==
    ASSUME IInv, NEW w, w \notin {"run", "unmap"}, At(w), UNCHANGED <<tlb, current>>, KernelSteady
    PROVE  TlbOK'
<1>1. pc = w /\ current = Main /\ Owner(current) = Main /\ current \notin User
  BY AtFact, TaskFact, Zenon
<1>2. \A p \in DOMAIN tlb : p \in KernelArea
  BY <1>1, Zenon DEF IInv, TlbOK
<1>3. \A p \in DOMAIN tlb : Present(Main, p) /\ tlb[p].frame = tables[p].frame
  BY <1>1, Zenon DEF IInv, TlbOK, TlbCoherent
<1>4. TlbCoherent'
  BY <1>1, <1>2, <1>3, Zenon DEF TlbCoherent, Present, KernelSteady
<1> QED BY <1>1, <1>2, <1>4, Zenon DEF IInv, TlbOK

LEMMA KernelTlbAccess ==
    ASSUME IInv, NEW w, w \notin {"run", "unmap"}, At(w), NEW write, Access(page, FALSE, write),
           UNCHANGED <<tables, current>>, dir'[Main] = dir[Main],
           page \in KernelArea \/ (pc' = "unmap" /\ page' = page)
    PROVE  TlbOK'
<1>1. pc = w /\ current = Main /\ Owner(current) = Main /\ current \notin User /\ page \in Page
  BY AtFact, TaskFact, Zenon DEF IInv, TypeOK
<1>2. /\ DOMAIN tlb' = DOMAIN tlb \cup {page}
      /\ \A q \in DOMAIN tlb' : "P" \in tlb'[q].flags
  BY <1>1, AccessFact, Zenon
<1>3. \A p \in DOMAIN tlb : p \in KernelArea
  BY <1>1, Zenon DEF IInv, TlbOK
<1>4. TlbCoherent'
  BY <1>1, AccessCoherent, Zenon
<1> QED BY <1>1, <1>2, <1>3, <1>4, Zenon DEF TlbOK

\* Steps that do not touch the pages of programs.
LEMMA UserStep ==
    ASSUME IInv, pc \notin {"copy", "unmap", "run"}, pc' \notin {"copy", "unmap"},
           \A p \in UserPages : tables'[p] = tables[p] /\ vmm'[Main][p] = vmm[Main][p],
           \A p \in UserPages : dir'[Main][Region(p)] = dir[Main][Region(p)],
           \A u \in User : dir'[u] = dir[u] \/ dir'[u] = dir[Main],
           \A u \in User, p \in UserPages :
                vmm'[u][p] \in {vmm[u][p], NoAlloc} \/ Allocated(u, u, p)',
           frames' \in Nat, frames' >= frames
    PROVE  UserMapped'
<1>1. ~ Kept /\ ~ Kept'
  BY Zenon DEF Kept
<1>2. \A p \in UserPages : vmm'[Main][p] = NoAlloc /\ tables'[p] = NoEntry
  BY <1>1, Zenon DEF IInv, UserMapped
<1>3. \A p \in UserPages : dir'[Main][Region(p)] = {}
  BY <1>1, Zenon DEF IInv, UserMapped
<1>4. \A u \in User, p \in UserPages : dir'[u][Region(p)] = {}
  BY <1>1, <1>3, Zenon DEF IInv, UserMapped
<1>5. ASSUME NEW u \in User, NEW p \in UserPages
      PROVE  vmm'[u][p] = NoAlloc \/ Allocated(u, u, p)'
  <2>1. CASE vmm'[u][p] = vmm[u][p] /\ vmm[u][p] # NoAlloc
    <3>1. Allocated(u, u, p)
      BY <2>1, Zenon DEF IInv, UserMapped
    <3>2. vmm[u][p].frame \in Int /\ frames \in Nat
      BY Layout, TaskFact, EntryFact DEF IInv, TypeOK
    <3> QED BY <2>1, <3>1, <3>2 DEF Allocated
  <2> QED BY <2>1, Zenon
<1> QED BY <1>1, <1>2, <1>3, <1>4, <1>5, Zenon DEF UserMapped

LEMMA WithRegionsFact ==
    ASSUME NEW d \in [Regions -> SUBSET Flags], NEW S, S \subseteq Page
    PROVE  /\ WithRegions(d, S) \in [Regions -> SUBSET Flags]
           /\ \A r \in Regions : "P" \in d[r] => "P" \in WithRegions(d, S)[r]
           /\ \A p \in S : WithRegions(d, S)[Region(p)] = KernelFlags
           /\ \A r \in Regions : (\A p \in S : Region(p) # r) => WithRegions(d, S)[r] = d[r]
BY RegionFact, FlagsFact, Zenon DEF WithRegions

LEMMA InitPagingInv ==
    ASSUME IInv, init_paging
    PROVE  IInv'
<1>1. /\ At("init_paging") /\ pc' = "stack"
      /\ dir' = [dir EXCEPT ![Main] = WithRegions(dir[Main], Image)]
      /\ tables' = WithPages(tables, [p \in Image |-> Entry(FixedFrame(p), KernelFlags)])
      /\ UNCHANGED <<cr2, vmm, tlb, current, fault, frames, hit>>
      /\ UNCHANGED <<new, page, todo, brk, stack, dirpage>>
  BY Zenon DEF init_paging
<1>2. /\ pc = "init_paging" /\ current = Main /\ hit.task = Main /\ new = Main
      /\ \A p \in Page : tables[p] = NoEntry
  BY <1>1, AtFact, Zenon DEF IInv, Control
<1> DEFINE d == WithRegions(dir[Main], Image)
           e == [p \in Image |-> Entry(FixedFrame(p), KernelFlags)]
<1>3. /\ d \in [Regions -> SUBSET Flags]
      /\ \A r \in Regions : "P" \in dir[Main][r] => "P" \in d[r]
      /\ \A p \in Image : d[Region(p)] = KernelFlags
      /\ \A r \in Regions : (\A p \in Image : Region(p) # r) => d[r] = dir[Main][r]
  <2>1. dir[Main] \in [Regions -> SUBSET Flags] /\ Image \subseteq Page
    BY Layout, TaskFact, Zenon DEF IInv, TypeOK
  <2> QED BY <2>1, WithRegionsFact, Zenon
<1> HIDE DEF d
<1>4. /\ dir' \in [Owners -> [Regions -> SUBSET Flags]]
      /\ dir'[Main] = d /\ \A a \in Owners \ {Main} : dir'[a] = dir[a]
  BY <1>1, <1>3, TaskFact, DirReplace, Zenon DEF IInv, TypeOK, d
<1>5. /\ tables' \in [Page -> Entries]
      /\ \A p \in Image : tables'[p].frame = FixedFrame(p) /\ tables'[p].flags = KernelFlags
      /\ \A p \in Page \ Image : tables'[p] = NoEntry
  <2>1. DOMAIN e = Image /\ Image \subseteq Page
    BY Layout, Zenon
  <2>2. \A p \in Image : FixedFrame(p) \in Int
    BY <2>1 DEF FixedFrame, Page
  <2>3. \A p \in Image : e[p] \in Entries /\ e[p].frame = FixedFrame(p) /\ e[p].flags = KernelFlags
    BY <2>2, EntryFact, FlagsFact, Zenon
  <2> HIDE DEF e
  <2>4. tables' = WithPages(tables, e) /\ tables \in [Page -> Entries]
    BY <1>1, Zenon DEF e, IInv, TypeOK
  <2>5. /\ WithPages(tables, e) \in [Page -> Entries]
        /\ \A p \in DOMAIN e : WithPages(tables, e)[p] = e[p]
        /\ \A p \in Page \ DOMAIN e : WithPages(tables, e)[p] = tables[p]
    BY <2>1, <2>3, <2>4, WithPagesFact
  <2> QED BY <1>2, <2>1, <2>3, <2>4, <2>5, Zenon
<1>6. KernelSteady
  <2>1. \A p \in KernelArea : "P" \notin tables[p].flags
    BY <1>2, Layout, EntryFact, Zenon
  <2>2. \A p \in KernelArea : Region(p) \in Regions
    BY Layout, RegionFact, Zenon
  <2> QED BY <1>3, <1>4, <2>1, <2>2, TaskFact, Zenon DEF KernelSteady
<1>7. TypeOK'
  BY <1>1, <1>4, <1>5, Zenon DEF IInv, TypeOK, Creating
<1>8. Control'
  BY <1>1, <1>2, TaskFact, Zenon DEF IInv, Control, Loading
<1>9. KernelMapped'
  <2>1. \A p \in Image : Present(Main, p)' /\ tables'[p].frame = FixedFrame(p)
    BY <1>3, <1>4, <1>5, FlagsFact, Zenon DEF Present
  <2> QED BY <1>1, <1>6, <2>1, MappedStep, Zenon
<1>10. KernelFrames'
  <2>1. \A p \in Stacks : tables'[p] = NoEntry
    BY <1>5, Layout, Zenon
  <2> QED BY <1>1, <1>2, <2>1, EntryFact DEF Stacks, KernelFrames
<1>11. UserMapped'
  <2>1. \A p \in UserPages : tables'[p] = tables[p]
    BY <1>2, <1>5, Layout, Zenon
  <2>2. \A p \in UserPages : dir'[Main][Region(p)] = dir[Main][Region(p)]
    BY <1>3, <1>4, Layout, RegionFact
  <2>3. frames \in Nat
    BY Zenon DEF IInv, TypeOK
  <2> QED BY <1>1, <1>2, <1>4, <2>1, <2>2, <2>3, TaskFact, UserStep
<1>12. TlbOK'
  BY <1>1, <1>6, KernelTlb, Zenon
<1>13. FaultsOK' /\ PrivatePagesOwn' /\ ProtectionFaultsExplained'
  BY <1>1, <1>2, KernelRest, Zenon
<1> QED BY <1>7, <1>8, <1>9, <1>10, <1>11, <1>12, <1>13, Zenon DEF IInv

LEMMA MapElfInv ==
    ASSUME IInv, map_elf
    PROVE  IInv'
<1>1. /\ At("elf") /\ brk \in Page /\ pc' = "parse"
      /\ vmm' = [vmm EXCEPT ![Main][brk] = Entry(FixedFrame(brk), KernelFlags)]
      /\ page' = brk /\ brk' = brk + 1
      /\ UNCHANGED <<cr2, dir, tables, tlb, current, fault, frames, hit>>
      /\ UNCHANGED <<new, todo, stack, dirpage>>
  BY Zenon DEF map_elf
<1>2. /\ pc = "elf" /\ current = Main /\ hit.task = Main /\ new \in User
      /\ brk \in Nat /\ brk >= FirstPage /\ FirstPage \in Nat /\ brk \in Upper
  BY <1>1, AtFact, PagingAssumption DEF IInv, Control, Loading, TypeOK, Upper, Page
<1>3. /\ Entry(FixedFrame(brk), KernelFlags) \in Entries
      /\ Entry(FixedFrame(brk), KernelFlags).frame = FixedFrame(brk)
      /\ Entry(FixedFrame(brk), KernelFlags).flags = KernelFlags
  <2>1. FixedFrame(brk) \in Int
    BY <1>2 DEF FixedFrame
  <2> QED BY <2>1, EntryFact, FlagsFact, Zenon
<1>4. /\ vmm' \in [Owners -> [Page -> Entries]]
      /\ vmm'[Main][brk].frame = FixedFrame(brk) /\ vmm'[Main][brk].flags = KernelFlags
      /\ \A q \in Page \ {brk} : vmm'[Main][q] = vmm[Main][q]
      /\ \A a \in Owners \ {Main} : vmm'[a] = vmm[a]
  BY <1>1, <1>3, TaskFact, VmmSet DEF IInv, TypeOK
<1>5. TypeOK'
  BY <1>1, <1>2, <1>4 DEF IInv, TypeOK, Loading
<1>6. Control'
  <2>1. page' \in FirstPage .. brk' - 1
    BY <1>1, <1>2
  <2>2. new \in Task
    BY <1>2, TaskFact, Zenon
  <2> QED BY <1>1, <1>2, <2>1, <2>2, Zenon DEF IInv, Control, Loading
<1>7. KernelSteady
  BY <1>1, NothingMapped, Zenon
<1>8. KernelMapped'
  BY <1>1, <1>2, <1>7, MappedKept, Zenon
<1>9. KernelFrames'
  <2>1. tables'[page'] = NoEntry
    BY <1>1, <1>2 DEF IInv, KernelFrames
  <2>2. \A p \in Upper : p \in Int
    BY <1>2 DEF Upper
  <2>3. \A p \in Upper : p >= brk' => tables'[p] = NoEntry
    BY <1>1, <1>2, <2>2 DEF IInv, KernelFrames
  <2> QED BY <1>1, <1>2, <1>4, <2>1, <2>3 DEF IInv, KernelFrames
<1>10. UserMapped'
  <2>1. \A p \in UserPages : vmm'[Main][p] = vmm[Main][p]
    BY <1>2, <1>4, Layout DEF KernelArea
  <2>2. frames \in Nat /\ \A u \in User : vmm'[u] = vmm[u]
    BY <1>4, TaskFact, Zenon DEF IInv, TypeOK
  <2> QED BY <1>1, <1>2, <2>1, <2>2, UserStep
<1>11. TlbOK'
  BY <1>1, <1>7, KernelTlb, Zenon
<1>12. FaultsOK' /\ PrivatePagesOwn' /\ ProtectionFaultsExplained'
  BY <1>1, <1>2, KernelRest, Zenon
<1> QED BY <1>5, <1>6, <1>8, <1>9, <1>10, <1>11, <1>12, Zenon DEF IInv

LEMMA ParseElfInv ==
    ASSUME IInv, parse_elf
    PROVE  IInv'
<1>1. /\ At("parse") /\ Access(page, FALSE, FALSE) /\ pc' = "stack"
      /\ UNCHANGED <<cr2, dir, tables, vmm, current, fault, frames>>
      /\ UNCHANGED <<new, page, todo, brk, stack, dirpage>>
  BY Zenon DEF parse_elf
<1>2. /\ pc = "parse" /\ current = Main /\ new \in User /\ page \in Page
  BY <1>1, AtFact, Zenon DEF IInv, Control, Loading, TypeOK
<1>3. /\ DOMAIN tlb' = DOMAIN tlb \cup {page} /\ hit'.task = Main
      /\ \A q \in DOMAIN tlb' : tlb'[q] \in Entries
  BY <1>1, <1>2, AccessFact, Zenon
<1>4. page \in KernelArea
  BY <1>2 DEF IInv, Control, TypeOK, KernelArea, Upper, Page
<1>5. TypeOK'
  BY <1>1, <1>2, <1>3, Zenon DEF IInv, TypeOK, Creating
<1>6. Control'
  BY <1>1, <1>2, <1>3, TaskFact, Zenon DEF IInv, Control, Loading
<1>7. KernelMapped'
  BY <1>1, <1>2, NothingMapped, MappedKept, Zenon
<1>8. KernelFrames'
  BY <1>1, <1>2, TaskFact, Zenon DEF IInv, KernelFrames
<1>9. UserMapped'
  BY <1>1, <1>2, UserStep DEF IInv, TypeOK
<1>10. TlbOK'
  BY <1>1, <1>4, KernelTlbAccess, Zenon
<1>11. FaultsOK' /\ PrivatePagesOwn' /\ ProtectionFaultsExplained'
  BY <1>1, <1>3, KernelRest, Zenon
<1> QED BY <1>5, <1>6, <1>7, <1>8, <1>9, <1>10, <1>11, Zenon DEF IInv

LEMMA MapDirectoryInv ==
    ASSUME IInv, map_directory
    PROVE  IInv'
<1>1. /\ At("directory") /\ brk \in Page /\ pc' = "copy_directory"
      /\ vmm' = [vmm EXCEPT ![Main][brk] = Entry(frames, KernelFlags)]
      /\ page' = brk /\ brk' = brk + 1 /\ frames' = frames + 1
      /\ UNCHANGED <<cr2, dir, tables, tlb, current, fault, hit>>
      /\ UNCHANGED <<new, todo, stack, dirpage>>
  BY Zenon DEF map_directory
<1>2. /\ pc = "directory" /\ current = Main /\ hit.task = Main /\ new \in User
      /\ brk \in Nat /\ brk >= FirstPage /\ FirstPage \in Nat /\ brk \in Upper
      /\ frames \in Nat /\ frames > 1
  <2>1. pc = "directory" /\ current = Main /\ hit.task = Main
    BY <1>1, AtFact, Zenon
  <2>2. new \in User /\ frames > 1
    BY <2>1, Zenon DEF IInv, Control, Loading, KernelFrames
  <2> QED BY <1>1, <2>1, <2>2, PagingAssumption DEF IInv, TypeOK, Upper, Page
<1>3. /\ Entry(frames, KernelFlags) \in Entries
      /\ Entry(frames, KernelFlags).frame = frames
      /\ Entry(frames, KernelFlags).flags = KernelFlags
  BY <1>2, EntryFact, FlagsFact
<1>4. /\ vmm' \in [Owners -> [Page -> Entries]]
      /\ vmm'[Main][brk].frame = frames /\ vmm'[Main][brk].flags = KernelFlags
      /\ \A q \in Page \ {brk} : vmm'[Main][q] = vmm[Main][q]
      /\ \A a \in Owners \ {Main} : vmm'[a] = vmm[a]
  BY <1>1, <1>3, TaskFact, VmmSet DEF IInv, TypeOK
<1>5. TypeOK'
  BY <1>1, <1>2, <1>4 DEF IInv, TypeOK, Loading
<1>6. Control'
  <2>1. page' \in FirstPage .. brk' - 1
    BY <1>1, <1>2
  <2>2. new \in Task
    BY <1>2, TaskFact, Zenon
  <2> QED BY <1>1, <1>2, <2>1, <2>2, Zenon DEF IInv, Control, Loading
<1>7. KernelSteady
  BY <1>1, NothingMapped, Zenon
<1>8. KernelMapped'
  <2>1. stack[new] # None
    BY <1>2, Zenon DEF IInv, KernelMapped
  <2> QED BY <1>1, <1>2, <1>7, <2>1, MappedKept, Zenon
<1>9. KernelFrames'
  <2>1. tables'[page'] = NoEntry
    BY <1>1, <1>2 DEF IInv, KernelFrames
  <2>2. \A p \in Upper : p \in Int
    BY <1>2 DEF Upper
  <2>3. \A p \in Upper : p >= brk' => tables'[p] = NoEntry
    BY <1>1, <1>2, <2>2 DEF IInv, KernelFrames
  <2>4. \A p \in Stacks : tables[p].frame \in Int
    BY Layout, EntryFact, Zenon DEF IInv, TypeOK
  <2>5. \A p \in Stacks : tables[p].frame < frames
    BY <1>2, <2>4 DEF IInv, KernelFrames
  <2>6. \A p, q \in Stacks : p # q /\ tables[p].frame > 0 => tables[p].frame # tables[q].frame
    BY Zenon DEF IInv, KernelFrames
  <2> QED BY <1>1, <1>2, <1>4, <2>1, <2>3, <2>4, <2>5, <2>6 DEF KernelFrames
<1>10. UserMapped'
  <2>1. \A p \in UserPages : vmm'[Main][p] = vmm[Main][p]
    BY <1>2, <1>4, Layout DEF KernelArea
  <2>2. \A u \in User : vmm'[u] = vmm[u]
    BY <1>4, TaskFact, Zenon DEF IInv, TypeOK
  <2> QED BY <1>1, <1>2, <2>1, <2>2, UserStep
<1>11. TlbOK'
  BY <1>1, <1>7, KernelTlb, Zenon
<1>12. FaultsOK' /\ PrivatePagesOwn' /\ ProtectionFaultsExplained'
  BY <1>1, <1>2, KernelRest, Zenon
<1> QED BY <1>5, <1>6, <1>8, <1>9, <1>10, <1>11, <1>12, Zenon DEF IInv

LEMMA CopyDirectoryInv ==
    ASSUME IInv, copy_directory
    PROVE  IInv'
<1>1. /\ At("copy_directory") /\ Access(page, FALSE, TRUE) /\ pc' = "push"
      /\ dir' = [dir EXCEPT ![new] = dir[Main]]
      /\ dirpage' = [dirpage EXCEPT ![new] = page]
      /\ page' = stack[new] + StackPages - 1
      /\ UNCHANGED <<cr2, tables, vmm, current, fault, frames>>
      /\ UNCHANGED <<new, todo, brk, stack>>
  BY Zenon DEF copy_directory, CopiedDirectory
<1>2. /\ pc = "copy_directory" /\ current = Main /\ new \in User /\ page \in Page
      /\ new \in Task /\ new \in Owners /\ new # Main /\ Owner(current) = Main
  BY <1>1, AtFact, TaskFact, Zenon DEF IInv, Control, Loading, TypeOK
<1>3. /\ DOMAIN tlb' = DOMAIN tlb \cup {page} /\ hit'.task = Main /\ Present(Main, page)
      /\ \A q \in DOMAIN tlb' : tlb'[q] \in Entries
  BY <1>1, <1>2, AccessFact, Zenon
<1>4. page \in Upper /\ page \in Stacks /\ page \in KernelArea
  BY <1>2 DEF IInv, Control, TypeOK, KernelArea, Stacks, Upper, Page
<1>5. /\ dir' \in [Owners -> [Regions -> SUBSET Flags]]
      /\ dir'[new] = dir[Main] /\ \A a \in Owners \ {new} : dir'[a] = dir[a]
  BY <1>1, <1>2, TaskFact, DirReplace, Zenon DEF IInv, TypeOK
<1>6. /\ dirpage' \in [User -> Page \cup {None}] /\ dirpage'[new] = page
      /\ \A u \in User \ {new} : dirpage'[u] = dirpage[u]
  BY <1>1, <1>2, Zenon DEF IInv, TypeOK
<1>7. dir'[Main] = dir[Main]
  BY <1>2, <1>5, TaskFact, Zenon
<1>8. /\ stack[new] # None /\ StackMapped(stack[new]) \subseteq Stacks
      /\ stack[new] + StackPages - 1 \in Page /\ stack[new] + StackPages - 1 \in Stacks
      /\ \A p \in StackMapped(stack[new]) : Present(Main, p) /\ tables[p].frame > 0
  <2>1. stack[new] # None
    BY <1>2, Zenon DEF IInv, KernelMapped
  <2>2. stack[new] \in Nat /\ StackPages \in Nat \ {0, 1}
    BY <1>2, <2>1, PagingAssumption DEF IInv, TypeOK, Page
  <2>3. stack[new] + StackPages - 1 \in StackMapped(stack[new])
    BY <2>2 DEF StackMapped
  <2> QED BY <1>2, <2>1, <2>3, Zenon DEF IInv, KernelMapped
<1>9. dirpage[new] = None
  <2>1. ~ (new > new)
    BY <1>2, TaskFact
  <2> QED BY <1>2, <2>1, Zenon DEF IInv, Control
<1>10. TypeOK'
  BY <1>1, <1>2, <1>3, <1>5, <1>6, <1>8, Zenon DEF IInv, TypeOK, Creating
<1>11. Control'
  <2>1. \A u \in User : dirpage'[u] # None => new > u \/ new = u
    BY <1>2, <1>6, Zenon DEF IInv, Control
  <2>2. page' \in Stacks
    BY <1>1, <1>8, Zenon
  <2> QED BY <1>1, <1>2, <1>3, <2>1, <2>2, Zenon DEF Control, Loading
<1>12. KernelSteady
  BY <1>1, <1>5, <1>7, <1>9, TaskFact, Zenon DEF KernelSteady
<1>13. KernelMapped'
  <2>1. DirThere(new)'
    <3>1. \A p \in KernelArea : Present(Main, p) => "P" \in dir'[new][Region(p)]
      BY <1>5, Zenon DEF Present
    <3>2. tables[page].frame > 0
      <4>1. tables[page] # NoEntry
        BY <1>3, EntryFact, Zenon DEF Present
      <4> QED BY <1>2, <4>1, Zenon DEF IInv, KernelFrames
    <3>3. KernelPages(new)' = Image \cup StackMapped(stack[new]) \cup {page}
      BY <1>1, <1>2, <1>6, Zenon DEF KernelPages
    <3>4. \A p \in Image : Present(Main, p)
      BY <1>2, Zenon DEF IInv, KernelMapped
    <3>5. \A p \in Image \cup StackMapped(stack[new]) \cup {page} : Present(Main, p) /\ p \in KernelArea
      BY <1>3, <1>4, <1>8, <3>4, Layout, Zenon
    <3>6. \A p \in KernelPages(new)' : "P" \in dir'[new][Region(p)]
      BY <3>1, <3>3, <3>5, Zenon
    <3>7. dirpage'[new'] = page /\ Present(Main, dirpage[new])'
      BY <1>1, <1>3, <1>6, <1>7, Zenon DEF Present
    <3>8. (IsCreated(new) => \A p \in KernelPages(new) : "P" \in dir[new][Region(p)])'
      BY <1>1, <3>6, Zenon
    <3> QED BY <1>1, <1>4, <3>2, <3>7, <3>8, Zenon DEF DirThere
  <2>2. page # None
    BY <1>2 DEF None, Page
  <2> QED BY <1>1, <1>2, <1>6, <1>8, <1>9, <1>12, <2>1, <2>2, MappedStep, Zenon
<1>14. KernelFrames'
  BY <1>1, <1>2, Zenon DEF IInv, KernelFrames
<1>15. UserMapped'
  <2>1. \A u \in User : dir'[u] = dir[u] \/ dir'[u] = dir[Main]
    BY <1>5, TaskFact, Zenon
  <2> QED BY <1>1, <1>2, <1>7, <2>1, UserStep DEF IInv, TypeOK
<1>16. TlbOK'
  BY <1>1, <1>4, <1>7, KernelTlbAccess, Zenon
<1>17. FaultsOK' /\ PrivatePagesOwn' /\ ProtectionFaultsExplained'
  BY <1>1, <1>3, KernelRest, Zenon
<1> QED BY <1>10, <1>11, <1>13, <1>14, <1>15, <1>16, <1>17, Zenon DEF IInv

LEMMA KernelStackInv ==
    ASSUME IInv, alloc_kernel_stack
    PROVE  IInv'
<1> DEFINE b == IF new = Main THEN LowPage ELSE brk
           A == b .. b + StackPages - 1
           S == StackMapped(b)
           ea == [p \in A |-> Entry(StackFrame(b, b), KernelFlags)]
           es == [p \in S |-> Entry(StackFrame(p, b), KernelFlags)]
           d == WithRegions(dir[Main], S)
           v == WithPages(vmm[Main], ea)
<1>1. /\ At("stack") /\ b + StackPages - 1 \in Page
      /\ vmm' = [vmm EXCEPT ![Main] = v]
      /\ tables' = WithPages(tables, es)
      /\ dir' = [dir EXCEPT ![Main] = d]
      /\ frames' = frames + StackPages
      /\ brk' = IF new = Main THEN brk ELSE brk + StackPages
      /\ stack' = [stack EXCEPT ![new] = b]
      /\ IF new \in User THEN pc' = "directory" /\ page' = page
         ELSE pc' = "push" /\ page' = b + StackPages - 1
      /\ UNCHANGED <<cr2, tlb, current, fault, hit>> /\ UNCHANGED <<new, todo, dirpage>>
  BY Zenon DEF alloc_kernel_stack
<1>2. /\ pc = "stack" /\ current = Main /\ hit.task = Main /\ new \in Task
  BY <1>1, AtFact, Zenon
<1>3. /\ LowPage \in Nat /\ FirstPage \in Nat /\ LastPage \in Nat /\ StackPages \in Nat \ {0, 1}
      /\ brk \in Nat /\ brk >= FirstPage /\ frames \in Nat /\ page \in Page
  BY PagingAssumption, Zenon DEF IInv, TypeOK
<1>4. b \in Nat /\ A \subseteq Stacks /\ S \subseteq A /\ b \in Page
  <2>1. b \in Nat /\ b + StackPages - 1 <= LastPage
    BY <1>1, <1>3 DEF Page
  <2>2. A \subseteq Stacks
    BY <1>3, <2>1 DEF Stacks, LowStack, Upper
  <2>3. S \subseteq A
    BY <1>3, <2>1 DEF StackMapped
  <2> QED BY <1>3, <2>1, <2>2, <2>3 DEF Page
<1>5. \A p \in S : tables[p] = NoEntry
  <2>1. CASE new = Main
    BY <1>2, <1>3, <2>1 DEF IInv, KernelFrames, StackMapped, LowStack
  <2>2. CASE new # Main
    <3>1. \A p \in S : p \in Upper /\ p >= brk
      BY <1>1, <1>3, <2>2 DEF StackMapped, Upper, Page
    <3> QED BY <3>1, Zenon DEF IInv, KernelFrames
  <2> QED BY <2>1, <2>2, Zenon
<1>6. \A p \in Upper : p >= brk' => p \notin S /\ tables[p] = NoEntry
  <2>1. CASE new = Main
    <3>1. S \subseteq LowStack
      BY <1>3, <2>1 DEF StackMapped, LowStack
    <3>2. LowStack \cap Upper = {}
      BY PagingAssumption, Zenon
    <3> QED BY <1>1, <2>1, <3>1, <3>2, Zenon DEF IInv, KernelFrames
  <2>2. CASE new # Main
    BY <1>1, <1>3, <2>2 DEF IInv, KernelFrames, StackMapped, Upper
  <2> QED BY <2>1, <2>2, Zenon
<1>7. \A p \in S : p \in Int /\ p - b > 0 /\ p - b < StackPages
  BY <1>3, <1>4 DEF StackMapped
<1>8. b + StackPages - 1 \in Stacks
  <2>1. b + StackPages - 1 \in A
    BY <1>3, <1>4
  <2> QED BY <1>4, <2>1, Zenon
<1>9. A \subseteq KernelArea /\ S \subseteq KernelArea /\ S \subseteq Page /\ A \subseteq Page /\ S \cap Image = {}
  BY <1>4, Layout, Zenon
<1>10. stack' \in [Task -> Page \cup {None}] /\ stack'[new] = b /\ \A t \in Task \ {new} : stack'[t] = stack[t]
  BY <1>1, <1>2, <1>4, Zenon DEF IInv, TypeOK
<1>11. (new = Main => brk' = brk) /\ brk' \in Nat /\ brk' >= FirstPage
  BY <1>1, <1>3
<1>12. DOMAIN ea = A /\ DOMAIN es = S
  BY Zenon
<1>13. \A p \in A : ea[p] \in Entries
  <2>1. StackFrame(b, b) \in Int
    BY <1>3, <1>4 DEF StackFrame
  <2> QED BY <2>1, EntryFact, FlagsFact, Zenon
<1>14. \A p \in S : es[p] \in Entries /\ es[p].frame = frames + (p - b) /\ es[p].flags = KernelFlags
  <2>1. \A p \in S : StackFrame(p, b) \in Int /\ StackFrame(p, b) = frames + (p - b)
    BY <1>3, <1>4, <1>7 DEF StackFrame
  <2> QED BY <2>1, EntryFact, FlagsFact
<1> HIDE DEF A, S, ea, es, b
<1>15. /\ v \in [Page -> Entries] /\ \A q \in Page \ A : v[q] = vmm[Main][q]
  <2>1. vmm[Main] \in [Page -> Entries]
    BY TaskFact, Zenon DEF IInv, TypeOK
  <2> QED BY <1>9, <1>12, <1>13, <2>1, WithPagesFact
<1>16. /\ tables' \in [Page -> Entries]
       /\ \A p \in S : tables'[p].frame = frames + (p - b) /\ tables'[p].flags = KernelFlags
       /\ \A p \in Page \ S : tables'[p] = tables[p]
  <2>1. tables \in [Page -> Entries]
    BY Zenon DEF IInv, TypeOK
  <2>2. /\ WithPages(tables, es) \in [Page -> Entries]
        /\ \A p \in DOMAIN es : WithPages(tables, es)[p] = es[p]
        /\ \A p \in Page \ DOMAIN es : WithPages(tables, es)[p] = tables[p]
    BY <1>9, <1>12, <1>14, <2>1, WithPagesFact
  <2> QED BY <1>1, <1>12, <1>14, <2>2, Zenon
<1>17. /\ d \in [Regions -> SUBSET Flags]
       /\ \A r \in Regions : "P" \in dir[Main][r] => "P" \in d[r]
       /\ \A p \in S : d[Region(p)] = KernelFlags
       /\ \A r \in Regions : (\A p \in S : Region(p) # r) => d[r] = dir[Main][r]
  <2>1. dir[Main] \in [Regions -> SUBSET Flags]
    BY TaskFact, Zenon DEF IInv, TypeOK
  <2> QED BY <1>9, <2>1, WithRegionsFact, Zenon
<1> HIDE DEF d, v
<1>18. /\ dir' \in [Owners -> [Regions -> SUBSET Flags]]
       /\ dir'[Main] = d /\ \A a \in Owners \ {Main} : dir'[a] = dir[a]
  BY <1>1, <1>17, TaskFact, DirReplace, Zenon DEF IInv, TypeOK
<1>19. /\ vmm' \in [Owners -> [Page -> Entries]]
       /\ vmm'[Main] = v /\ \A a \in Owners \ {Main} : vmm'[a] = vmm[a]
  BY <1>1, <1>15, TaskFact, VmmReplace, Zenon DEF IInv, TypeOK
<1>20. pc' \in {"directory", "push"} /\ page' \in Page /\ (pc' = "push" => page' \in Stacks /\ new \notin User)
       /\ (pc' = "directory" => new \in User)
  BY <1>1, <1>3, <1>8, Zenon
<1>21. KernelSteady
  <2>1. \A p \in KernelArea : "P" \in tables[p].flags => p \notin S
    BY <1>5, EntryFact, Zenon
  <2>2. \A p \in KernelArea : Region(p) \in Regions /\ p \in Page
    BY Layout, RegionFact
  <2> QED BY <1>16, <1>17, <1>18, <2>1, <2>2, TaskFact, Zenon DEF KernelSteady
<1>22. TypeOK'
  BY <1>1, <1>2, <1>3, <1>10, <1>11, <1>16, <1>18, <1>19, <1>20 DEF IInv, TypeOK, Creating, Loading
<1>23. Control'
  <2>1. \A u \in User : dirpage'[u] # None => new > u
    BY <1>1, <1>2, Zenon DEF IInv, Control
  <2> QED BY <1>1, <1>2, <1>20, <2>1, Zenon DEF Control, Loading
<1>24. KernelMapped'
  <2>1. StackThere(new)'
    <3>1. \A p \in S : Present(Main, p)' /\ tables'[p].frame > 0
      BY <1>3, <1>4, <1>7, <1>16, <1>17, <1>18, FlagsFact DEF Present
    <3>2. stack'[new'] = b /\ StackMapped(stack[new])' = S
      BY <1>1, <1>10, Zenon DEF StackMapped, S
    <3> QED BY <1>1, <1>4, <3>1, <3>2, Zenon DEF StackThere
  <2>2. new' = new /\ \A t \in Task : stack'[t] = stack[t] \/ StackThere(t)'
    BY <1>1, <1>10, <2>1, Zenon
  <2>3. \A u \in User : dirpage[u] # None => u # new
    <3>1. ~ (new > new)
      BY <1>2, TaskFact
    <3> QED BY <1>2, <3>1, Zenon DEF IInv, Control
  <2>4. b # None
    BY <1>4 DEF None
  <2>5. \A u \in User : dirpage[u] # None => dirpage'[u] = dirpage[u] /\ stack'[u] = stack[u]
    BY <1>1, <1>10, <2>3, TaskFact, Zenon
  <2> QED BY <1>1, <1>2, <1>10, <1>20, <1>21, <2>2, <2>4, <2>5, MappedStep, Zenon
<1>25. KernelFrames'
  <2>1. \A p \in Stacks : p \notin S => tables'[p] = tables[p] /\ tables[p].frame \in Int
    BY <1>16, Layout, EntryFact, Zenon DEF IInv, TypeOK
  <2>2. \A p \in Stacks : p \notin S /\ tables[p].frame > 0 => tables[p].frame < frames
    BY Zenon DEF IInv, KernelFrames
  <2>3. \A p \in Stacks : tables'[p].frame > 0 => tables'[p].frame < frames'
    BY <1>1, <1>3, <1>4, <1>7, <1>16, <2>1, <2>2
  <2>4. \A p, q \in Stacks : p # q /\ tables'[p].frame > 0 => tables'[p].frame # tables'[q].frame
    <3>1. SUFFICES ASSUME NEW p \in Stacks, NEW q \in Stacks, p # q, tables'[p].frame > 0
                   PROVE  tables'[p].frame # tables'[q].frame
      BY Zenon
    <3>2. CASE p \in S /\ q \in S
      BY <1>3, <1>4, <1>7, <1>16, <3>1, <3>2
    <3>3. CASE p \in S /\ q \notin S
      BY <1>3, <1>4, <1>7, <1>16, <2>1, <2>2, <3>1, <3>3
    <3>4. CASE p \notin S /\ q \in S
      BY <1>3, <1>4, <1>7, <1>16, <2>1, <2>2, <3>1, <3>4
    <3>5. CASE p \notin S /\ q \notin S
      BY <2>1, <3>1, <3>5 DEF IInv, KernelFrames
    <3> QED BY <3>2, <3>3, <3>4, <3>5, Zenon
  <2>5. frames' > 1
    BY <1>1, <1>3
  <2>6. \A p \in Upper : p >= brk' => tables'[p] = NoEntry
    BY <1>6, <1>16, Layout, Zenon DEF KernelArea
  <2> QED BY <1>20, <2>3, <2>4, <2>5, <2>6, Zenon DEF KernelFrames
<1>26. UserMapped'
  <2>1. \A p \in UserPages : tables'[p] = tables[p] /\ vmm'[Main][p] = vmm[Main][p]
    BY <1>9, <1>15, <1>16, <1>19, Layout, Zenon
  <2>2. \A p \in UserPages : dir'[Main][Region(p)] = dir[Main][Region(p)]
    BY <1>9, <1>17, <1>18, Layout, RegionFact
  <2>3. \A u \in User : dir'[u] = dir[u] /\ vmm'[u] = vmm[u]
    BY <1>18, <1>19, TaskFact, Zenon
  <2>4. frames' \in Nat /\ frames' >= frames
    BY <1>1, <1>3
  <2> QED BY <1>2, <1>20, <2>1, <2>2, <2>3, <2>4, UserStep, Zenon
<1>27. TlbOK'
  BY <1>1, <1>21, KernelTlb, Zenon
<1>28. FaultsOK' /\ PrivatePagesOwn' /\ ProtectionFaultsExplained'
  BY <1>1, <1>2, KernelRest, Zenon
<1> QED BY <1>22, <1>23, <1>24, <1>25, <1>26, <1>27, <1>28, Zenon DEF IInv

LEMMA CreatedFact ==
    ASSUME new \in Task, Created
    PROVE  /\ new' = new + 1 /\ new' \in Nat /\ new' # Main /\ pc' \in {"run", "elf", "stack"}
           /\ (pc' = "run" <=> new' \notin Task) /\ (pc' = "elf" => new' \in User)
           /\ \A u \in User : new > u \/ new = u => new' > u
BY TaskFact, PagingAssumption DEF Created, Task, User, Main

LEMMA PushFrameInv ==
    ASSUME IInv, push_frame
    PROVE  IInv'
<1>1. /\ At("push") /\ Access(page, FALSE, TRUE)
      /\ UNCHANGED <<cr2, dir, tables, current, fault, frames>>
      /\ UNCHANGED <<page, brk, stack, dirpage>>
  BY Zenon DEF push_frame
<1>2. /\ pc = "push" /\ current = Main /\ new \in Task /\ page \in Page /\ page \in Stacks
      /\ frames \in Nat /\ frames > 1
  <2>1. /\ pc = "push" /\ current = Main /\ new \in Task
    BY <1>1, AtFact, Zenon
  <2> QED BY <2>1, Zenon DEF IInv, Control, TypeOK, KernelFrames
<1>3. /\ DOMAIN tlb' = DOMAIN tlb \cup {page} /\ hit'.task = Main
      /\ \A q \in DOMAIN tlb' : tlb'[q] \in Entries
  BY <1>1, <1>2, AccessFact, Zenon
<1>4. \/ /\ new \in User /\ vmm' = [vmm EXCEPT ![new] = vmm[Main]]
         /\ todo' = Segments[new] /\ pc' = "load" /\ new' = new
      \/ Created /\ UNCHANGED <<vmm, todo>> /\ new \notin User
  BY Zenon DEF push_frame
<1>5. /\ new' \in Nat /\ new' # Main /\ pc' \in {"load", "run", "elf", "stack"}
      /\ (pc' = "run" <=> new' \notin Task) /\ (pc' = "elf" => new' \in User)
      /\ \A u \in User : new > u \/ new = u => new' > u \/ (new' = u /\ pc' = "load")
      /\ (pc' = "load" => todo' = Segments[new'] /\ new' \in User)
  BY <1>2, <1>4, CreatedFact, TaskFact, Zenon
<1>6. /\ vmm' \in [Owners -> [Page -> Entries]] /\ vmm'[Main] = vmm[Main]
      /\ \A u \in User : vmm'[u] = vmm[u] \/ vmm'[u] = vmm[Main]
  <2>1. CASE new \in User /\ vmm' = [vmm EXCEPT ![new] = vmm[Main]]
    BY <2>1, TaskFact, Zenon DEF IInv, TypeOK
  <2>2. CASE vmm' = vmm
    BY <2>2, Zenon DEF IInv, TypeOK
  <2> QED BY <1>4, <2>1, <2>2, Zenon
<1>7. TypeOK'
  <2>1. todo' \subseteq Page
    BY <1>4, Layout, ZenonT(30) DEF IInv, TypeOK
  <2> QED BY <1>1, <1>2, <1>3, <1>5, <1>6, <2>1, Zenon DEF IInv, TypeOK, Loading, Creating
<1>8. Control'
  <2>1. \A u \in User : dirpage[u] # None => new > u \/ new = u
    BY <1>2, Zenon DEF IInv, Control
  <2> QED BY <1>1, <1>2, <1>3, <1>5, <2>1, Zenon DEF Control, Loading
<1>9. KernelMapped'
  BY <1>1, <1>2, <1>5, NothingMapped, MappedKept, Zenon
<1>10. KernelFrames'
  BY <1>1, <1>2, <1>5, Zenon DEF IInv, KernelFrames
<1>11. UserMapped'
  <2>1. \A p \in UserPages : vmm[Main][p] = NoAlloc
    BY <1>2, Zenon DEF IInv, UserMapped, Kept
  <2> QED BY <1>1, <1>2, <1>5, <1>6, <2>1, UserStep
<1>12. TlbOK'
  BY <1>1, <1>2, Layout, KernelTlbAccess, Zenon
<1>13. FaultsOK' /\ PrivatePagesOwn' /\ ProtectionFaultsExplained'
  BY <1>1, <1>3, KernelRest, Zenon
<1> QED BY <1>7, <1>8, <1>9, <1>10, <1>11, <1>12, <1>13, Zenon DEF IInv

LEMMA LoadMapInv ==
    ASSUME IInv, NEW p \in Page, load_map(p)
    PROVE  IInv'
<1>1. /\ At("load") /\ p \in todo /\ pc' = "copy"
      /\ vmm' = [vmm EXCEPT ![Main][p] = Entry(frames, UserFlags(new, p))]
      /\ page' = p /\ frames' = frames + 1
      /\ UNCHANGED <<cr2, dir, tables, tlb, current, fault, hit>>
      /\ UNCHANGED <<new, todo, brk, stack, dirpage>>
  BY Zenon DEF load_map
<1>2. /\ pc = "load" /\ current = Main /\ hit.task = Main /\ new \in User /\ new \in Task
      /\ p \in Pages(new) /\ p \in UserPages /\ frames \in Nat /\ frames > 1
  <2>1. pc = "load" /\ current = Main /\ hit.task = Main /\ new \in Task
    BY <1>1, AtFact, Zenon
  <2>2. new \in User /\ todo \subseteq Segments[new] /\ frames \in Nat /\ frames > 1
    BY <2>1, Zenon DEF IInv, Control, Loading, KernelFrames, TypeOK
  <2> QED BY <1>1, <2>1, <2>2, Layout, Zenon
<1>3. /\ Entry(frames, UserFlags(new, p)) \in Entries
      /\ Entry(frames, UserFlags(new, p)).frame = frames
      /\ Entry(frames, UserFlags(new, p)).flags = UserFlags(new, p)
  BY <1>2, EntryFact, FlagsFact
<1>4. /\ vmm' \in [Owners -> [Page -> Entries]]
      /\ vmm'[Main][p].frame = frames /\ vmm'[Main][p].flags = UserFlags(new, p)
      /\ \A q \in Page \ {p} : vmm'[Main][q] = vmm[Main][q]
      /\ \A a \in Owners \ {Main} : vmm'[a] = vmm[a]
  BY <1>1, <1>3, TaskFact, VmmSet DEF IInv, TypeOK
<1>5. TypeOK'
  BY <1>1, <1>2, <1>4 DEF IInv, TypeOK, Loading
<1>6. Control'
  BY <1>1, <1>2, Zenon DEF IInv, Control, Loading
<1>7. KernelSteady
  BY <1>1, NothingMapped, Zenon
<1>8. KernelMapped'
  BY <1>1, <1>2, <1>7, MappedKept, Zenon
<1>9. KernelFrames'
  <2>1. \A q \in Stacks : tables[q].frame \in Int
    BY Layout, EntryFact, Zenon DEF IInv, TypeOK
  <2>2. \A q \in Stacks : tables[q].frame > 0 => tables[q].frame < frames + 1
    BY <1>2, <2>1 DEF IInv, KernelFrames
  <2> QED BY <1>1, <1>2, <2>2 DEF IInv, KernelFrames
<1>10. UserMapped'
  <2>1. Kept' /\ ~ Kept /\ pc # "run"
    BY <1>1, <1>2, Zenon DEF Kept
  <2>2. \A q \in UserPages : vmm'[Main][q] = NoAlloc \/ q = page'
    BY <1>1, <1>4, <2>1, Layout, Zenon DEF IInv, UserMapped
  <2>3. Allocated(Main, new, page)'
    <3>1. frames > 0 /\ frames < frames' /\ new' = new /\ page' = p
      BY <1>1, <1>2
    <3> QED BY <1>2, <1>4, <3>1, Zenon DEF Allocated
  <2>4. ASSUME NEW u \in User, NEW q \in UserPages, vmm'[u][q] # NoAlloc
        PROVE  Allocated(u, u, q)'
    <3>1. vmm'[u] = vmm[u] /\ vmm[u][q].frame \in Int
      BY <1>4, TaskFact, Layout, EntryFact DEF IInv, TypeOK
    <3>2. Allocated(u, u, q)
      BY <2>4, <3>1, Zenon DEF IInv, UserMapped
    <3> QED BY <1>1, <1>2, <3>1, <3>2 DEF Allocated
  <2>5. \A q \in UserPages : tables'[q] = NoEntry /\ dir'[Main][Region(q)] = {}
    BY <1>1, <2>1, Zenon DEF IInv, UserMapped
  <2>6. \A u \in User : \A q \in UserPages : dir'[u][Region(q)] = {}
    BY <1>1, <2>1, Zenon DEF IInv, UserMapped
  <2> QED BY <2>1, <2>2, <2>3, <2>4, <2>5, <2>6, Zenon DEF UserMapped
<1>11. TlbOK'
  BY <1>1, <1>7, KernelTlb, Zenon
<1>12. FaultsOK' /\ PrivatePagesOwn' /\ ProtectionFaultsExplained'
  BY <1>1, <1>2, KernelRest, Zenon
<1> QED BY <1>5, <1>6, <1>8, <1>9, <1>10, <1>11, <1>12, Zenon DEF IInv

\* The loader has the page of a program mapped for itself.
LEMMA LoadCopyFact ==
    ASSUME IInv, load_copy
    PROVE  /\ page \in UserPages /\ page \in Page /\ Allocated(Main, new, page)
           /\ tables[page] = vmm[Main][page] /\ hit'.frame = vmm[Main][page].frame
<1>1. /\ At("copy") /\ Access(page, FALSE, TRUE)
  BY Zenon DEF load_copy
<1>2. pc = "copy" /\ current = Main /\ Owner(current) = Main /\ new \in User
  BY <1>1, AtFact, TaskFact, Zenon DEF IInv, Control, Loading
<1>3. Allocated(Main, new, page)
  BY <1>2, Zenon DEF IInv, UserMapped, Kept
<1>4. page \in UserPages /\ page \in Page
  BY <1>2, <1>3, Layout, Zenon DEF Allocated
<1>5. Present(Main, page) /\ Translation(page).frame = tables[page].frame /\ hit'.frame = Translation(page).frame
  BY <1>1, <1>2, <1>4, AccessFact, Zenon
<1>6. tables[page] # NoEntry
  BY <1>5, EntryFact, Zenon DEF Present
<1>7. tables[page] = vmm[Main][page]
  BY <1>2, <1>4, <1>6, Zenon DEF IInv, UserMapped, Kept
<1> QED BY <1>3, <1>4, <1>5, <1>7, Zenon

LEMMA LoadCopyInv ==
    ASSUME IInv, load_copy
    PROVE  IInv'
<1>1. /\ At("copy") /\ Access(page, FALSE, TRUE) /\ pc' = "unmap"
      /\ vmm' = [vmm EXCEPT ![new][page] = vmm[Main][page]]
      /\ UNCHANGED <<cr2, dir, tables, current, fault, frames>>
      /\ UNCHANGED <<new, page, todo, brk, stack, dirpage>>
  BY Zenon DEF load_copy
<1>2. /\ pc = "copy" /\ current = Main /\ new \in User /\ new \in Owners /\ new # Main /\ new \in Task
  BY <1>1, AtFact, TaskFact, Zenon DEF IInv, Control, Loading
<1>3. page \in UserPages /\ page \in Page /\ Allocated(Main, new, page)
  BY LoadCopyFact, Zenon
<1>4. /\ DOMAIN tlb' = DOMAIN tlb \cup {page} /\ hit'.task = Main
      /\ \A q \in DOMAIN tlb' : tlb'[q] \in Entries
  BY <1>1, <1>2, <1>3, AccessFact, Zenon
<1>5. /\ vmm' \in [Owners -> [Page -> Entries]] /\ vmm'[new][page] = vmm[Main][page]
      /\ \A q \in Page \ {page} : vmm'[new][q] = vmm[new][q]
      /\ \A a \in Owners \ {new} : vmm'[a] = vmm[a]
  <2>1. vmm[Main][page] \in Entries
    BY <1>3, TaskFact DEF IInv, TypeOK
  <2> QED BY <1>1, <1>2, <1>3, <2>1, VmmSet, Zenon DEF IInv, TypeOK
<1>6. vmm'[Main] = vmm[Main]
  BY <1>2, <1>5, TaskFact, Zenon
<1>7. TypeOK'
  BY <1>1, <1>4, <1>3, <1>5, Zenon DEF IInv, TypeOK, Loading
<1>8. Control'
  BY <1>1, <1>2, <1>4, Zenon DEF IInv, Control, Loading
<1>9. KernelMapped'
  BY <1>1, <1>2, NothingMapped, MappedKept, Zenon
<1>10. KernelFrames'
  BY <1>1, <1>2, Zenon DEF IInv, KernelFrames
<1>11. UserMapped'
  <2>1. Kept' /\ Kept /\ pc # "run" /\ pc' # "run"
    BY <1>1, <1>2, Zenon DEF Kept
  <2>2. Allocated(Main, new, page)'
    BY <1>1, <1>3, <1>6, Zenon DEF Allocated
  <2>3. ASSUME NEW u \in User, NEW q \in UserPages, vmm'[u][q] # NoAlloc
        PROVE  Allocated(u, u, q)'
    <3>1. CASE u = new /\ q = page
      BY <1>1, <1>3, <1>5, <3>1, Zenon DEF Allocated
    <3>2. CASE ~ (u = new /\ q = page)
      <4>1. vmm'[u][q] = vmm[u][q]
        BY <1>5, <3>2, TaskFact, Layout, Zenon
      <4>2. Allocated(u, u, q)
        BY <2>3, <4>1, Zenon DEF IInv, UserMapped
      <4> QED BY <1>1, <4>1, <4>2, Zenon DEF Allocated
    <3> QED BY <3>1, <3>2, Zenon
  <2>4. \A q \in UserPages : vmm[Main][q] = NoAlloc \/ q = page
    BY Zenon DEF IInv, UserMapped
  <2>5. \A q \in UserPages : tables[q] = NoEntry \/ (q = page /\ tables[q] = vmm[Main][q])
    BY <2>1, Zenon DEF IInv, UserMapped
  <2>6. \A q \in UserPages : dir[Main][Region(q)] = {} \/ Region(q) = Region(page)
    BY <2>1, Zenon DEF IInv, UserMapped
  <2>7. \A u \in User : \A q \in UserPages : dir[u][Region(q)] = {}
    BY <2>1, Zenon DEF IInv, UserMapped
  <2> QED BY <1>1, <1>6, <2>1, <2>2, <2>3, <2>4, <2>5, <2>6, <2>7, Zenon DEF UserMapped
<1>12. TlbOK'
  BY <1>1, KernelTlbAccess, Zenon
<1>13. FaultsOK' /\ PrivatePagesOwn' /\ ProtectionFaultsExplained'
  BY <1>1, <1>4, KernelRest, Zenon
<1> QED BY <1>7, <1>8, <1>9, <1>10, <1>11, <1>12, <1>13, Zenon DEF IInv

LEMMA LoadUnmapInv ==
    ASSUME IInv, load_unmap
    PROVE  IInv'
<1>1. /\ At("unmap") /\ pc' = "load"
      /\ vmm' = [vmm EXCEPT ![Main][page] = NoAlloc]
      /\ dir' = [dir EXCEPT ![Main][Region(page)] = {}]
      /\ tables' = [tables EXCEPT ![page] = NoEntry]
      /\ tlb' = [q \in DOMAIN tlb \ {page} |-> tlb[q]]
      /\ todo' = todo \ {page}
      /\ UNCHANGED <<cr2, current, fault, frames, hit>>
      /\ UNCHANGED <<new, page, brk, stack, dirpage>>
  BY Zenon DEF load_unmap, paging_invlpg
<1>2. /\ pc = "unmap" /\ current = Main /\ Owner(current) = Main /\ current \notin User
      /\ hit.task = Main /\ new \in Task
  BY <1>1, AtFact, TaskFact, Zenon
<1>3. new \in User /\ Allocated(Main, new, page) /\ todo \subseteq Segments[new]
  BY <1>2, Zenon DEF IInv, UserMapped, Kept, Control, Loading
<1>4. page \in UserPages /\ page \in Page /\ page \notin KernelArea /\ Region(page) \in Regions
  BY <1>3, Layout, RegionFact, Zenon DEF Allocated
<1>5. /\ vmm' \in [Owners -> [Page -> Entries]] /\ vmm'[Main][page] = NoAlloc
      /\ \A q \in Page \ {page} : vmm'[Main][q] = vmm[Main][q]
      /\ \A a \in Owners \ {Main} : vmm'[a] = vmm[a]
  BY <1>1, <1>4, TaskFact, EntryFact, VmmSet DEF IInv, TypeOK
<1>6. /\ dir' \in [Owners -> [Regions -> SUBSET Flags]]
      /\ \A a \in Owners, r \in Regions :
           dir'[a][r] = IF a = Main /\ r = Region(page) THEN {} ELSE dir[a][r]
  <2>1. Main \in Owners /\ {} \in SUBSET Flags /\ dir \in [Owners -> [Regions -> SUBSET Flags]]
    BY TaskFact, Zenon DEF IInv, TypeOK
  <2> QED BY <1>1, <1>4, <2>1, DirSet
<1>7. /\ tables' \in [Page -> Entries] /\ tables'[page] = NoEntry
      /\ \A q \in Page \ {page} : tables'[q] = tables[q]
  BY <1>1, <1>4, EntryFact, TablesSet, Zenon DEF IInv, TypeOK
<1>8. DOMAIN tlb' = DOMAIN tlb \ {page} /\ \A q \in DOMAIN tlb' : tlb'[q] = tlb[q]
  BY <1>1, Zenon
<1>9. TypeOK'
  BY <1>1, <1>5, <1>6, <1>7, <1>8, Zenon DEF IInv, TypeOK, Loading
<1>10. Control'
  BY <1>1, <1>2, <1>3, Zenon DEF IInv, Control, Loading
<1>11. KernelSteady
  <2>1. \A p \in KernelArea : Region(p) # Region(page) /\ Region(p) \in Regions /\ p \in Page
    BY <1>4, Layout, RegionFact, Zenon
  <2> QED BY <1>4, <1>6, <1>7, <2>1, TaskFact DEF KernelSteady
<1>12. KernelMapped'
  BY <1>1, <1>2, <1>11, MappedKept, Zenon
<1>13. KernelFrames'
  <2>1. \A q \in Stacks : tables'[q] = tables[q]
    BY <1>4, <1>7, Layout, Zenon
  <2>2. \A q \in Upper : tables'[q] = tables[q]
    BY <2>1, Zenon DEF Stacks
  <2> QED BY <1>1, <1>2, <2>1, <2>2 DEF IInv, KernelFrames
<1>14. UserMapped'
  <2>1. Kept /\ ~ Kept' /\ pc # "run"
    BY <1>1, <1>2, Zenon DEF Kept
  <2>2. \A q \in UserPages : vmm'[Main][q] = NoAlloc
    BY <1>5, Layout, Zenon DEF IInv, UserMapped
  <2>3. ASSUME NEW u \in User, NEW q \in UserPages, vmm'[u][q] # NoAlloc
        PROVE  Allocated(u, u, q)'
    <3>1. vmm'[u] = vmm[u]
      BY <1>5, TaskFact, Zenon
    <3>2. Allocated(u, u, q)
      BY <2>3, <3>1, Zenon DEF IInv, UserMapped
    <3> QED BY <1>1, <3>1, <3>2, Zenon DEF Allocated
  <2>4. \A q \in UserPages : tables'[q] = NoEntry
    BY <1>7, <2>1, Layout, Zenon DEF IInv, UserMapped
  <2>5. \A q \in UserPages : Region(q) \in Regions
    BY Layout, RegionFact, Zenon
  <2>6. \A q \in UserPages : dir'[Main][Region(q)] = {}
    BY <1>6, <2>1, <2>5, TaskFact, ZenonT(30) DEF IInv, UserMapped
  <2>7. \A u \in User : \A q \in UserPages : dir'[u][Region(q)] = {}
    BY <1>6, <2>1, <2>5, TaskFact DEF IInv, UserMapped
  <2> QED BY <2>1, <2>2, <2>3, <2>4, <2>6, <2>7, Zenon DEF UserMapped
<1>15. TlbOK'
  <2>1. \A q \in DOMAIN tlb' : q \in KernelArea
    BY <1>2, <1>8, Zenon DEF IInv, TlbOK
  <2>2. \A q \in DOMAIN tlb' : Present(Main, q) /\ tlb'[q].frame = tables[q].frame
    BY <1>2, <1>8, Zenon DEF IInv, TlbOK, TlbCoherent
  <2>3. TlbCoherent'
    BY <1>1, <1>2, <1>11, <2>1, <2>2 DEF TlbCoherent, Present, KernelSteady
  <2> QED BY <1>1, <1>2, <1>8, <2>1, <2>3, Zenon DEF IInv, TlbOK
<1>16. FaultsOK' /\ PrivatePagesOwn' /\ ProtectionFaultsExplained'
  BY <1>1, <1>2, KernelRest, Zenon
<1> QED BY <1>9, <1>10, <1>12, <1>13, <1>14, <1>15, <1>16, Zenon DEF IInv

LEMMA MapUserStackInv ==
    ASSUME IInv, map_user_stack
    PROVE  IInv'
<1> DEFINE e == [p \in UserStack |-> Entry(frames + (p - UserStackPage), UserFlags(new, p))]
           v == WithPages(vmm[new], e)
<1>1. /\ At("load") /\ Created
      /\ vmm' = [vmm EXCEPT ![new] = v]
      /\ frames' = frames + USER_STACK_PAGE_COUNT
      /\ UNCHANGED <<cr2, dir, tables, tlb, current, fault, hit>>
      /\ UNCHANGED <<page, todo, brk, stack, dirpage>>
  BY Zenon DEF map_user_stack
<1>2. /\ pc = "load" /\ current = Main /\ hit.task = Main /\ new \in User /\ new \in Task
      /\ new \in Owners /\ frames \in Nat /\ frames > 1
  <2>1. pc = "load" /\ current = Main /\ hit.task = Main /\ new \in Task
    BY <1>1, AtFact, Zenon
  <2> QED BY <2>1, TaskFact, Zenon DEF IInv, Control, Loading, KernelFrames, TypeOK
<1>3. /\ new' \in Nat /\ new' # Main /\ pc' \in {"run", "elf", "stack"}
      /\ (pc' = "run" <=> new' \notin Task) /\ (pc' = "elf" => new' \in User)
      /\ \A u \in User : new > u \/ new = u => new' > u
  BY <1>1, <1>2, CreatedFact, Zenon
<1>4. UserStackPage \in Nat /\ USER_STACK_PAGE_COUNT \in Nat
  BY PagingAssumption, Zenon
<1>5. DOMAIN e = UserStack /\ UserStack \subseteq Page
  BY Layout, Zenon
<1>6. \A p \in UserStack :
        /\ e[p] \in Entries /\ e[p].flags = UserFlags(new, p)
        /\ e[p].frame > 0 /\ e[p].frame < frames + USER_STACK_PAGE_COUNT
  <2>1. \A p \in UserStack : /\ frames + (p - UserStackPage) \in Int /\ frames + (p - UserStackPage) > 0
                             /\ frames + (p - UserStackPage) < frames + USER_STACK_PAGE_COUNT
    BY <1>2, <1>4 DEF UserStack
  <2> QED BY <2>1, EntryFact, FlagsFact
<1> HIDE DEF e
<1>7. /\ v \in [Page -> Entries] /\ \A p \in UserStack : v[p] = e[p]
      /\ \A p \in Page \ UserStack : v[p] = vmm[new][p]
  <2>1. vmm[new] \in [Page -> Entries]
    BY <1>2, Zenon DEF IInv, TypeOK
  <2> QED BY <1>5, <1>6, <2>1, WithPagesFact
<1> HIDE DEF v
<1>8. /\ vmm' \in [Owners -> [Page -> Entries]] /\ vmm'[new] = v
      /\ \A a \in Owners \ {new} : vmm'[a] = vmm[a]
  BY <1>1, <1>2, <1>7, VmmReplace, Zenon DEF IInv, TypeOK
<1>9. frames' \in Nat /\ frames' >= frames /\ frames' > 1
  BY <1>1, <1>2, <1>4
<1>10. TypeOK'
  BY <1>1, <1>3, <1>8, <1>9, Zenon DEF IInv, TypeOK, Loading, Creating
<1>11. Control'
  <2>1. \A u \in User : dirpage[u] # None => new > u \/ new = u
    BY <1>2, Zenon DEF IInv, Control
  <2> QED BY <1>1, <1>2, <1>3, <2>1, Zenon DEF Control, Loading
<1>12. KernelSteady
  BY <1>1, NothingMapped, Zenon
<1>13. KernelMapped'
  BY <1>1, <1>2, <1>3, <1>12, MappedKept, Zenon
<1>14. KernelFrames'
  <2>1. \A q \in Stacks : tables[q].frame \in Int
    BY Layout, EntryFact, Zenon DEF IInv, TypeOK
  <2>2. \A q \in Stacks : tables[q].frame > 0 => tables[q].frame < frames'
    BY <1>2, <1>9, <2>1 DEF IInv, KernelFrames
  <2> QED BY <1>1, <1>3, <1>9, <2>2, Zenon DEF IInv, KernelFrames
<1>15. UserMapped'
  <2>1. \A u \in User, p \in UserPages :
          vmm'[u][p] \in {vmm[u][p], NoAlloc} \/ Allocated(u, u, p)'
    <3>1. SUFFICES ASSUME NEW u \in User, NEW p \in UserPages, vmm'[u][p] # vmm[u][p]
                   PROVE  Allocated(u, u, p)'
      BY Zenon
    <3>2. u = new /\ p \in UserStack /\ vmm'[u][p] = v[p]
      BY <1>7, <1>8, <3>1, TaskFact, Layout, Zenon
    <3>3. p \in Pages(u) /\ v[p].flags = UserFlags(u, p) /\ v[p].frame > 0 /\ v[p].frame < frames'
      BY <1>1, <1>2, <1>6, <1>7, <3>2, Layout, Zenon
    <3> QED BY <3>2, <3>3, Zenon DEF Allocated
  <2>2. vmm'[Main] = vmm[Main]
    BY <1>2, <1>8, TaskFact, Zenon
  <2> QED BY <1>1, <1>2, <1>3, <1>9, <2>1, <2>2, UserStep, Zenon
<1>16. TlbOK'
  BY <1>1, <1>12, KernelTlb, Zenon
<1>17. FaultsOK' /\ PrivatePagesOwn' /\ ProtectionFaultsExplained'
  BY <1>1, <1>2, KernelRest, Zenon
<1> QED BY <1>10, <1>11, <1>13, <1>14, <1>15, <1>16, <1>17, Zenon DEF IInv

-----------------------------------------------------------------------------
(* The theorems.                                                           *)

LEMMA PanicInv ==
    ASSUME IInv, page_fault_handler, pc' = "panic"
    PROVE  Inv'
<1>1. /\ UNCHANGED <<dir, tables, vmm, tlb, cr2, current, hit>>
      /\ UNCHANGED <<stack, dirpage>>
  BY Zenon DEF page_fault_handler
<1>2. fault' = fault
  BY Zenon DEF page_fault_handler
<1>3. Safe
  BY IInvSwitch, Zenon DEF IInv, TlbOK, Safe
<1>4. SwitchIsSafe'
  BY <1>1, <1>3 DEF Safe, SwitchIsSafe, Present, IsCreated, KernelPages
<1>5. TlbCoherent' /\ PrivatePagesOwn'
  BY <1>1, <1>3, Zenon DEF Safe, TlbCoherent, Present, PrivatePagesOwn
<1>6. ProtectionFaultsExplained'
  BY <1>2, <1>3, Zenon DEF Safe, ProtectionFaultsExplained
<1> QED BY <1>4, <1>5, <1>6, Zenon DEF Inv, Safe

LEMMA StepInv == Inv /\ [Next]_vars => Inv'
<1> SUFFICES ASSUME Inv, [Next]_vars PROVE Inv'
  BY Zenon
<1>1. CASE UNCHANGED vars
  <2>1. /\ UNCHANGED <<dir, tables, vmm, tlb, cr2, current, fault, frames, hit>>
        /\ UNCHANGED <<pc, new, page, todo, brk, stack, dirpage>>
    BY <1>1, Zenon DEF vars, kmain
  <2>2. CASE pc = "panic"
    <3>1. Safe
      BY <2>2, Zenon DEF Inv
    <3>2. SwitchIsSafe'
      BY <2>1, <3>1 DEF Safe, SwitchIsSafe, Present, IsCreated, KernelPages
    <3>3. TlbCoherent' /\ PrivatePagesOwn' /\ ProtectionFaultsExplained'
      BY <2>1, <3>1, Zenon DEF Safe, TlbCoherent, Present, PrivatePagesOwn, ProtectionFaultsExplained
    <3> QED BY <2>1, <2>2, <3>2, <3>3, Zenon DEF Inv, Safe
  <2>3. CASE pc # "panic"
    <3>1. IInv
      BY <2>3, Zenon DEF Inv
    <3>2. TypeOK' /\ Control'
      BY <2>1, <3>1, Zenon DEF IInv, TypeOK, Control
    <3>3. KernelMapped' /\ KernelFrames' /\ UserMapped'
      BY <2>1, <3>1, SameMapped, SameFrames, SameUser, Zenon DEF IInv
    <3>4. FaultsOK'
      BY <2>1, <3>1, Zenon DEF IInv, FaultsOK
    <3>5. TlbOK'
      BY <2>1, <3>1, Zenon DEF IInv, TlbOK, TlbCoherent, Present
    <3>6. PrivatePagesOwn' /\ ProtectionFaultsExplained'
      BY <2>1, <3>1, Zenon DEF IInv, PrivatePagesOwn, ProtectionFaultsExplained
    <3> QED BY <2>1, <2>3, <3>2, <3>3, <3>4, <3>5, <3>6, Zenon DEF Inv, IInv
  <2> QED BY <2>2, <2>3, Zenon
<1>2. CASE Next /\ pc = "panic"
  <2>1. Stopped
    BY <1>2, Zenon DEF Next, kernel_main, At, init_paging, map_elf, parse_elf, alloc_kernel_stack,
        map_directory, copy_directory, push_frame, load_map, load_copy, load_unmap,
        map_user_stack, kernel_access, user_access, page_fault_handler, fault_dir,
        fault_table, evict, do_task_switch
  <2> QED BY <1>1, <2>1, Zenon DEF Stopped
<1>3. CASE Next /\ pc # "panic"
  <2>1. IInv
    BY <1>3, Zenon DEF Inv
  <2>2. CASE kernel_main
    <3>1. IInv'
      BY <2>1, <2>2, InitPagingInv, MapElfInv, ParseElfInv, KernelStackInv, MapDirectoryInv,
         CopyDirectoryInv, PushFrameInv, LoadMapInv, LoadCopyInv, LoadUnmapInv, MapUserStackInv, Zenon
         DEF kernel_main
    <3>2. pc' # "panic"
      BY <2>2, Zenon DEF kernel_main, init_paging, map_elf, parse_elf, alloc_kernel_stack,
        map_directory, copy_directory, push_frame, Created, load_map, load_copy, load_unmap,
        map_user_stack
    <3> QED BY <3>1, <3>2, Zenon DEF Inv
  <2>3. CASE page_fault_handler
    <3>1. CASE pc' = "panic"
      BY <2>1, <2>3, <3>1, PanicInv, Zenon
    <3>2. CASE pc' # "panic"
      BY <2>1, <2>3, <3>2, HandlerInv, Zenon DEF Inv
    <3> QED BY <3>1, <3>2, Zenon
  <2>4. CASE kernel_access \/ fault_dir \/ fault_table
    <3>1. IInv'
      BY <2>1, <2>4, KernelFaultInv, FaultDirInv, FaultTableInv, Zenon
    <3>2. pc' = pc
      BY <2>4, Zenon DEF kernel_access, page_fault, fault_dir, fault_table, kmain
    <3> QED BY <1>3, <3>1, <3>2, Zenon DEF Inv
  <2>5. ASSUME NEW p \in Page, NEW write \in BOOLEAN, user_access(p, write) PROVE Inv'
    <3>1. IInv'
      BY <2>1, <2>5, UserAccessInv, Zenon
    <3>2. pc' = pc
      BY <2>5, Zenon DEF user_access, page_fault, kmain
    <3> QED BY <1>3, <3>1, <3>2, Zenon DEF Inv
  <2>6. ASSUME NEW p \in DOMAIN tlb, evict(p) PROVE Inv'
    <3>1. IInv' /\ pc' = pc
      BY <2>1, <2>6, EvictInv, Zenon DEF evict, kmain
    <3> QED BY <1>3, <3>1, Zenon DEF Inv
  <2>7. ASSUME NEW t \in Task, do_task_switch(t) PROVE Inv'
    <3>1. IInv' /\ pc' = pc
      BY <2>1, <2>7, SwitchInv, Zenon DEF do_task_switch, kmain
    <3> QED BY <1>3, <3>1, Zenon DEF Inv
  <2>8. ~ Stopped
    BY <1>3, Zenon DEF Stopped
  <2> QED BY <1>3, <2>2, <2>3, <2>4, <2>5, <2>6, <2>7, <2>8, Zenon DEF Next
<1> QED BY <1>1, <1>2, <1>3, Zenon

LEMMA InvAlways == Spec => []Inv
BY InitInv, StepInv, PTL DEF Spec

\* Every task that has been created finds the image, its kernel stack and its
\* page directory mapped in its own directory, on frames that no two of these
\* pages share: paging.c, alloc_kernel_stack and vmm_clone_paging_context, for
\* any layout and any number of tasks.
THEOREM TasksCanBeSwitchedTo == Spec => []SwitchIsSafe
<1>1. Inv => SwitchIsSafe
  BY InvSafe, Zenon DEF Safe
<1> QED BY <1>1, InvAlways, PTL

\* The TLB never has a translation that the page tables do not have: the one
\* paging_invlpg of paging_unmap_addr and the CR3 loads of do_task_switch are
\* enough.
THEOREM NoStaleTranslation == Spec => []TlbCoherent
<1>1. Inv => TlbCoherent
  BY InvSafe, Zenon DEF Safe
<1> QED BY <1>1, InvAlways, PTL

\* An access to a page that one task alone has mapped reaches that task's frame,
\* whatever the page fault handlers of the others do to the shared page tables.
THEOREM PrivateMemory == Spec => []PrivatePagesOwn
<1>1. Inv => PrivatePagesOwn
  BY InvSafe, Zenon DEF Safe
<1> QED BY <1>1, InvAlways, PTL

\* A task that respects its segments meets a protection fault only where a
\* read-only page shares the region or the page table entry.
THEOREM ProtectionFaultsHaveReason == Spec => []ProtectionFaultsExplained
<1>1. Inv => ProtectionFaultsExplained
  BY InvSafe, Zenon DEF Safe
<1> QED BY <1>1, InvAlways, PTL

\* What the loader copies goes to the frame it has just allocated for the page:
\* handle_loadable_segment, with the faults of the copy in between.
THEOREM LoaderReachesOwnFrames == Spec => LoaderWritesOwn
<1>1. Inv /\ [Next]_vars => [pc = "copy" /\ pc' = "unmap" => hit'.frame = vmm[Main][page].frame]_vars
  <2> SUFFICES ASSUME Inv, Next, pc = "copy", pc' = "unmap"
               PROVE  hit'.frame = vmm[Main][page].frame
    BY Zenon
  <2>1. load_copy
    BY Zenon DEF Next, kernel_main, At, init_paging, map_elf, parse_elf, alloc_kernel_stack,
        map_directory, copy_directory, push_frame, Created, load_map, load_unmap,
        map_user_stack, kernel_access, page_fault, user_access, page_fault_handler, fault_dir,
        fault_table, evict, do_task_switch, Stopped, vars, kmain
  <2>2. IInv
    BY Zenon DEF Inv
  <2> QED BY <2>1, <2>2, LoadCopyFact, Zenon
<1> QED BY <1>1, InvAlways, PTL DEF Spec, LoaderWritesOwn
=============================================================================
