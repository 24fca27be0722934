------------------------------- MODULE Paging -------------------------------
(***************************************************************************)
(* Page tables and page faults: mm/paging.c, interrupts/page_fault.c,      *)
(* alloc_kernel_stack and vmm_clone_paging_context, and kernel_main        *)
(* creating its tasks, whose memory they map.                              *)
(*                                                                         *)
(* Addresses are pages; RegionPages of them share a page directory entry.  *)
(* Each user task has a page directory of its own, kernel tasks use the    *)
(* first one; all directories point to the same page tables.  Of a         *)
(* directory entry the model keeps the flags, since the table it points to *)
(* never changes.  A virtual memory context is the function from pages to  *)
(* the allocation that vmm_find_allocation finds.                          *)
(*                                                                         *)
(* The processor keeps translations it has used in the TLB until they are  *)
(* invalidated, another directory is loaded, or it needs the room.         *)
(***************************************************************************)
EXTENDS Integers

CONSTANTS RegionPages,  \* PAGE_TABLE_SIZE
          Image,        \* the pages init_paging maps: kernel image and heap
          LowPage,      \* where the stack of the first task is put
          FirstPage,    \* the first page for requests for any address
          LastPage,     \* bound: the last page of the model
          StackPages,   \* KERNEL_STACK_PAGE_COUNT
          Segments,     \* user task -> the pages of its program
          ReadOnly,     \* user task -> those whose segment is not writable
          USER_STACK_PAGE_COUNT,
          UserStackPage,\* the lowest page of the user stack
          TestTasks     \* how many test tasks kernel_main creates

Main == 0
User == {1, 2}                  \* init and its child
Task == 0 .. 2 + TestTasks
Page == 0 .. LastPage
Region(p) == p \div RegionPages
None == -1
UserStack == UserStackPage .. UserStackPage + USER_STACK_PAGE_COUNT - 1

\* The pages of the kernel: the stack of the first task, and the rest.
LowStack == LowPage .. LowPage + StackPages - 1
Upper == FirstPage .. LastPage

ASSUME PagingAssumption ==
    /\ RegionPages \in Nat \ {0} /\ LastPage \in Nat /\ TestTasks \in Nat
    /\ StackPages \in Nat \ {0, 1}
    /\ LowPage \in Nat /\ FirstPage \in Nat
    /\ UserStackPage \in Nat /\ USER_STACK_PAGE_COUNT \in Nat
    /\ Image \cup LowStack \cup UserStack \subseteq Page
    /\ Image \cap LowStack = {} /\ Image \cap Upper = {} /\ LowStack \cap Upper = {}
    /\ Segments \in [User -> SUBSET Page]
    /\ ReadOnly \in [User -> SUBSET Page]
    /\ \A u \in User : ReadOnly[u] \subseteq Segments[u] /\ Segments[u] \cap UserStack = {}
    /\ \A u \in User : \A p \in Segments[u] \cup UserStack :
        \A q \in Image \cup LowStack \cup Upper : Region(p) # Region(q)

\* PAGE_FLAG_PRESENT, PAGE_FLAG_WRITE and PAGE_FLAG_USER
KernelFlags == {"P", "W"}

\* Mutation: the pages of a program are mapped for the kernel only.
NotForUser(u, p) == KernelFlags

UserFlags(u, p) == {"P", "U"} \cup IF p \in ReadOnly[u] THEN {} ELSE {"W"}

Entry(frame, flags) == [frame |-> frame, flags |-> flags]
NoEntry == Entry(0, {})
NoAlloc == Entry(None, {})
NoFault == [page |-> None, err_code |-> {}, entry |-> NoEntry, at |-> "none"]

\* The frames of the kernel image, the heap and the ELF files: none of those the
\* PMM hands out, which are numbered from 0.
FixedFrame(p) == -2 - p

VARIABLES dir,          \* Main or user task -> region -> flags
          tables,       \* the page tables: page -> entry
          vmm,          \* Main or user task -> page -> allocation, or NoAlloc
          tlb,          \* the translations the processor has cached
          cr2,          \* the address of the last page fault
          current,      \* the task that runs
          fault,        \* task -> the page fault it handles, or NoFault
          pc, new,      \* where kernel_main is, and the task it creates
          page,         \* the page it is about to access
          todo,         \* pages of the program it has not loaded yet
          frames, brk,  \* the next frame of the PMM, the next page of the VMM
          stack,        \* task -> the bottom of its kernel stack
          dirpage,      \* user task -> where its directory is mapped
          hit           \* the last access: by whom, where, and to which frame

kmain == <<pc, new, page, todo, brk, stack, dirpage>>
vars == <<dir, tables, vmm, tlb, cr2, current, fault, kmain, frames, hit>>

Owner(t) == IF t \in User THEN t ELSE Main

Init ==
    /\ dir = [o \in {Main} \cup User |-> [r \in 0 .. Region(LastPage) |-> {}]]
    /\ tables = [p \in Page |-> NoEntry]
    /\ vmm = [o \in {Main} \cup User |-> [p \in Page |-> NoAlloc]]
    /\ tlb = << >> /\ cr2 = 0
    /\ current = Main
    /\ fault = [t \in Task |-> NoFault]
    /\ pc = "init_paging" /\ new = Main /\ page = 0 /\ todo = {}
    /\ frames = 0 /\ brk = FirstPage
    /\ stack = [t \in Task |-> None] /\ dirpage = [u \in User |-> None]
    /\ hit = [task |-> Main, page |-> 0, frame |-> 0]
-----------------------------------------------------------------------------
(* The processor accesses a page.                                          *)

\* The flags of directory and table entry both have to permit an access.
Translation(p) ==
    IF p \in DOMAIN tlb THEN tlb[p]
    ELSE Entry(tables[p].frame, dir[Owner(current)][Region(p)] \cap tables[p].flags)

\* The kernel may write to pages that are not writable: CR0.WP is not set.
Permitted(p, user, write) ==
    LET flags == Translation(p).flags IN
    "P" \in flags /\ (user => "U" \in flags) /\ (user /\ write => "W" \in flags)

Access(p, user, write) ==
    /\ Permitted(p, user, write)
    /\ tlb' = [q \in DOMAIN tlb \cup {p} |-> IF q = p THEN Translation(p) ELSE tlb[q]]
    /\ hit' = [task |-> current, page |-> p, frame |-> Translation(p).frame]

\* Mutation: every fault gets a fresh page.
FreshFrame(alloc) == frames

\* Physical address 0 stands for a page that has no frame yet.
FaultFrame(alloc) == IF alloc.frame = 0 THEN frames ELSE alloc.frame

\* The processor raises a page fault: the address goes to CR2, the error code on
\* the stack says whether the page was present.
page_fault(p, user, write) ==
    /\ ~ Permitted(p, user, write)
    /\ cr2' = p
    /\ fault' = [fault EXCEPT ![current] =
                    [page |-> p, err_code |-> Translation(p).flags \cap {"P"},
                     entry |-> NoEntry, at |-> "entry"]]
    /\ UNCHANGED <<dir, tables, vmm, tlb, current, kmain, frames, hit>>

\* page_fault_handler up to the mapping: a protection fault and an address
\* without an allocation end in a panic.  Interrupts are enabled when the
\* handler starts, so CR2 may have changed before it is read.
page_fault_handler ==
    LET alloc == vmm[Owner(current)][cr2] IN
    /\ pc # "panic" /\ fault[current].at = "entry"
    /\ IF "P" \in fault[current].err_code \/ alloc = NoAlloc
       THEN pc' = "panic" /\ UNCHANGED <<fault, frames>>
       ELSE /\ fault' = [fault EXCEPT ![current] =
                            [page |-> cr2, err_code |-> fault[current].err_code,
                             entry |-> Entry(FaultFrame(alloc), alloc.flags), at |-> "dir"]]
            /\ frames' = IF FaultFrame(alloc) = frames THEN frames + 1 ELSE frames
            /\ UNCHANGED pc
    /\ UNCHANGED <<dir, tables, vmm, tlb, cr2, current, new, page, todo, brk, stack, dirpage, hit>>

\* The handler calls paging_map_virtual_to_physical, which writes the directory
\* entry of the task and then the entry of the table.
fault_dir ==
    LET f == fault[current] IN
    /\ pc # "panic" /\ f.at = "dir"
    /\ dir' = [dir EXCEPT ![Owner(current)][Region(f.page)] = f.entry.flags]
    /\ fault' = [fault EXCEPT ![current].at = "table"]
    /\ UNCHANGED <<cr2, tables, vmm, tlb, current, kmain, frames, hit>>

fault_table ==
    LET f == fault[current] IN
    /\ pc # "panic" /\ f.at = "table"
    /\ tables' = [tables EXCEPT ![f.page] = f.entry]
    /\ fault' = [fault EXCEPT ![current] = NoFault]
    /\ UNCHANGED <<cr2, dir, vmm, tlb, current, kmain, frames, hit>>

evict(p) ==
    /\ pc # "panic"
    /\ tlb' = [q \in DOMAIN tlb \ {p} |-> tlb[q]]
    /\ UNCHANGED <<cr2, dir, tables, vmm, current, fault, kmain, frames, hit>>
-----------------------------------------------------------------------------
(* kernel_main creates its tasks.                                          *)

At(where) == current = Main /\ fault[Main] = NoFault /\ pc = where

\* The directory after its regions with pages in S are mapped for the kernel.
WithRegions(d, S) == [r \in DOMAIN d |-> IF \E p \in S : Region(p) = r THEN KernelFlags ELSE d[r]]

\* Tables or allocations after some pages have got new entries.
WithPages(f, entries) ==
    [p \in DOMAIN f |-> IF p \in DOMAIN entries THEN entries[p] ELSE f[p]]

\* The pages of the image and of the heap stay mapped: their allocations, which
\* no fault will look up, are left out.
init_paging ==
    /\ At("init_paging")
    /\ dir' = [dir EXCEPT ![Main] = WithRegions(@, Image)]
    /\ tables' = WithPages(tables, [p \in Image |-> Entry(FixedFrame(p), KernelFlags)])
    /\ pc' = "stack"
    /\ UNCHANGED <<cr2, vmm, tlb, current, fault, new, page, todo, brk, stack, dirpage, frames, hit>>

\* init_create_user_task maps the ELF file and reads its header.
map_elf ==
    /\ At("elf")
    /\ brk \in Page                \* bound
    /\ vmm' = [vmm EXCEPT ![Main][brk] = Entry(FixedFrame(brk), KernelFlags)]
    /\ page' = brk /\ brk' = brk + 1
    /\ pc' = "parse"
    /\ UNCHANGED <<cr2, dir, tables, tlb, current, fault, new, todo, stack, dirpage, frames, hit>>

parse_elf ==
    /\ At("parse")
    /\ Access(page, FALSE, FALSE)
    /\ pc' = "stack"
    /\ UNCHANGED <<cr2, dir, tables, vmm, current, fault, new, page, todo, brk, stack, dirpage, frames>>

\* The pages of a stack that are mapped at once: all but the one at its bottom.
StackMapped(bottom) == bottom + 1 .. bottom + StackPages - 1

StackFrame(p, bottom) == frames + (p - bottom)

\* The allocation of the stack has the frame of its bottom for all its pages.
alloc_kernel_stack ==
    LET bottom == IF new = Main THEN LowPage ELSE brk
        EntryFor(p) == Entry(StackFrame(p, bottom), KernelFlags)
    IN  /\ At("stack")
        /\ bottom + StackPages - 1 \in Page        \* bound
        /\ vmm' = [vmm EXCEPT ![Main] =
                WithPages(@, [p \in bottom .. bottom + StackPages - 1 |-> EntryFor(bottom)])]
        /\ tables' = WithPages(tables, [p \in StackMapped(bottom) |-> EntryFor(p)])
        /\ dir' = [dir EXCEPT ![Main] = WithRegions(@, StackMapped(bottom))]
        /\ frames' = frames + StackPages
        /\ brk' = IF new = Main THEN brk ELSE brk + StackPages
        /\ stack' = [stack EXCEPT ![new] = bottom]
        /\ IF new \in User THEN pc' = "directory" /\ UNCHANGED page
           ELSE pc' = "push" /\ page' = bottom + StackPages - 1
        /\ UNCHANGED <<cr2, tlb, current, fault, new, todo, dirpage, hit>>

\* vmm_clone_paging_context: a page for the new directory, and the copy.
map_directory ==
    /\ At("directory")
    /\ brk \in Page                \* bound
    /\ vmm' = [vmm EXCEPT ![Main][brk] = Entry(frames, KernelFlags)]
    /\ page' = brk /\ brk' = brk + 1 /\ frames' = frames + 1
    /\ pc' = "copy_directory"
    /\ UNCHANGED <<cr2, dir, tables, tlb, current, fault, new, todo, stack, dirpage, hit>>

\* Mutation: the entries are read before the new page has been mapped.
StaleDirectory == [dir[Main] EXCEPT ![Region(page)] = {}]

CopiedDirectory == dir[Main]

copy_directory ==
    /\ At("copy_directory")
    /\ Access(page, FALSE, TRUE)
    /\ dir' = [dir EXCEPT ![new] = CopiedDirectory]
    /\ dirpage' = [dirpage EXCEPT ![new] = page]
    /\ page' = stack[new] + StackPages - 1
    /\ pc' = "push"
    /\ UNCHANGED <<cr2, tables, vmm, current, fault, new, todo, brk, stack, frames>>

\* After Main come the user tasks, then the test tasks.
Created ==
    /\ new' = new + 1
    /\ pc' = IF new + 1 \notin Task THEN "run" ELSE IF new + 1 \in User THEN "elf" ELSE "stack"

\* task_create fills in the top of the stack; for a user task,
\* vmm_clone_context follows.
push_frame ==
    /\ At("push")
    /\ Access(page, FALSE, TRUE)
    /\ IF new \in User
       THEN /\ vmm' = [vmm EXCEPT ![new] = vmm[Main]]
            /\ todo' = Segments[new]
            /\ pc' = "load" /\ UNCHANGED new
       ELSE Created /\ UNCHANGED <<vmm, todo>>
    /\ UNCHANGED <<cr2, dir, tables, current, fault, page, brk, stack, dirpage, frames>>

\* handle_loadable_segment, for one page.
load_map(p) ==
    /\ At("load")
    /\ p \in todo
    /\ vmm' = [vmm EXCEPT ![Main][p] = Entry(frames, UserFlags(new, p))]
    /\ page' = p /\ frames' = frames + 1
    /\ pc' = "copy"
    /\ UNCHANGED <<cr2, dir, tables, tlb, current, fault, new, todo, brk, stack, dirpage, hit>>

load_copy ==
    /\ At("copy")
    /\ Access(page, FALSE, TRUE)
    /\ vmm' = [vmm EXCEPT ![new][page] = vmm[Main][page]]
    /\ pc' = "unmap"
    /\ UNCHANGED <<cr2, dir, tables, current, fault, new, page, todo, brk, stack, dirpage, frames>>

\* Mutation: the cached translation is not invalidated.
NotInvalidated(p) == tlb

paging_invlpg(p) == [q \in DOMAIN tlb \ {p} |-> tlb[q]]

\* paging_unmap_addr clears the flags of the whole region in the directory.
load_unmap ==
    /\ At("unmap")
    /\ vmm' = [vmm EXCEPT ![Main][page] = NoAlloc]
    /\ dir' = [dir EXCEPT ![Main][Region(page)] = {}]
    /\ tables' = [tables EXCEPT ![page] = NoEntry]
    /\ tlb' = paging_invlpg(page)
    /\ todo' = todo \ {page}
    /\ pc' = "load"
    /\ UNCHANGED <<cr2, current, fault, new, page, brk, stack, dirpage, frames, hit>>

map_user_stack ==
    /\ At("load")
    /\ todo = {}
    /\ vmm' = [vmm EXCEPT ![new] =
            WithPages(@, [p \in UserStack |->
                            Entry(frames + (p - UserStackPage), UserFlags(new, p))])]
    /\ frames' = frames + USER_STACK_PAGE_COUNT
    /\ Created
    /\ UNCHANGED <<cr2, dir, tables, tlb, current, fault, page, todo, brk, stack, dirpage, hit>>

kernel_main ==
    \/ init_paging \/ map_elf \/ parse_elf \/ alloc_kernel_stack \/ map_directory
    \/ copy_directory \/ push_frame \/ (\E p \in Page : load_map(p)) \/ load_copy
    \/ load_unmap \/ map_user_stack

\* The accesses of kernel_main that may fault.
kernel_access ==
    /\ current = Main /\ fault[Main] = NoFault /\ pc \in {"parse", "copy_directory", "copy"}
    /\ page_fault(page, FALSE, pc # "parse")
-----------------------------------------------------------------------------
(* The tasks run.                                                          *)

Pages(u) == Segments[u] \cup UserStack

\* A user task accesses its memory as its segments allow.
user_access(p, write) ==
    /\ pc = "run" /\ current \in User /\ fault[current] = NoFault
    /\ p \in Pages(current) /\ (write => p \notin ReadOnly[current])
    /\ \/ /\ Access(p, TRUE, write)
          /\ UNCHANGED <<cr2, dir, tables, vmm, current, fault, kmain, frames>>
       \/ page_fault(p, TRUE, write)

\* Mutation: the comparison of the directories is the wrong way round.
KeptForOther(t) == IF Owner(t) # Owner(current) THEN tlb ELSE << >>

\* CR3 is loaded, which empties the TLB, only if the directory is another one.
AfterLoad(t) == IF Owner(t) = Owner(current) THEN tlb ELSE << >>

\* do_task_switch, also in the middle of a page fault handler.
do_task_switch(t) ==
    /\ pc = "run" /\ t # current
    /\ current' = t
    /\ tlb' = AfterLoad(t)
    /\ UNCHANGED <<cr2, dir, tables, vmm, fault, kmain, frames, hit>>

Stopped == pc = "panic" /\ UNCHANGED vars

Next ==
    \/ kernel_main \/ kernel_access
    \/ \E p \in Page, write \in BOOLEAN : user_access(p, write)
    \/ page_fault_handler \/ fault_dir \/ fault_table
    \/ \E p \in DOMAIN tlb : evict(p)
    \/ \E t \in Task : do_task_switch(t)
    \/ Stopped

Spec == Init /\ [][Next]_vars
-----------------------------------------------------------------------------
(* Properties.                                                             *)

Present(o, p) == "P" \in dir[o][Region(p)] \cap tables[p].flags

\* The kernel pages a task needs whenever it is interrupted or switched to: the
\* image, its stack down to the last page but one, and its page directory.
KernelPages(t) ==
    Image \cup StackMapped(stack[t]) \cup IF t \in User THEN {dirpage[t]} ELSE {}

IsCreated(t) == stack[t] # None /\ (t \in User => dirpage[t] # None)

\* A switch to a task that has been created, and the page fault handler when it
\* runs in it, find their memory mapped in that task's own directory, although
\* it is a copy that later mappings of the kernel do not reach: a fault there
\* could not be handled.  Stacks, directories and the image never share a frame,
\* although every page of a stack has the frame of its bottom in the allocation,
\* and none has frame 0, which the handler takes for "no frame".
SwitchIsSafe ==
    \A t \in Task : IsCreated(t) => \A p \in KernelPages(t) :
        /\ Present(Owner(t), p)
        /\ tables[p].frame # 0
        /\ \A u \in Task : IsCreated(u) => \A q \in KernelPages(u) :
            p # q => tables[p].frame # tables[q].frame

\* What the loader copies goes to the frame it has just got for that page, also
\* when another task's program was loaded at the same address before.
LoaderWritesOwn == [][pc = "copy" /\ pc' = "unmap" => hit'.frame = vmm[Main][page].frame]_vars

\* The processor never uses a translation that the page tables do not have any
\* more, with invlpg called for the pages the loader unmaps and for no other.
TlbCoherent ==
    \A p \in DOMAIN tlb : Present(Owner(current), p) /\ tlb[p].frame = tables[p].frame

\* A user task's access to a page that no other task has mapped reaches the
\* frame of that task, whatever faults of the others, who write to the same
\* page tables, come in between.
PrivatePagesOwn ==
    \A u \in User :
        hit.task = u /\ (\A v \in User \ {u} : hit.page \notin Pages(v))
            => hit.frame = vmm[u][hit.page].frame

\* A user task that stays within its segments meets a protection fault, which
\* stops the machine, only if one of its own pages in the same region is
\* read-only (mapping it takes the right to write from the directory entry) or
\* another task has that page read-only (they share the page table).
ProtectionFaultsExplained ==
    \A u \in User : "P" \in fault[u].err_code =>
        LET p == fault[u].page IN
        \/ \E q \in ReadOnly[u] : Region(q) = Region(p)
        \/ \E v \in User : p \in ReadOnly[v]

\* page_fault.c:12: "Get the (linear) address that triggered the page fault."
\* The handler maps the page on which its task faulted.
HandlesOwnFault ==
    [][\A t \in Task : fault[t].at = "entry" /\ fault'[t].at = "dir"
            => fault'[t].page = fault[t].page]_vars
=============================================================================
