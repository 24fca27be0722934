-------------------------------- MODULE Vmm --------------------------------
(***************************************************************************)
(* The virtual memory manager, kernel/arch/i386/mm/vmm.c, and the kernel   *)
(* code that drives it while tasks are created: task.c, addr_space.c,      *)
(* init.c and the page loop of elf/loader.c.                               *)
(*                                                                         *)
(* Addresses are counted in pages.  A context has the list of the free     *)
(* blocks and the search tree of the allocations.  A tree is a function    *)
(* from the path of a node, a sequence of turns from the root, to its      *)
(* allocation, so that a walk down the tree is the set of the nodes whose  *)
(* path agrees with the comparisons on the way.                            *)
(*                                                                         *)
(* Two fields of a context are no part of the program.  `map' has, for     *)
(* each page, the frame that the calls so far have mapped it to, 0 if      *)
(* none; `moved' says that the pointer to the first block has changed.     *)
(***************************************************************************)
EXTENDS Integers, Sequences, SequencesExt, FiniteSetsExt

CONSTANTS Pages,        \* pages of the address space, 2^32 / PAGE_SIZE
          PageSize,
          UserPages,    \* higher_half_base, the first page of the kernel's half
          KernelStart,  \* the page of KERNEL_MEMINFO.virtual_start
          ADDR_SPACE,   \* the regions mapped at boot, [addr, count]
          StackPages,   \* KERNEL_STACK_PAGE_COUNT
          UserStack,    \* the pages of the user stack, lowest first
          ElfPages,     \* pages the segments of an ELF file may ask for
          MaxLoads,     \* bound: pages loaded for one task
          MaxTasks      \* bound: tasks created

ASSUME VmmAssumption ==
    /\ 0 < UserPages /\ UserPages < KernelStart /\ KernelStart < Pages
    /\ StackPages \in Nat \ {0} /\ MaxLoads \in Nat /\ MaxTasks \in Nat
    /\ ElfPages \subseteq 1 .. UserPages - 1

VARIABLES step,         \* where the creation of a task is
          kern,         \* the context of the kernel
          user,         \* the context of the user task being created
          page,         \* the page the loader is at
          loads, tasks, \* pages loaded for this task, tasks created
          frames        \* frames handed out by the PMM so far

vars == <<step, kern, user, page, loads, tasks, frames>>

Page == 0 .. Pages - 1
CountMod == 4 * Pages           \* page counts wrap far above page addresses
-----------------------------------------------------------------------------
(* The list of free blocks.                                                *)

Block(addr, count) == [addr |-> addr, count |-> count]

is_addr_in_range(va, b) == va >= b.addr /\ va < b.addr + b.count

is_addr_in_user_range(va, n) == va + n < UserPages

\* Mutation: the kernel may be given any address.
AnyMode(va, n, is_userspace) ==
    is_userspace => is_addr_in_user_range(va, n)

is_addr_ok_for_mode(va, n, is_userspace) ==
    IF is_userspace THEN is_addr_in_user_range(va, n) ELSE va >= KernelStart

\* The blocks remove_free_blocks would stop at.  A request for address 0 is a
\* request for any address, but 0 is also looked for in the block's range.
Suitable(free, va, n, is_userspace) ==
    {i \in DOMAIN free :
        /\ \/ va = 0 /\ is_addr_ok_for_mode(free[i].addr, n, is_userspace)
           \/ is_addr_in_range(va, free[i])
        /\ free[i].count >= n}

Offset(b, va) == IF va = 0 THEN 0 ELSE va - b.addr

\* It panics if it finds no block, or one that ends too early.
FreeBlocksFound(free, va, n, is_userspace) ==
    LET S == Suitable(free, va, n, is_userspace) IN
    /\ S # {}
    /\ LET b == free[Min(S)] IN b.count = n \/ n <= b.count - Offset(b, va)

\* What is left of a larger block.
Remainder(b, va, n) ==
    LET off == Offset(b, va) IN
    IF va = 0 \/ va = b.addr THEN <<Block(b.addr + n, b.count - n)>>
    ELSE IF off + n < b.count
         THEN <<Block(b.addr, off), Block(b.addr + off + n, b.count - (off + n))>>
         ELSE <<Block(b.addr, b.count - n)>>

Splice(s, i, t) == SubSeq(s, 1, i - 1) \o t \o SubSeq(s, i + 1, Len(s))

remove_free_blocks(free, va, n, is_userspace) ==
    LET i == Min(Suitable(free, va, n, is_userspace))
        b == free[i]
    IN  IF b.count = n
        THEN [free |-> RemoveAt(free, i), addr |-> va, moved |-> i = 1]
        ELSE [free |-> Splice(free, i, Remainder(b, va, n)),
              addr |-> IF va = 0 THEN b.addr ELSE va, moved |-> FALSE]

\* Mutation: the new block does not point to the blocks behind it.
LosesRest(free, k, va, n) == Append(SubSeq(free, 1, k), Block(va, n))

\* merge_or_insert_free_blocks on the k-th block.  The test that was to keep
\* the halves apart lets only blocks of different halves merge.
MergeOrInsert(free, k, va, n) ==
    LET b == free[k]
        mayMerge == is_addr_in_user_range(b.addr, b.count) # is_addr_in_user_range(va, n)
        withNew  == mayMerge /\ (b.addr + n) % Pages = va
        withNext == mayMerge /\ k < Len(free) /\ (b.addr + n) % Pages = free[k + 1].addr
        grown    == Block(b.addr, b.count + (IF withNew THEN n ELSE 0)
                                          + (IF withNext THEN free[k + 1].count ELSE 0))
    IN  IF ~ withNew /\ ~ withNext THEN InsertAt(free, k + 1, Block(va, n))
        ELSE IF withNext THEN RemoveAt(Splice(free, k, <<grown>>), k + 1)
        ELSE Splice(free, k, <<grown>>)

\* The new block goes behind the blocks that start below it.  Merged with the
\* first block, it makes that longer at the wrong end.
add_free_blocks(free, va, n) ==
    LET k == Min({i \in DOMAIN free : va <= free[i].addr} \cup {Len(free) + 1}) - 1
    IN  IF k > 0 THEN [free |-> MergeOrInsert(free, k, va, n), moved |-> FALSE]
        ELSE IF free # <<>> /\ (va + n) % Pages = free[1].addr
        THEN [free |-> Splice(free, 1, <<Block(free[1].addr, free[1].count + n)>>), moved |-> FALSE]
        ELSE [free |-> <<Block(va, n)>> \o free, moved |-> TRUE]
-----------------------------------------------------------------------------
(* The tree of allocations.                                                *)

\* The nodes a walk that looks for va passes if nothing stops it: those where
\* every turn is to the left below a greater address and else to the right.
Turn(a, va) == IF va < a.addr THEN "left" ELSE "right"
Walk(tree, va) ==
    {p \in DOMAIN tree : \A i \in DOMAIN p : p[i] = Turn(tree[SubSeq(p, 1, i - 1)], va)}

\* The first node of the walk in S, nearest to the root.
First(S) == CHOOSE p \in S : \A q \in S : Len(p) <= Len(q)
Bottom(S) == CHOOSE p \in S : \A q \in S : Len(q) <= Len(p)

Allocation(va, n, frame) == [addr |-> va, count |-> n, frame |-> frame]

\* An empty tree is a root without pages.
add_allocation(tree, alloc) ==
    IF tree[<<>>].count = 0 THEN [tree EXCEPT ![<<>>] = alloc]
    ELSE LET p == Bottom(Walk(tree, alloc.addr))
         IN  Append(p, Turn(tree[p], alloc.addr)) :> alloc @@ tree

\* The end of an allocation is computed in 32 bits.
Holds(a, va) == va >= a.addr /\ va < (a.addr + a.count) % Pages

vmm_find_allocation(tree, va) ==
    LET S == {p \in Walk(tree, va) : Holds(tree[p], va)}
    IN  IF S = {} THEN Allocation(0, 0, 0) ELSE tree[First(S)]

\* The node that starts at va is moved up by n pages, never removed: n is
\* compared with its address in bytes and not with its number of pages.
UnmapFound(tree, va, n) ==
    \E p \in Walk(tree, va) : tree[p].addr = va /\ n < va * PageSize

\* Mutation: the node is left as it is.
KeepNode(tree, va, n) == tree

ShiftNode(tree, va, n) ==
    LET p == First({q \in Walk(tree, va) : tree[q].addr = va})
    IN  [tree EXCEPT ![p].addr = (@ + n) % Pages, ![p].count = (@ - n) % CountMod]
-----------------------------------------------------------------------------
(* The calls on a context.                                                 *)

CanMap(ctx, va, n, is_userspace) == FreeBlocksFound(ctx.free, va, n, is_userspace)

vmm_map_pages(ctx, va, frame, n, is_userspace) ==
    LET r == remove_free_blocks(ctx.free, va, n, is_userspace)
    IN  [free  |-> r.free,
         tree  |-> add_allocation(ctx.tree, Allocation(r.addr, n, frame)),
         map   |-> [p \in Page |-> IF p \in r.addr .. r.addr + n - 1 THEN frame ELSE ctx.map[p]],
         moved |-> ctx.moved \/ r.moved]

CanUnmap(ctx, va, n) == UnmapFound(ctx.tree, va, n)

vmm_unmap_pages(ctx, va, n) ==
    LET r == add_free_blocks(ctx.free, va, n)
    IN  [free  |-> r.free,
         tree  |-> ShiftNode(ctx.tree, va, n),
         map   |-> [p \in Page |-> IF p \in va .. va + n - 1 THEN 0 ELSE ctx.map[p]],
         moved |-> ctx.moved \/ r.moved]

create_empty_ctx ==
    [free |-> <<>>, tree |-> (<<>> :> Allocation(0, 0, 0)), map |-> [p \in Page |-> 0],
     moved |-> FALSE]

\* The two halves are free; then the i-th region of ADDR_SPACE gets frame i.
vmm_new_context ==
    LET halves == add_free_blocks(add_free_blocks(<<>>, 0, UserPages).free,
                                  UserPages, Pages - UserPages).free
        Map(ctx, i) == vmm_map_pages(ctx, ADDR_SPACE[i].addr, i, ADDR_SPACE[i].count, FALSE)
    IN  FoldLeft(Map, [create_empty_ctx EXCEPT !.free = halves],
                 [i \in DOMAIN ADDR_SPACE |-> i])
-----------------------------------------------------------------------------
(* The kernel creates tasks.                                               *)

Init ==
    /\ step = "boot"
    /\ kern = create_empty_ctx /\ user = create_empty_ctx
    /\ page = 0 /\ loads = 0 /\ tasks = 0
    /\ frames = Len(ADDR_SPACE)

vmm_init ==
    /\ step = "boot"
    /\ kern' = [vmm_new_context EXCEPT !.moved = FALSE]
    /\ step' = "init_sched"
    /\ UNCHANGED <<user, page, loads, tasks, frames>>

\* A mapping in the kernel's context to a frame just handed out by the PMM.
MapKern(va, n, is_userspace, then) ==
    IF CanMap(kern, va, n, is_userspace)
    THEN /\ kern' = vmm_map_pages(kern, va, frames + 1, n, is_userspace)
         /\ frames' = frames + 1
         /\ step' = then
    ELSE step' = "panic" /\ UNCHANGED <<kern, frames>>

alloc_kernel_stack(then) == MapKern(0, StackPages, FALSE, then)

\* init_sched creates task 0; later kernel_main creates its test tasks.
create_kernel_task ==
    /\ step = "init_sched" \/ (step = "idle" /\ tasks < MaxTasks)
    /\ alloc_kernel_stack("idle")
    /\ tasks' = tasks + 1
    /\ UNCHANGED <<user, page, loads>>

\* init_create_user_task: the ELF file, the kernel stack and the page directory
\* of the task are mapped anywhere; its context is a clone of the kernel's.
map_elf_file ==
    /\ step = "idle" /\ tasks < MaxTasks
    /\ MapKern(0, 1, FALSE, "elf")
    /\ UNCHANGED <<user, page, loads, tasks>>

create_user_task ==
    /\ step = "elf"
    /\ alloc_kernel_stack("stack")
    /\ UNCHANGED <<user, page, loads, tasks>>

vmm_clone_paging_context ==
    /\ step = "stack"
    /\ MapKern(0, 1, FALSE, "clone")
    /\ UNCHANGED <<user, page, loads, tasks>>

vmm_clone_context ==
    /\ step = "clone"
    /\ user' = kern
    /\ loads' = 0
    /\ step' = "load"
    /\ UNCHANGED <<kern, page, tasks, frames>>

\* handle_loadable_segment, for one page: it is mapped in the kernel's context
\* so that the data can be copied, mapped in the task's, and unmapped.
load_map(p) ==
    /\ step = "load" /\ loads < MaxLoads
    /\ MapKern(p, 1, TRUE, "copied")
    /\ page' = p
    /\ UNCHANGED <<user, loads, tasks>>

load_map_user ==
    /\ step = "copied"
    /\ IF CanMap(user, page, 1, TRUE)
       THEN user' = vmm_map_pages(user, page, frames, 1, TRUE) /\ step' = "unmap"
       ELSE step' = "panic" /\ UNCHANGED user
    /\ UNCHANGED <<kern, page, loads, tasks, frames>>

load_unmap ==
    /\ step = "unmap"
    /\ IF CanUnmap(kern, page, 1)
       THEN kern' = vmm_unmap_pages(kern, page, 1) /\ step' = "load"
       ELSE step' = "panic" /\ UNCHANGED kern
    /\ loads' = loads + 1
    /\ UNCHANGED <<user, page, tasks, frames>>

\* The stack of the user task, page by page.
map_user_stack ==
    LET Map(ctx, i) == vmm_map_pages(ctx, UserStack[i], frames + i, 1, TRUE) IN
    /\ step = "load"
    /\ IF \A i \in DOMAIN UserStack : CanMap(user, UserStack[i], 1, TRUE)
       THEN /\ user' = FoldLeft(Map, user, [i \in DOMAIN UserStack |-> i])
            /\ step' = "idle"
       ELSE step' = "panic" /\ UNCHANGED user
    /\ frames' = frames + Len(UserStack)
    /\ tasks' = tasks + 1
    /\ UNCHANGED <<kern, page, loads>>

\* The kernel has panicked, or has created its tasks and changes no context.
Done ==
    /\ step = "panic" \/ (step = "idle" /\ tasks >= MaxTasks)
    /\ UNCHANGED vars

Next ==
    \/ vmm_init \/ create_kernel_task
    \/ map_elf_file \/ create_user_task \/ vmm_clone_paging_context \/ vmm_clone_context
    \/ \E p \in ElfPages : load_map(p)
    \/ load_map_user \/ load_unmap \/ map_user_stack
    \/ Done

Spec == Init /\ [][Next]_vars
-----------------------------------------------------------------------------
(* Properties.                                                             *)

Contexts == {kern, user}

\* The free blocks are exactly the pages that are not mapped, each in one
\* block, whatever was mapped and unmapped in whatever order: no page is
\* handed out twice and none is lost, and no block is empty or reaches beyond
\* the address space.  The pointer to the first block is never assigned after
\* boot, so this is also what the contexts show that kernel_main and the tasks
\* hold by value.
FreeBlocksExact ==
    step # "boot" =>
        /\ ~ kern.moved
        /\ \A ctx \in Contexts \ {create_empty_ctx} :
            /\ \A b \in Range(ctx.free) : b.addr \in Page /\ b.count \in 1 .. Pages - b.addr
            /\ \A p \in Page :
                Quantify(DOMAIN ctx.free, LAMBDA i : is_addr_in_range(p, ctx.free[i]))
                    = IF ctx.map[p] = 0 THEN 1 ELSE 0

\* A page fault finds what was mapped: the lookup returns the allocation of
\* every mapped page, also in the copy the task got, and nothing for a page
\* that was unmapped, although unmapping leaves its node in the tree.
LookupExact ==
    \A ctx \in Contexts, p \in Page : vmm_find_allocation(ctx.tree, p).frame = ctx.map[p]

\* vmm.c:403-404: a request for any address gets one that is acceptable for its
\* ring.  Between the loads, all that the kernel's context maps lies in the
\* kernel's half, with one exception: the first kernel stack is put at address
\* 0, because 0, which stands for any address, is also looked for in the block.
KernelMapsInKernelHalf ==
    step = "idle" => \A p \in Page : kern.map[p] # 0 => p >= UserPages \/ p < StackPages
=============================================================================
