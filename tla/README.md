# gubos: TLA+ models and proofs

gubos ("memo") is a small i386 kernel in C: a GRUB-booted, single-CPU, higher-half
kernel with a first-fit heap, a bitmap of physical frames, one virtual memory
context per task, a preemptive round-robin scheduler and ELF user programs. This
directory models the parts that keep state over time, checks the models with TLC on
small instances, and proves the main safety results with TLAPS for every size.

Paths below are relative to `src/`; `mm/` stands for `kernel/arch/i386/mm/`.

## The system and its parts

| part | code | state | operations | module |
|---|---|---|---|---|
| kernel heap | `kernel/kmalloc.c` | list of free regions, a header in front of each region | `kmalloc_init`, `kmalloc`, `kfree` | `Kmalloc` |
| physical frames | `mm/pmm.c` | `MEM_BITMAP` | `pmm_init`, `pmm_alloc_page`, `pmm_free_page` | `Pmm` |
| virtual memory | `mm/vmm.c` | per context: list of free blocks, tree of allocations | new context, clone, map, unmap, find | `Vmm` |
| task creation | `kernel/task.c`, `kernel/init.c`, `mm/addr_space.c` | the kernel's and the new task's context, the first words of a stack | create kernel task, create user task, map the stack | `Vmm`, `Paging`, `Stacks`, `Loader` |
| ELF loading | `kernel/elf/` | the bytes of the frames loaded | header checks, program headers, copy and clear loop | `Loader` |
| paging, page faults | `mm/paging.c`, `interrupts/page_fault.c` | directories, shared page tables, TLB, CR2 | map, unmap, clone a directory, fault, access | `Paging` |
| scheduler | `kernel/sched.c`, `kernel/arch/i386/task_switch.S` | ring of tasks, three pointers into it, `CURRENT_TASK` | `init_sched`, `sched_add`, `sched_remove`, `sched_context_switch` | `Sched` |
| stacks and entry code | `task_switch.S`, `init_user_mode.S`, `syscall_int_handler.S`, `syscall.c` | every word of every kernel stack, registers, `tss.esp0` | push, pop, switch, `iret`, system call | `Stacks` |
| interrupts | `interrupts/idt.c`, `handlers.c`, `drivers/pic.c` | lines requested, in service and masked; handlers active on each stack | timer, keyboard, default and exception handlers, end of interrupt | `Pic`, `Interrupts` |
| keyboard | `drivers/ps2.c` | both buffers and the configuration of the controller, the queue of scan codes | initialisation, handler | `Interrupts` |
| terminal | `kernel/arch/i386/tty.c` | cursor, cells | put a character, adjust the cursor, scroll | `Terminal` |
| kernel log | `kernel/printk.c`, `itoa.c`, `string/string.c` | the calls under way | `vprintk`, number conversions | `Printk`, `Console` |
| exit, panic | `kernel/syscall/exit.c`, `kernel/panic.c` | | the system call, the stop | `Sched`, `Interrupts` |
| boot | `boot.S`, `kernel/kernel.c`, `multiboot2.c`, `gdt.c`, `gdt.inc`, `load_gdt.S` | boot information, descriptor tables, where `kernel_main` is | tag walks, GDT and TSS setup, start of the tasks | `Multiboot`, `Gdt`, `Boot` |
| libc, programs, copies of bytes, port access | | | | not modelled |

How they interact: `kernel_main` initialises frames, then virtual memory (whose nodes
come from the heap), then the scheduler. It creates tasks, which map kernel stacks and
load ELF pages with frames from the PMM, and adds them to the ring. From `init_sched`
on a tick can preempt it at any instruction. A task leaves through `exit` (interrupt
gate: interrupts disabled) or by returning from its function (interrupts enabled).
There are no locks.

What is hard here: preemption between two stores of `sched_add` or inside
`sched_context_switch`; `sched_remove` on a ring another task is filling; heap use by a
preempted and a preempting task; 32-bit arithmetic at the ends of the address space and
of the bitmap; page fault handlers that preempt each other on shared page tables;
an end of interrupt that does not name its line; a driver and its handler that read the
same port; a cursor that several tasks move; interrupts enabled before the descriptor
table is loaded; directories that are copies made once; a free list whose neighbours depend on the
order of unmaps; nodes of unmapped pages that stay in the tree; contexts passed by
value. `PROJECT.json` lists each hazard at its line.

## Modules

**`Kmalloc`** (`MCKmalloc`, `KmallocProofs`). `free` is the list from `KMALLOC_HEAD`,
`live` the regions callers hold, with the size that their header keeps. `kmalloc(size)`
is a first-fit scan with three outcomes (`TakeWhole`, `Split`, `OutOfHeap`, which is the
NULL return); `kfree` puts a region in front of the list and joins nothing. Callers give
back what they got, once.

**`ExclusiveAllocator`** is the abstract promise: sets of bytes are taken and returned,
and those owned never overlap. `Kmalloc` implements it with the payloads of the live
regions as what is owned.

**`Pmm`** (`MCPmm`, `PmmProofs`). `used` is the set of set bits, `granted` counts the
holders of a frame, `layout` is the memory layout that `pmm_init` has seen. `pmm_init`
marks ranges as the code does, in steps of a page from an unaligned start, with 64-bit
bounds cut to 32 bits (`Cut`); a range whose last step wraps makes its loop endless
(`"hung"`). What is meant to be reserved is defined apart from what is marked:
`FramesOf` has every frame that overlaps a range. The
shift of `pmm_mark_addr_free` is undefined in C when it exceeds the width; the model
uses what the `-O0` build for i386 does, a count modulo the word width. The widths of
an entry and of a word are constants.

**`Vmm`** (`MCVmm`). Both contexts keep the free list and the tree as the code does. A
tree is a function from paths to allocations, so a walk is a set of paths and no
recursion is needed. Ghost fields: `map` (what the calls have mapped) and `moved` (the
pointer to the first block was assigned). The actions follow task creation in order:
boot regions, kernel stacks, the ELF file, the clone, each loaded page (map in the
kernel's context, map in the task's, unmap), the user stack.

**`Sched`** (`MCSched`, `SchedProofs`). A step of `sched_add`, `sched_remove` or
`sched_context_switch` makes one load or one store of what tasks share, as the `-O0`
build does, so a tick can fall between any two; `local[t]` has the variables and
registers in between. A node is an address of the heap with fields `next` and `task_of`.
`kfree` leaves its content alone, and a later `kmalloc` may find a freed node again or
fresh memory. `irq[t]` is the stack of timer handlers active on task t: the handler sits
behind a trap gate and acknowledges the interrupt first, so it can be interrupted itself.

**`Paging`** (`MCPaging`, `PagingProofs`, `PagingMain`). Addresses are pages; a fixed number of them share a directory
entry (a "region", 4 MB in the code). `dir` has the flags of the directory entries of
each directory (`Main`'s, which kernel tasks use, and one per user task), `tables` the
page tables that all directories share, `vmm` what `vmm_find_allocation` answers, `tlb`
what the processor has cached. `kernel_main` is followed from `init_paging` through the
creation of every task, split where it touches memory that may not be mapped
(`kernel_access`); then user tasks access their pages as their segments allow. A fault is
four steps: the exception sets CR2, `page_fault_handler` reads it and looks the page up,
`fault_dir` and `fault_table` are the two stores. A task switch can fall between any of
them. The page walk, the TLB and the programs are external; CR0.WP is never set, so the
kernel may write to read-only pages. `FixedFrame` gives image, heap and ELF files frames
(negative ones) that the PMM does not hand out. `PagingAssumption` says that the areas of
the address space do not overlap and that programs (linked at ld's default address) and
user stacks lie in other regions than what the kernel maps. The address space is finite
(`LastPage`): a mapping that would end behind it is not made, which is the one bound of
the module.

**`Loader`** (`MCLoader`, `LoaderProofs`). `init_create_user_task` from the header check
to the user stack, with memory byte by byte: a byte of the file is its offset, so a
property can say which byte of the file an address of the task shows. A segment's page
is six actions: allocate and map for the kernel, copy, map for the task, clear, unmap,
advance. Only the page being loaded is mapped for the kernel, so a copy or a clear that
leaves it is a page fault without an allocation, hence a panic. `Reached` are the program
headers in front of the first `NULL` one, the only ones that the loop comes to.

**`Pic`** and **`Interrupts`** (`MCInterrupts`, `InterruptsProofs`).
`pic` has the lines requested, in service and masked; an end of interrupt clears the
highest priority in service. `irq[t]` is the stack of handlers on task t's
kernel stack. `ps2` is the controller behind the driver: its input and output buffer and
its configuration (external, modelled from the driver's commands). It may take any time
to react to a command. `main_step` is `kernel_main` from `pic_init` through each command
of `ps2_init_devices`, each a wait and a port access, to the idle loop. `SelfTestResets`
says whether the self-test puts the configuration back to its default. History variables:
`recent` (bytes stored), `seen` (keys read) and `stolen` (the initialisation took a byte
whose interrupt is still requested).

**`Terminal`**, **`Printk`**, **`Console`** (`MCConsole`, `ConsoleProofs`). `Terminal` cuts
`tty_putchar` and the two cursor adjustments at each load and store of `tty_row` and
`tty_column`; the index of a cell is computed in two loads (`index_row`, `index_column`),
and `raced` remembers that one task began while another was between its first load of a
coordinate and its last use of it. `Printk` is pure: `itoa`, `uitoa`, `uitoa_hex` and the specifiers of
`vprintk` as the code computes them, and beside them a reference by tables (`Numeral`,
`Meaning`, `Formatted`). `Console` runs several calls of `vprintk` over one terminal.

**`Stacks`**, **`Multiboot`**, **`Gdt`**, **`Boot`** (`MCBoot`). `Stacks` keeps each kernel
stack as the sequence of its words, with the kind of each word (return address, flags,
register), the task it belongs to and whose value it is; a return that takes a word of
another kind runs "wild". An interrupt handler saves and restores only EAX, ECX, EDX and
EBP (`Clobbered`): compiled with `-mgeneral-regs-only` and no optimisation it uses no
others. A new kernel stack has four zeros for the registers that `task_switch` pops
(`NewStack`), so a test task starts with zeros and gets registers of its own in
`test_task`. `Multiboot` has the
walks over the tags, `Gdt` the bytes of the descriptors and how the CPU reads them.
`Boot` composes the three: `_start`, `idt_init`, `gdt_init`, `kernel_main`, the tasks,
with ticks and keys wherever the CPU accepts them.

## Runs

"V" marks a run in which TLC must find the property
violated: the property is what a comment, a header or an assertion of the repository
says, and the code does otherwise.

| run | checks | shows |
|---|---|---|
| `heap` | `HeapPartitioned`, `HeadersPermanent`, `PayloadsExclusive` | any order of calls keeps regions well formed and disjoint, loses no byte, never joins regions, and implements the abstract allocator |
| `frames` | `FramesOwned`, `ReservedNeverGranted`, `AtMostEightOwners`, `FreedIsFree` | frames have one owner until the bitmap's surplus bits are used, then a bounded number; which frames of the reported layout are kept back; which frees clear the frame's bit |
| `scheduler` | `RingClosed`, `SchedHeadAllocated`, `SwitchesInOrder`, `HeapUndisturbed`, `EveryTaskRuns`, `ExitCompletes`, `MainRuns`, `InitStaysQueued` | filling and walking the ring under preemption; the child's exit, the only step that drops init; a kernel task's return |
| `returned_task_stays` V | `ReturnedIsRemoved` | the search loop never advances |
| `address_spaces` | `FreeBlocksExact`, `LookupExact`, `KernelMapsInKernelHalf` | free list and tree stay exact through task creation; only the first kernel stack is mapped below the kernel's half |
| `paging` | `SwitchIsSafe`, `TlbCoherent`, `LoaderWritesOwn`, `PrivatePagesOwn`, `ProtectionFaultsExplained` | a task's copy of the directory has all it needs to be switched to and to handle a fault; the loader reuses addresses safely; faults of other tasks do not touch a task's private pages; when a correct program can be stopped by a protection fault |
| `fault_address` V | `HandlesOwnFault` | a preempted handler reads another task's CR2 |
| `keyboard` | `KeysAccounted`, `InitCompletes`, `InServiceHeld`, `QueueHoldsLatest`, `KeysRead`, `PanicStops` | the initialisation and the handler read the same port: no key is lost between them, and the initialisation ends however slow the controller is; nested and preempted handlers end their own interrupts; the queue; the one way in which the keyboard goes dead; an exception stops the machine unless its task has lost its place in the ring |
| `console` | `CursorOnScreen`, `ScreenShowsEnd`, `PrintsFormat`, `Returns` | formats against the reference; the screen against an endless roll of paper; two tasks printing |
| `loader` | `LoadedExactly`, `FramesPrivate`, `PanicExplained` | every byte that a load leaves in memory, and that it maps no other pages, for segments of every small shape; which files stop it |
| `null_entry` V | `EverySegmentLoaded` | a `NULL` program header ends the load: segments behind it are missing |
| `boot` | `ResumesIntact`, `UserModeReady`, `BootOutcome`, `SegmentsInSync` | a task that goes on after an interrupt, a switch or a system call has the registers it had, and its own flags and return address; a program always has its kernel stack in the TSS; how a boot can end; what the selectors select |

### Bounds

- `heap`: 14 bytes, 2-byte headers, sizes 1, 2 and 4. Exact fit, split, a remainder of
  one byte, a remainder too small to split, and the NULL return all occur.
- `frames`: 8 frames, entries of 2 bits and words of 4, so a word spans two entries as
  32 bits span four. Five layouts: a plain one with an unaligned entry, one with an entry
  that ends inside the last frame (the endless loop), one whose firmware entry ends at
  4 GiB, one with an entry that straddles a page boundary, one with the framebuffer above
  4 GiB. `MaxHeld` = 16 is every bit of the bitmap, so the panic is reached.
- `scheduler`: two test tasks instead of kernel_main's three, init and its child; init and
  the child may exit, the first test task may return; keys are pressed. With two the task
  that returns has a neighbour of its kind, and its node, once freed, may be taken for the
  other test task or for a user task; a third would only make the ring longer, and what is
  proved holds for any number. `returned_task_stays` has one test task. `MaxNest` = 1: a handler
  ends before the next tick. Properties about one way of leaving are conditioned on the
  other not having happened (`NoReturn`, `NoExit`, `NobodyLeft`).
- `address_spaces`: 32 pages, 10 in the user's half; up to three tasks with up to three
  loaded pages each, at four possible pages, adjacent ones and ones next to the hole
  included. Page counts wrap at four times the address space.
- `paging`: 24 pages, two per region, so kernel stacks (three pages), directories and
  files keep crossing into new regions. Two user tasks with one program page in common,
  read-only in one of them, next to a writable page of the same region; one page each of
  their own; the same user stack page; one kernel task. All faults and switches
  interleave freely.
- `keyboard`: `kernel_main` and one more task, which leaves or raises an exception and on
  whose stack handlers nest (`Nesting`, `MaxNest` = 2), so that ticks and keys
  interrupt each other's handlers there and while they are preempted; one key, which with
  the other bytes that the handler reads wraps the queue of two; another device with an
  open line; a self-test that keeps the configuration.
- `console`: a screen of 2 by 2, ints of 6 bits and long longs of 8. One caller with all
  formats of up to three characters over eight, longer ones for `%ll` and the flags, and
  the extreme numbers; or two callers with messages that wrap and scroll.
- `loader`: pages of 3 bytes; one segment of any start, offset and sizes around one and
  two pages, before or behind another, or with a `NULL` or `NOTE` entry between them;
  right and wrong headers.
- `boot`: one test task, which returns; one handler on top of another; tag lists with and
  without console, memory map and modules, with sizes that need padding and that do not;
  a loader that is not a multiboot one.

### Fairness

`Sched`: weak fairness of `timer_irq`: the PIT keeps ticking. Weak fairness of
`sched_context_switch`: a handler runs until it returns. Strong fairness of
`kernel_main` and of each task's `leave_step` (what it does once it has begun to leave):
these are enabled only while the task has the CPU, and
the time between two ticks is many instructions, so a task scheduled again and again
advances. No fairness for `exit` and `task_returns`: a program need never exit and a test
task need never return. `panic` stops the machine and so may `Stopped` steps stutter; the liveness
properties allow for it.

`Interrupts`: the same for `main_step`, the keyboard handler and `panic` (strong) and
for the timer handler (weak). The controller behind the driver reacts (weak). Ticks and
keyboard interrupts are delivered if the CPU accepts them again and again (strong): a
request stays latched in the interrupt controller until it is taken. Keys need not be
pressed.

`Console`: weak fairness of each call's steps. The ring comes back to every task
(`EveryTaskRuns`), and nothing a call does can be disabled by another.

With `MaxNest` = 2 a second tick inside the first handler breaks `SwitchesInOrder`,
`EveryTaskRuns` and, when a task exits, `SchedHeadAllocated`. They
are therefore stated for handlers that end before the next tick: the handler is a few
dozen instructions, a tick many thousands. `RingClosed`, `HeapUndisturbed` and
`InitStaysQueued` need no such assumption and are proved for every `MaxNest`.

## Theorems

All are proved for every value of the constants that satisfies the module's `ASSUME`;
further hypotheses are named below. Each states a property that a run also checks.

**`KmallocProofs`**: `HeapWellFormed` (`HeapPartitioned`), `BoundariesPermanent`
(`HeadersPermanent`), `KmallocImplementsAllocator` (`PayloadsExclusive`). The inductive
invariant is `HeapPartitioned` itself: types give the bounds that a split needs. Lemmas
give what a split does to the bytes and to the headers, and what `RemoveAt` does to a
list of disjoint regions.

**`PmmProofs`**: `FramesHaveOneOwner` (`FramesOwned`), `OwnersBounded`
(`AtMostEightOwners`), `ReservedFramesSafe` (`ReservedNeverGranted`) and
`FreedFramesReusable` (`FreedIsFree`), all without hypothesis, for every layout.
`CoveredMarked` shows that the loop of `pmm_mark_range_used` reaches every frame that
overlaps a range, but for the two exceptions that `ReservedNeverGranted` names: a range
that reaches 4 GiB, and the last page of a range that starts deeper in its first page
than it ends in the last. `OnlyOverlappedMarked` shows that it reaches no other frame if
no range starts above 4 GiB, which `FreedIsFree` asks for. Another key lemma is
`ClearedIsOwn`: a clear that hits any bit hits the frame's own, because the word is a
whole number of entries. `AtMostEightOwners` is not inductive; `HeldHasBit` is: every
holder of a frame has left a bit set for it, and a frame has that many bits.

**`SchedProofs`**, for every number of test tasks:

- `RingAlwaysClosed` (`RingClosed`), for every `MaxNest`. The invariant `RingInv` adds
  where the tail is and what the registers hold at each point of `sched_add` (`Linking`,
  `Filling`), that a node not linked yet already points to the head (`NewNode`), and that a successor a preempted handler has read is a task of the
  ring; since the ring only grows while nobody leaves, what a handler holds stays good
  when it goes on later.
- `ExitLeavesHeapAlone` (`HeapUndisturbed`), for every `MaxNest`. `HeapInv` adds that a
  user task in the kernel keeps the CPU (`SyscallInv`) and that the child can only have
  run once `kernel_main` has linked it, which is after its last `kmalloc` (`ChildInv`),
  and what ring and registers are at each step of the child's `sched_remove` (`LeaveInv`).
- `InitTaskQueued` (`InitStaysQueued`), for every `MaxNest`, from `HeapInv`. `Ring` is
  defined as the least set that has the head and follows `next`; a step keeps init in it
  if each set that follows the new successors yields one that follows the old ones.
- `PositionAllocated` (`SchedHeadAllocated`) and `CpuGoesRound` (`SwitchesInOrder`) under
  `MaxNest = 1`; both are false for nested handlers. `SingleInv` says that the position
  is one ahead of the CPU at every step of the handler (`InStep`), and `LeaveInv` what the
  ring looks like at every step of the child's `sched_remove` (`Departing`, `Stage`).

**`PagingProofs`** and **`PagingMain`**, for every layout of the kernel, any number of
kernel tasks and every pair of programs: `TasksCanBeSwitchedTo` (`SwitchIsSafe`),
`NoStaleTranslation` (`TlbCoherent`), `PrivateMemory` (`PrivatePagesOwn`),
`ProtectionFaultsHaveReason` (`ProtectionFaultsExplained`), `LoaderReachesOwnFrames`
(`LoaderWritesOwn`). One invariant, `Inv`, carries all five. It says whose each entry is:
kernel pages get an entry once, with a frame of their own (`KernelMapped`,
`KernelFrames`); a page of a program has an entry for the kernel while it is loaded and
later for one of the tasks that have it (`UserMapped`); the entry a preempted fault
handler is about to store is the allocation of its page (`FaultsOK`); what the TLB holds
belongs to the directory in use (`TlbOK`). The crux is `UserMapped` together with
`FaultsOK`: page tables are shared, so a handler that resumes late stores into a table
that another task has changed, and the invariant says that what it stores is still an
entry one of the tasks may see there. After a panic nothing moves, and `Inv` only claims
the properties. `PagingProofs` has the invariant and the steps of user tasks, faults and
switches, `PagingMain` the steps of `kernel_main` and the theorems.

**`InterruptsProofs`**, for every number of tasks, keys and devices, every nesting depth
and every firmware mask:

- `EndsOwnInterrupt` (`InServiceHeld`). The invariant adds that a timer handler that has
  not ended its interrupt is the innermost handler of the task that runs: nothing of
  lower priority interrupts it and nobody switches away from it, so when the keyboard's
  handler sends its end of interrupt the timer is not in service.
- `QueueInOrder` (`QueueHoldsLatest`), for every size of the queue: at most one keyboard
  handler is between its store and the advance of the index (`QueueInv`).
- `NoKeyLost` (`KeysAccounted`). `KeysInv` adds the state of the controller (`DeviceOK`),
  that task 0 keeps the CPU until it starts the scheduler and writes back a
  configuration with the interrupt on (`MainOK`), and `LineOK`: an interrupt that is
  requested or not yet answered has its byte in the output buffer unless task 0 has
  taken it.

**`ConsoleProofs`**: `TerminalCursor` and `ConsoleCursor` (`CursorOnScreen`), for every
screen, set of tasks and set of calls. The inductive invariant says that at most one task
moves the cursor as long as none has raced, and where it is at each load and store; only
upper bounds hold, since a newline may set the column to zero behind a task's back.
`CellIndex` gives from the bounds of row and column that the store is inside the frame
buffer. The
second theorem follows from the first by `ConsoleUsesTerminal`, the refinement of
`Terminal` by `Console`: every step of a call is a step of the terminal or leaves it
alone.

**`LoaderProofs`**, for every page size, file and user stack:

- `LoadedFramesPrivate` (`FramesPrivate`). The invariant adds that frames are handed out
  in order and that the pages mapped so far have earlier ones than the page being loaded,
  that the kernel's context holds exactly the page being loaded, and the types that keep
  memory a sequence of whole frames under any copy and clear.
- `LoadIsExact` (`LoadedExactly`) and `PanicHasReason` (`PanicExplained`). `LInv` adds
  which bytes of which segments are in place at each step of the page loop (`Earlier`,
  `Progress`) and whose the task's pages are (`PagesOwned`). It rests on a fact about the
  code: a copy takes the whole rest of a segment, so that a segment the loader comes to
  the end of has at most two pages, the second one with zeros only.

Only model-checked:

- All liveness (`EveryTaskRuns`, `ExitCompletes`, `MainRuns`, `InitCompletes`, `KeysRead`,
  `PanicStops`, `Returns`), which is outside the prover's reach.
- `PrintsFormat` and `ScreenShowsEnd`: they compare with recursive definitions over the
  text, which takes induction over data.
- `Vmm`: a new context and a user stack are folds over lists of regions, and whether the
  free list and the tree stay exact depends on the layout ("Not modelled" names one where
  they do not), so that a theorem would have to assume most of what it says.
- `Boot`: its invariant would spell out every frame that every routine can leave on a
  kernel stack; the run has all of these frames, with handlers on top of each other.

## Known deviations

What the models have shown the code to do, beside the three violation runs, and how the
properties allow for it.

- The bitmap has 2^23 bits for 2^20 frames, so when memory runs out frames are handed
  out again before the panic (`mm/pmm.c:86`; `AtMostEightOwners`, and the condition
  `WithinMemory` of `FramesOwned`). `pmm_mark_addr_free` clears no bit for frames whose
  number modulo the word exceeds an entry (`mm/pmm.c:39`; `FreedIsFree` speaks of the
  others). A memory map entry that ends at 4 GiB, as that of a PC's firmware does, is not
  marked, and neither is the last page of a range that starts deeper in its first page
  than it ends there (`mm/pmm.c:30`; the two exceptions of `ReservedNeverGranted`).
- When the last task of the ring exits, `sched_remove` makes the head its own successor,
  which drops every other task, init among them (`kernel/sched.c:70`;
  `InitStaysQueued` names this step and no other).
- If a test task returns while `kernel_main` still adds tasks, its `sched_remove` may free
  its node while the ring still leads there; `sched_add` may get that node again and close a ring
  without task 0 (`kernel/sched.c:52`; `MainRuns` is stated for tasks that return later,
  `FilledFirst`).
- The first kernel stack is mapped at address 0 (`mm/vmm.c:409`;
  `KernelMapsInKernelHalf` excepts its pages).
- A page directory entry gets the flags of the page mapped last, and all tasks share the
  page tables (`mm/paging.c:97`; `ProtectionFaultsExplained`, `PrivatePagesOwn`).
- `ps2_controller_self_test` means to restore the configuration, but writes it without the
  command that says so (`drivers/ps2.c:67`), so it goes to the keyboard. If the self-test
  has reset the configuration, the keyboard's interrupt stays off and the initialisation
  may wait for ever. `InitCompletes` and the run are for a controller that keeps its
  configuration (`SelfTestResets` = FALSE); the theorems hold for both. A keyboard handler
  on a task that has left the ring and lost the CPU never ends its interrupt (`KeysRead`).
- Two tasks that move the cursor at once can push the row past the last line, after which
  no call scrolls (`tty.c:23`; `CursorOnScreen` holds until the race). `%llu` prints its
  digits in reverse and `%llX` in small letters; `LLONG_MIN` has no digits
  (`kernel/itoa.c:15`; `Meaning` and `PrintsFormat` say so).
- A segment whose data crosses a page at an offset cannot be loaded, and a `NULL` program
  header ends the load, although `kernel/include/elf/elf.h:51` calls it "An ignored
  entry." (`PanicExplained`; `LoadedExactly` speaks of the segments in front of it, and
  the run `null_entry` shows the others missing).
- `idt_init` enables interrupts before `gdt_init` loads a table that is mapped: an
  interrupt in between resets the machine, although `boot.S:12-14` calls the temporary
  table "only needed until paging is enabled" (`BootOutcome` bounds when it can happen).

## Not modelled

- The uninitialised child pointers of cloned tree nodes (taken to be NULL) and
  `remove_allocation`, which no call can reach.
- The directory entry that maps a directory to itself (nothing uses it), the entries of
  the boot page tables, which `init_paging` replaces, the bytes of a gate descriptor.
- The depth of kernel stacks, whose lowest page is not mapped.
- A program linked right above the first kernel stack, where freeing a page extends the
  first free block at the wrong end (`mm/vmm.c:537`).
- Callers that ignore a NULL from `kmalloc`.
- `memcpy`, `memset`, port access and flag instructions: what they do is part of the
  actions that use them. The text of messages other than formats, and the printing of
  tags and of the keyboard queue.
- libc and the programs: what they ask of the kernel is an action of `Sched` and `Stacks`.
