-------------------------------- MODULE Boot --------------------------------
(***************************************************************************)
(* From _start to the running tasks: the entry code of boot.S, idt_init    *)
(* and gdt_init, and kernel_main, which runs on the boot stack, finds the  *)
(* console and the two programs in the boot information, becomes task 0    *)
(* and creates the others.  Interrupts are enabled from idt_init on, so a  *)
(* tick or a key may come between any two of these steps; the stacks and   *)
(* the switches are those of Stacks.  Which interrupt the controller lets  *)
(* through is the subject of Interrupts: here either may come whenever the *)
(* CPU accepts one.                                                        *)
(***************************************************************************)
EXTENDS Stacks, Multiboot, Gdt

CONSTANTS Loaders,      \* what a loader may hand over: [magic, tags]
          TssAddress    \* where the linker puts tss: <<high half, low half>>

ASSUME BootAssumption ==
    /\ Loaders \subseteq [magic : BOOLEAN, tags : Seq([type : Nat, size : Nat])]
    /\ TssAddress \in (0 .. 65535) \X (0 .. 65535)

VARIABLES boot,         \* what this loader handed over
          cr3,          \* the page directory: "boot" also maps low addresses
          gdt,          \* the GDT in use: where it is and what is in it
          tty,          \* tty_init has run
          modules,      \* init_mod and user_mod
          step          \* how many of kernel_main's task steps are done

bootVars == <<boot, cr3, gdt, tty, modules, step>>
vars == <<stackVars, bootVars>>

Stack == Address0 .. 2 + TestTasks
NoTask == [kernel_stack_top |-> <<Address0, 0>>, esp0 |-> <<Address0, 0>>]

\* Memory that is not tags: a walk may find anything.
info == IF boot.magic THEN BootInfo(boot.tags) ELSE <<>>
Framebuffers == IF boot.magic THEN {multiboot_framebuffer_info(info)}
                ELSE {NULL, Lost, FirstTag}

Init ==
    /\ eip = "_start"
    /\ mode = "kernel"
    /\ IF_ = FALSE
    /\ ds = "kernel"
    /\ esp = <<BootStack, 0>>
    /\ regs = Own(Main, "kernel")
    /\ mem = [s \in Stack |-> <<>>]
    /\ tcb = [t \in Task |-> NoTask]
    /\ tss_esp0 = <<Address0, 0>>
    /\ current = Main
    /\ ring = {}
    /\ SCHED_INIT = FALSE
    /\ boot \in Loaders
    /\ cr3 = "boot"
    /\ gdt = [at |-> "low", entries |-> tmp_gdt]
    /\ tty = FALSE
    /\ modules = <<>>
    /\ step = 0

\* The next step of the boot, which changes nothing else of the CPU.
Then(here, there) ==
    /\ eip = here
    /\ eip' = there
    /\ UNCHANGED <<mode, ds, regs, current>>

Quiet == UNCHANGED <<mode, IF_, ds, esp, regs, mem, tcb, tss_esp0, current, ring,
                     SCHED_INIT>>

----------------------------------------------------------------------------
\* boot.S, idt_init, gdt_init

\* With interrupts off: the temporary GDT, paging with the boot page directory,
\* the jump to the higher half and the kernel's page directory.
_start ==
    /\ Then("_start", "idt_init")
    /\ cr3' = "kernel"
    /\ UNCHANGED <<IF_, esp, mem, tcb, tss_esp0, ring, SCHED_INIT, boot, gdt, tty,
                   modules, step>>

\* The gates are set; then lidt and sti.
idt_init ==
    /\ Then("idt_init", "gdt_init")
    /\ IF_' = TRUE
    /\ UNCHANGED <<esp, mem, tcb, tss_esp0, ring, SCHED_INIT, bootVars>>

load_gdt == [at |-> "high", entries |-> gdt_entries(TssAddress)]

\* KERNEL_MEMINFO is assigned later, so tss_init stores a stack top of 0.  The
\* call of kernel_main follows.
gdt_init ==
    /\ Then("gdt_init", "kernel_main")
    /\ tss_esp0' = <<Address0, 0>>
    /\ gdt' = load_gdt
    /\ PushAll(<<<<"eip", "_fini">>>>)
    /\ UNCHANGED <<IF_, tcb, ring, SCHED_INIT, boot, cr3, tty, modules, step>>

\* kernel_main returned: _fini, cli and hlt.
_fini ==
    /\ Then("_fini", "halt")
    /\ IF_' = FALSE
    /\ UNCHANGED <<esp, mem, tcb, tss_esp0, ring, SCHED_INIT, bootVars>>

----------------------------------------------------------------------------
\* kernel_main

Return ==
    /\ eip' = mem[esp[1]][esp[2]][2]
    /\ PopTo(esp[2] - 1)
    /\ UNCHANGED <<mode, IF_, ds, regs, tcb, tss_esp0, current, ring, SCHED_INIT>>

\* The fields of a framebuffer tag at NULL are on a page that is not mapped, and
\* the page fault handler then reads CURRENT_TASK.task, NULL as well.
tty_init ==
    /\ eip = "kernel_main"
    /\ \E fb \in Framebuffers :
         /\ eip' = CASE fb = NULL -> "triple_fault"
                     [] fb = Lost -> "lost"
                     [] OTHER -> "magic"
         /\ tty' = (fb \notin {NULL, Lost})
    /\ Quiet
    /\ UNCHANGED <<boot, cr3, gdt, modules, step>>

\* The check of the magic number, and the first walk over all tags.
check_magic ==
    /\ eip = "magic"
    /\ IF ~boot.magic THEN Return
       ELSE /\ eip' = IF multiboot_print_info(info) = Lost THEN "lost" ELSE "memory"
            /\ Quiet
    /\ UNCHANGED bootVars

\* pmm_init asserts that there is a memory map; init_paging, kmalloc_init and
\* vmm_init are the subject of Paging, Kmalloc and Vmm.
init_memory ==
    /\ eip = "memory"
    /\ eip' = CASE memory_map(info) = NULL -> "panic"
                [] memory_map(info) = Lost -> "lost"
                [] OTHER -> "modules"
    /\ Quiet
    /\ UNCHANGED bootVars

\* The second search begins where the first one stopped, and finds nothing if
\* that was the last tag.
find_modules ==
    LET init_mod == multiboot_get_next_module(info, FirstTag)
        user_mod == multiboot_get_next_module(info, init_mod.tag)
    IN  /\ eip = "modules"
        /\ IF Lost \in {init_mod.module, user_mod.module}
           THEN eip' = "lost" /\ Quiet /\ UNCHANGED modules
           ELSE IF NULL \in {init_mod.module, user_mod.module}
           THEN Return /\ UNCHANGED modules
           ELSE /\ modules' = <<init_mod.module, user_mod.module>>
                /\ eip' = "init_sched"
                /\ Quiet
        /\ UNCHANGED <<boot, cr3, gdt, tty, step>>

\* Task 0 is created, made current and switched to: what is saved is the boot
\* stack, so the stack task_create made is never run on.
init_sched ==
    /\ eip = "init_sched"
    /\ do_task_switch(Main, "SCHED_INIT",
                      [mem EXCEPT ![Main] = NewStack(Main, "NULL")],
                      [tcb EXCEPT ![Main] = NewTcb(Main, "NULL")], esp[2])
    /\ ring' = {Main}
    /\ UNCHANGED <<SCHED_INIT, bootVars>>

sched_initialised ==
    /\ Then("SCHED_INIT", "start_tasks")
    /\ SCHED_INIT' = TRUE
    /\ UNCHANGED <<IF_, esp, mem, tcb, tss_esp0, ring, bootVars>>

\* init and its child are created first and added last, each test task between
\* them is created and added.  The programs are ones that load: Loader has the
\* others.
TaskSteps ==
    <<<<"create", InitTask>>, <<"create", Child>>>>
    \o [i \in 1 .. 2 * TestTasks |->
            <<IF i % 2 = 1 THEN "create" ELSE "add", 2 + (i + 1) \div 2>>]
    \o <<<<"add", InitTask>>, <<"add", Child>>>>

TaskFn(t) == IF t \in UserTask THEN "init_goto_user_mode" ELSE "test_task"

start_task ==
    /\ eip = "start_tasks"
    /\ step' = step + 1
    /\ eip' = IF step' = Len(TaskSteps) THEN "idle" ELSE eip
    /\ LET t == TaskSteps[step'][2]
       IN  IF TaskSteps[step'][1] = "create"
           THEN task_create(t, TaskFn(t)) /\ UNCHANGED ring
           ELSE ring' = ring \union {t} /\ UNCHANGED <<mem, tcb>>
    /\ UNCHANGED <<mode, IF_, ds, esp, regs, tss_esp0, current, SCHED_INIT, boot,
                   cr3, gdt, tty, modules>>

----------------------------------------------------------------------------
\* Interrupts

\* The CPU reads the handler's code segment from the GDT at every interrupt.  If
\* it cannot, neither can it for the fault that follows.
GdtMapped == gdt.at = "high" \/ cr3 = "boot"

interrupt(handler) ==
    /\ IF GdtMapped THEN Interrupt(handler)
       ELSE eip \notin Stopped /\ IF_ /\ Stop("triple_fault")
    /\ UNCHANGED bootVars

tick == interrupt("timer_irq_handler")
key_press == interrupt("keyboard_irq_handler")

\* It prints the queue.  Before tty_init vga_memory is NULL: a page fault, whose
\* handler reads CURRENT_TASK.task.
keyboard_irq_handler ==
    /\ eip = "keyboard_irq_handler"
    /\ IF tty THEN LeaveHandler(esp[2]) ELSE Stop("triple_fault")
    /\ UNCHANGED bootVars

halted == eip \in Stopped /\ UNCHANGED vars

kernel_main ==
    \/ tty_init
    \/ check_magic
    \/ init_memory
    \/ find_modules
    \/ init_sched
    \/ sched_initialised
    \/ start_task

Next ==
    \/ _start
    \/ idt_init
    \/ gdt_init
    \/ kernel_main
    \/ _fini
    \/ tick
    \/ key_press
    \/ keyboard_irq_handler
    \/ StacksNext /\ UNCHANGED bootVars
    \/ halted

Spec == Init /\ [][Next]_vars

----------------------------------------------------------------------------
\* Properties

\* Every return finds its own frame: however ticks, keys, nested handlers and
\* task switches interleave, no ret and no iret of task_switch.S,
\* init_user_mode.S, syscall_int_handler.S or a handler takes a word that is
\* something else.  A program gets all its registers back from an interrupt and
\* from a system call (EAX apart, the result of one), a kernel task all from an
\* interrupt, and kernel_main and a task that starts the ones do_task_switch
\* saves, although a handler saves only EAX, ECX, EDX and EBP itself.  A handler
\* gets its frame pointer back, and the sched_remove a task returns into is
\* called for that task.
ResumesIntact ==
    /\ eip # "wild"
    /\ mode = "user" => \A r \in Reg \ {"eax"} : regs[r] = Own(current, "user")[r]
    /\ eip = "test_task_loop" => regs = Own(current, "kernel")
    /\ \A r \in Range(Pushed) :
        /\ eip \in {"idle", "start_tasks"} => regs[r] = Own(Main, "kernel")[r]
        /\ eip \in {"test_task", "init_goto_user_mode", "sched_remove"} => regs[r] = Zero
    /\ eip \in {"timer_irq_handler", "sched_switch_task", "timer_irq_end", "keyboard_irq_handler"} =>
        regs["ebp"] = Own(current, "handler")["ebp"]
    /\ eip = "sched_remove" => mem[current][esp[2] - 1] = <<"arg", current>>

\* While a program runs, the next interrupt has a stack: tss.esp0 is the
\* running task's own (not the 0 of tss_init, not another task's, not one
\* that moves with every switch), no word the task still needs lies beyond
\* it, interrupts are enabled and DS selects the user's segment.
UserModeReady ==
    mode = "user" =>
        /\ current \in UserTask
        /\ tss_esp0 = <<current, Len(NewStack(current, ""))>>
        /\ esp[1] = current /\ esp[2] <= tss_esp0[2]
        /\ IF_
        /\ ds = "user"

\* The boot comes to one of its proper ends.  The machine resets only before
\* tty_init is done (an interrupt that comes before the GDT is loaded, a key
\* before there is a console, or a loader that set up no console); no walk over
\* the tags of a multiboot loader leaves them; kernel_main returns only if the
\* loader is not a multiboot one or fewer than two modules came with the kernel,
\* and otherwise it runs the first two modules of the loader's list, in its
\* order, whatever tags lie between them and however their sizes are padded.
BootOutcome ==
    /\ eip = "triple_fault" => ~tty
    /\ eip = "lost" => ~boot.magic
    /\ eip \in {"_fini", "halt"} =>
         ~boot.magic \/ Len(Tagged(boot.tags, MODULE_TAG)) < 2
    /\ eip = "panic" /\ ~SCHED_INIT => Tagged(boot.tags, MMAP) = <<>>
    /\ eip = "init_sched" =>
         Len(modules) = 2 /\ IsPrefix(modules, Tagged(boot.tags, MODULE_TAG))

\* After gdt_init the CPU finds at every selector that idt_init, load_gdt,
\* init_user_mode.S and load_tss use the segment they mean: the whole address
\* space as code or data of the right privilege, and the TSS, whose limit
\* reaches the end of the fields the CPU reads.
SegmentsInSync ==
    gdt.at = "high" =>
        LET at(selector) == Descriptor(gdt.entries, selector)
        IN  /\ at(GDT_KERNEL_CODE_SEGMENT) = Whole("code", 0)
            /\ at(GDT_KERNEL_DATA_SEGMENT) = Whole("data", 0)
            /\ at(GDT_USER_CODE_SEGMENT) = Whole("code", 3)
            /\ at(GDT_USER_DATA_SEGMENT) = Whole("data", 3)
            /\ at(GDT_TASK_STATE_SEGMENT) =
                 [base |-> TssAddress, limit |-> <<0, TssSize - 1>>, bits |-> 16,
                  present |-> TRUE, dpl |-> 0, type |-> "tss"]
=============================================================================
