------------------------------- MODULE Stacks -------------------------------
(***************************************************************************)
(* The kernel stacks, word by word: what task_create lays down, what an    *)
(* interrupt and a system call push, what do_task_switch saves and loads,  *)
(* and how init_goto_user_mode and iret leave the kernel.  Sched says      *)
(* which task runs next; here any task of the ring may be chosen, and the  *)
(* question is whether each one finds on its stack what it left there.     *)
(*                                                                         *)
(* A stack is the sequence of its words, the oldest first.  A word is      *)
(* <<kind, value>>.  The kind is not in the machine: a return that takes a *)
(* word of another kind makes the CPU run `wild'.  The value of a register *)
(* names the register, the task and the mode it belongs to.                *)
(***************************************************************************)
EXTENDS Integers, Sequences, SequencesExt, FiniteSets

CONSTANTS TestTasks,    \* how many test tasks kernel_main creates
          Returning,    \* those whose function returns
          MaxNested     \* bound: handlers active on top of another handler

Main == 0
InitTask == 1
Child == 2
UserTask == {InitTask, Child}
Task == 0 .. 2 + TestTasks
BootStack == -1         \* __kernel_stack_bottom .. __kernel_stack_top
Address0 == -2          \* the stack of a pointer that is still 0

ASSUME StacksAssumption ==
    /\ TestTasks \in Nat
    /\ MaxNested \in Nat
    /\ Returning \subseteq 3 .. 2 + TestTasks

VARIABLES eip,          \* what the CPU executes next
          mode,         \* the privilege of CS
          IF_,          \* the interrupt flag
          ds,           \* whose data segment DS, ES, FS and GS select
          esp,          \* <<stack, words on it>>
          regs,         \* the general registers
          mem,          \* stack -> its words
          tcb,          \* the task control blocks: kernel_stack_top and esp0
          tss_esp0,     \* tss.esp0
          current,      \* CURRENT_TASK.task
          ring,         \* the tasks that have been put in the scheduler's ring
          SCHED_INIT

cpu == <<eip, mode, IF_, ds, esp, regs>>
stackVars == <<cpu, mem, tcb, tss_esp0, current, ring, SCHED_INIT>>

Pushed == <<"ebp", "ebx", "esi", "edi">>    \* what do_task_switch saves
Reg == {"eax", "ebx", "ecx", "edx", "esi", "edi", "ebp"}

Clobbered == {"eax", "ecx", "edx", "ebp"}   \* what an interrupt handler saves

Own(t, m) == [r \in Reg |-> <<r, t, m>>]
Scratch(r) == <<r, -1, "any">>
Zero == <<"0", -1, "any">>

Stopped == {"wild", "panic", "endless_search", "triple_fault", "lost", "halt"}

\* The stack s after `words' are pushed on the first n of its words.  What
\* lies between the end of s and n was popped before.
Push(s, n, words) ==
    [i \in 1 .. n + Len(words) |->
        IF i > n THEN words[i - n]
        ELSE IF i \in DOMAIN s THEN s[i] ELSE <<"popped", "">>]

Kind(s, i) == IF i \in DOMAIN s THEN s[i][1] ELSE "none"
Kinds(s, i, n) == [j \in 1 .. n |-> Kind(s, i + 1 - j)]

\* push and pop on the stack in use, at the end of an action.
PushAll(words) ==
    /\ mem' = [mem EXCEPT ![esp[1]] = Push(@, esp[2], words)]
    /\ esp' = <<esp[1], esp[2] + Len(words)>>

PopTo(n) ==
    /\ mem' = [mem EXCEPT ![esp[1]] = SubSeq(@, 1, n)]
    /\ esp' = <<esp[1], n>>

Stop(how) ==
    /\ eip' = how
    /\ UNCHANGED <<mode, IF_, ds, esp, regs, mem, tcb, tss_esp0, current, ring,
                   SCHED_INIT>>

----------------------------------------------------------------------------
\* task_create (kernel/task.c)

\* ret_addr is only given for a user task: the entry point of its program.
NewStack(t, task_fn) ==
    <<<<"arg", t>>, <<"eip", "sched_halt_or_crash">>, <<"eip", "sched_remove">>>>
    \o (IF t \in UserTask THEN <<<<"entry", "user">>>> ELSE <<>>)
    \o <<<<"eip", task_fn>>>>
    \o [i \in 1 .. Len(Pushed) |-> <<"reg", Zero>>]

NewTcb(t, task_fn) ==
    LET top == <<t, Len(NewStack(t, task_fn))>>
    IN  [kernel_stack_top |-> top, esp0 |-> top]

task_create(t, task_fn) ==
    /\ mem' = [mem EXCEPT ![t] = NewStack(t, task_fn)]
    /\ tcb' = [tcb EXCEPT ![t] = NewTcb(t, task_fn)]

----------------------------------------------------------------------------
\* Entering and leaving the kernel

\* The words the CPU pushes for an interrupt that will resume at `at'.
Frame(at) ==
    (IF mode = "user" THEN <<<<"ss", "user">>, <<"esp", "user">>>> ELSE <<>>)
    \o <<<<"eflags", IF_>>, <<"cs", mode>>, <<"eip", at>>>>

\* The CPU switches to tss.esp0 when the interrupt comes from user mode.  The
\* handler then saves registers.
Deliver(handler, at, saved) ==
    LET stack == IF mode = "user" THEN tss_esp0 ELSE esp
        words == Frame(at) \o saved
    IN  /\ mem' = [mem EXCEPT ![stack[1]] = Push(@, stack[2], words)]
        /\ esp' = <<stack[1], stack[2] + Len(words)>>
        /\ mode' = "kernel"
        /\ eip' = handler

\* hlt ends with the interrupt: the CPU goes on behind it.
ResumeAt == IF eip = "sched_halt_or_crash" THEN {eip, "ud2"} ELSE {eip}

\* How many handlers run on a stack, and how many of those run on top of one.
Active(s) == Cardinality({i \in DOMAIN mem[s] : mem[s][i][1] = "regs"})
Nested == FoldSet(LAMBDA s, sum : sum + (IF Active(s) > 1 THEN Active(s) - 1 ELSE 0),
                  0, DOMAIN mem)

\* A timer or keyboard interrupt, through a trap gate: interrupts stay enabled.
\* The compiled handler saves the registers that the functions it calls may
\* change, and its frame pointer; the others stay as they are.
Interrupt(handler) ==
    /\ eip \notin Stopped
    /\ IF_
    /\ Active(esp[1]) = 0 \/ Nested < MaxNested
    /\ \E at \in ResumeAt : Deliver(handler, at, <<<<"regs", [r \in Clobbered |-> regs[r]]>>>>)
    /\ regs' = [r \in Clobbered |-> Own(current, "handler")[r]] @@ regs
    /\ UNCHANGED <<IF_, ds, tcb, tss_esp0, current, ring, SCHED_INIT>>

\* iret with `n' words left on the stack in use.  DS is cleared on the way to
\* user mode if it selects the kernel's segment.
Iret(n) ==
    LET s == mem[esp[1]]
        toUser == Kind(s, n - 1) = "cs" /\ s[n - 1][2] = "user"
        kinds == <<"eip", "cs", "eflags">> \o
                 (IF toUser THEN <<"esp", "ss">> ELSE <<>>)
    IN  IF Kinds(s, n, Len(kinds)) = kinds
        THEN /\ eip' = s[n][2]
             /\ mode' = s[n - 1][2]
             /\ IF_' = s[n - 2][2]
             /\ ds' = IF toUser /\ ds = "kernel" THEN "null" ELSE ds
             /\ PopTo(n - Len(kinds))
        ELSE /\ eip' = "wild"
             /\ UNCHANGED <<mode, IF_, ds, esp, mem>>

\* The end of an __attribute__((interrupt)) function: n words are left above
\* its frame's registers.
LeaveHandler(n) ==
    LET s == mem[esp[1]]
    IN  /\ IF Kind(s, n) = "regs"
           THEN Iret(n - 1) /\ regs' = s[n][2] @@ regs
           ELSE /\ eip' = "wild"
                /\ UNCHANGED <<mode, IF_, ds, esp, regs, mem>>
        /\ UNCHANGED <<tcb, tss_esp0, current, ring, SCHED_INIT>>

----------------------------------------------------------------------------
\* The task switch (kernel/sched.c, kernel/arch/i386/task_switch.S)

SaveWords(back) ==
    <<<<"eip", back>>>> \o [i \in 1 .. Len(Pushed) |-> <<"reg", regs[Pushed[i]]>>]

\* Mutation: edi and esi are popped in the order they were pushed.
PopSwapped(s, n) ==
    [r \in Reg |-> CASE r = "esi" -> s[n][2]
                     [] r = "edi" -> s[n - 1][2]
                     [] r = "ebx" -> s[n - 2][2]
                     [] r = "ebp" -> s[n - 3][2]
                     [] OTHER -> Scratch(r)]

\* eax, ecx and edx hold the task, its CR3 and its ESP0.
PopRegs(s, n) ==
    [r \in Reg |-> CASE r = "edi" -> s[n][2]
                     [] r = "esi" -> s[n - 1][2]
                     [] r = "ebx" -> s[n - 2][2]
                     [] r = "ebp" -> s[n - 3][2]
                     [] OTHER -> Scratch(r)]

\* Mutation: the stack pointer the task was saved with goes into the TSS.
SavedTop(task) == task.kernel_stack_top

\* What do_task_switch stores in tss.esp0.
Esp0(task) == task.esp0

\* Called with the stacks `m', the control blocks `t' and k words on the stack;
\* `back' is where the call returns to when `current' runs again.  Interrupts
\* are off throughout.
do_task_switch(u, back, m, t, k) ==
    LET saved == [m EXCEPT ![esp[1]] = Push(@, k, SaveWords(back))]
        blocks == [t EXCEPT ![current].kernel_stack_top =
                                <<esp[1], k + Len(SaveWords(back))>>]
        top == blocks[u].kernel_stack_top
        s == saved[top[1]]
        n == top[2]
    IN  /\ tcb' = blocks
        /\ current' = u
        /\ tss_esp0' = Esp0(blocks[u])
        /\ IF Kinds(s, n, 5) = <<"reg", "reg", "reg", "reg", "eip">>
           THEN /\ regs' = PopRegs(s, n)
                /\ eip' = s[n - 4][2]
                /\ esp' = <<top[1], n - 5>>
                /\ mem' = [saved EXCEPT ![top[1]] = SubSeq(@, 1, n - 5)]
           ELSE /\ eip' = "wild"
                /\ mem' = saved
                /\ UNCHANGED <<esp, regs>>
        /\ IF_' = TRUE
        /\ UNCHANGED <<mode, ds>>

\* sched_context_switch reads the next task into a local variable, with
\* interrupts enabled.  The order of the ring is the subject of Sched.
timer_irq_handler ==
    /\ eip = "timer_irq_handler"
    /\ IF SCHED_INIT
       THEN /\ \E u \in ring : PushAll(<<<<"task", u>>>>)
            /\ eip' = "sched_switch_task"
            /\ UNCHANGED <<mode, IF_, ds, regs, tcb, tss_esp0, current, ring,
                           SCHED_INIT>>
       ELSE LeaveHandler(esp[2])

\* The variable is not used again, and left out of what is saved.
sched_switch_task ==
    /\ eip = "sched_switch_task"
    /\ do_task_switch(Last(mem[esp[1]])[2], "timer_irq_end", mem, tcb, esp[2] - 1)
    /\ UNCHANGED <<ring, SCHED_INIT>>

\* Back in the handler, when the task has been switched to again.
timer_irq_end ==
    /\ eip = "timer_irq_end"
    /\ LeaveHandler(esp[2])

----------------------------------------------------------------------------
\* The life of a task

\* cli; the user's frame is built under the entry point and iret pops it.
\* From here on the registers are the program's.
init_goto_user_mode ==
    /\ eip = "init_goto_user_mode"
    /\ IF Kind(mem[esp[1]], esp[2]) = "entry"
       THEN /\ eip' = "user"
            /\ mode' = "user"
            /\ IF_' = TRUE
            /\ ds' = "user"
            /\ regs' = Own(current, "user")
            /\ UNCHANGED <<esp, mem, tcb, tss_esp0, current, ring, SCHED_INIT>>
       ELSE Stop("wild")

\* int $0x80, an interrupt gate: interrupts are off until iret.  A pointer into
\* the stack is the number of words below and at the one it points to.
syscall_interrupt_handler ==
    /\ eip = "user"
    /\ LET b == tss_esp0[2] + Len(Frame(eip))
           reg(r) == <<"reg", regs[r]>>
       IN  Deliver("syscall_handler", eip,
               <<reg("ebp"), <<"addr", b + 1>>, <<"addr", b + 2>>, reg("edi"),
                 reg("esi"), reg("edx"), reg("ecx"), reg("ebx"), reg("eax"),
                 <<"addr", b + 9>>, <<"addr", b>>>>)
    /\ IF_' = FALSE
    /\ regs' = Own(current, "kernel")
    /\ UNCHANGED <<ds, tcb, tss_esp0, current, ring, SCHED_INIT>>

\* The pops behind the call, for a stack s of n words: `pop %esp' reloads the
\* stack pointer, and the second of the two `pop %ebp' restores EBP.
SyscallPop(s, n, eax) ==
    LET top == s[n - 8][2]
    IN  [regs |-> [r \in Reg |-> CASE r = "eax" -> eax
                                   [] r = "ebx" -> s[n - 3][2]
                                   [] r = "ecx" -> s[n - 4][2]
                                   [] r = "edx" -> s[n - 5][2]
                                   [] r = "esi" -> s[n - 6][2]
                                   [] r = "edi" -> s[n - 7][2]
                                   [] r = "ebp" -> s[top - 1][2]],
         n |-> top - 2]

SyscallReturn(eax) ==
    LET popped == SyscallPop(mem[esp[1]], esp[2], eax)
    IN  /\ regs' = popped.regs
        /\ Iret(popped.n)
        /\ UNCHANGED <<tcb, tss_esp0, current, ring, SCHED_INIT>>

\* sched_remove finds the node and returns, or panics, or searches forever.
exit ==
    \/ /\ current # InitTask
       /\ \/ SyscallReturn(mem[esp[1]][esp[2] - 2][2])
          \/ Stop("endless_search")
    \/ Stop("panic")

fork == SyscallReturn(<<"eax", -1, "0xbeef">>)

\* An unknown number panics as well.
syscall_handler ==
    /\ eip = "syscall_handler"
    /\ exit \/ fork

\* The function of a kernel task uses all registers.
test_task ==
    /\ eip = "test_task"
    /\ eip' = "test_task_loop"
    /\ regs' = Own(current, "kernel")
    /\ UNCHANGED <<mode, IF_, ds, esp, mem, tcb, tss_esp0, current, ring, SCHED_INIT>>

\* It returns into sched_remove, with the registers it must preserve as it
\* found them.
task_return ==
    /\ eip = "test_task_loop"
    /\ current \in Returning
    /\ IF Kind(mem[esp[1]], esp[2]) = "eip"
       THEN /\ eip' = mem[esp[1]][esp[2]][2]
            /\ PopTo(esp[2] - 1)
            /\ regs' = [r \in Range(Pushed) |-> Zero] @@ regs
            /\ UNCHANGED <<mode, IF_, ds, tcb, tss_esp0, current, ring,
                           SCHED_INIT>>
       ELSE Stop("wild")

\* It takes its argument from above the return address.
sched_remove ==
    /\ eip = "sched_remove"
    /\ \/ /\ Kinds(mem[esp[1]], esp[2], 2) = <<"eip", "arg">>
          /\ eip' = mem[esp[1]][esp[2]][2]
          /\ PopTo(esp[2] - 1)
          /\ UNCHANGED <<mode, IF_, ds, regs, tcb, tss_esp0, current, ring,
                         SCHED_INIT>>
       \/ Stop("panic")

\* The instruction behind the hlt of halt_or_crash.
ud2 ==
    /\ eip = "ud2"
    /\ Stop("panic")

StacksNext ==
    \/ timer_irq_handler
    \/ sched_switch_task
    \/ timer_irq_end
    \/ init_goto_user_mode
    \/ syscall_interrupt_handler
    \/ syscall_handler
    \/ test_task
    \/ task_return
    \/ sched_remove
    \/ ud2
=============================================================================
