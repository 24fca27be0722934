------------------------------- MODULE Sched -------------------------------
(***************************************************************************)
(* The scheduler: the ring of tasks of kernel/sched.c, the timer interrupt *)
(* that walks it (idt.c, task_switch.S), kernel_main filling it, and the   *)
(* two ways a task leaves it, the exit system call and the return of a     *)
(* kernel task's function.                                                 *)
(*                                                                         *)
(* There is one CPU.  `current' is the task it runs; every other task is   *)
(* frozen where it lost the CPU.  What a task was doing is its `pc', and   *)
(* the activations of the timer handler on its kernel stack are `irq':     *)
(* the handler is behind a trap gate, so interrupts stay enabled in it and *)
(* it can be interrupted by another tick.  The kernel is compiled without  *)
(* optimisation; a step makes one load or one store of what tasks share,   *)
(* and what it has loaded is in `local' or in the activation.              *)
(*                                                                         *)
(* A node of the ring is an address of the heap, named by the task that    *)
(* gets it as long as no node has been freed.  kfree leaves the content of *)
(* a node alone, and the next sched_add may get that node again.           *)
(***************************************************************************)
EXTENDS Integers, Sequences

CONSTANTS TestTasks,    \* how many test tasks kernel_main creates
          Exiting,      \* user tasks whose program calls exit
          Returning,    \* kernel tasks whose function returns
          Keys,         \* whether keys are pressed
          MaxNest       \* bound: timer handlers active on one stack

Main  == 0              \* task 0, which runs kernel_main
InitTask == 1           \* INIT_PID
Child == 2
Task  == 0 .. 2 + TestTasks
None  == -1             \* NULL

ASSUME SchedAssumption ==
    /\ TestTasks \in Nat
    /\ MaxNest \in Nat \ {0}
    /\ Keys \in BOOLEAN
    /\ Exiting \subseteq {InitTask, Child}
    /\ Returning \subseteq 3 .. 2 + TestTasks

\* Mutation: the user tasks are added before the test tasks.
UserTasksFirst == <<InitTask, Child>> \o [i \in 1 .. TestTasks |-> 2 + i]

\* kernel_main adds the test tasks, then init, then its child.
AddOrder == [i \in 1 .. TestTasks |-> 2 + i] \o <<InitTask, Child>>

parent == [t \in Task |-> IF t = Child THEN InitTask ELSE None]

VARIABLES next,         \* task_list.next
          task_of,      \* task_list.task
          nodes,        \* the nodes that are allocated
          freed,        \* the nodes that have been freed
          tasks,        \* the pointers tasks_head, tasks_tail, tasks_sched_head
          current,      \* CURRENT_TASK.task
          pc,           \* task -> what it does when no handler runs on top
          local,        \* task -> the variables task (new_tasks in sched_add)
                        \* and prev of the function it is in, and two registers
          irq,          \* task -> its activations of the timer handler
          added,        \* how many tasks of AddOrder are in the ring
          halted        \* panic has disabled interrupts and stopped the CPU

heap == <<nodes, freed>>
ring == <<next, task_of, heap, tasks>>
cpu  == <<current, irq, halted>>
vars == <<ring, cpu, pc, local, added>>

\* Set by init_sched together with the ring.
SCHED_INIT == tasks.sched_head # None

NoLocal == [task |-> None, prev |-> None, reg |-> None, val |-> None]

Init ==
    /\ next = [t \in Task |-> None]
    /\ task_of = [t \in Task |-> t]
    /\ nodes = {} /\ freed = {}
    /\ tasks = [head |-> None, tail |-> None, sched_head |-> None]
    /\ current = Main
    /\ pc = [t \in Task |-> IF t = Main THEN "init_sched" ELSE "run"]
    /\ local = [t \in Task |-> NoLocal]
    /\ irq = [t \in Task |-> <<>>]
    /\ added = 0
    /\ halted = FALSE

\* Task t executes its own code: it has the CPU and no handler is on top.
Runs(t, at) ==
    /\ ~ halted
    /\ current = t
    /\ irq[t] = <<>>
    /\ pc[t] = at

Goto(t, at) == pc' = [pc EXCEPT ![t] = at]

\* The function that task t is in ends, and its variables with it.
Leave(t) == local' = [local EXCEPT ![t] = NoLocal]

\* The variables of task t with a value in one of them.
WithTask(t, value) == [local[t] EXCEPT !.task = value]
WithPrev(t, value) == [local[t] EXCEPT !.prev = value]
WithReg(t, value)  == [local[t] EXCEPT !.reg = value]
WithVal(t, value)  == [local[t] EXCEPT !.val = value]

\* Task t loads into its variables.
Load(t, at, loaded, to) ==
    /\ Runs(t, at)
    /\ local' = [local EXCEPT ![t] = loaded]
    /\ Goto(t, to)
    /\ UNCHANGED <<ring, cpu, added>>

\* It stores into the field next of a node.
StoreNext(t, at, links, to) ==
    /\ Runs(t, at)
    /\ next' = links
    /\ Goto(t, to)
    /\ UNCHANGED <<task_of, heap, tasks, cpu, local, added>>

\* It stores into one of the pointers.
StorePointer(t, at, pointers, to) ==
    /\ Runs(t, at)
    /\ tasks' = pointers
    /\ Goto(t, to)
    /\ UNCHANGED <<next, task_of, heap, cpu, local, added>>
-----------------------------------------------------------------------------
(* kernel_main: init_sched, then one sched_add after another.              *)

\* The ring of one; the switch to task 0 itself only saves and reloads its
\* stack pointer.  Ticks do not reach the ring before SCHED_INIT is set.
init_sched ==
    /\ Runs(Main, "init_sched")
    /\ nodes' = {Main}
    /\ next' = [next EXCEPT ![Main] = Main]
    /\ tasks' = [head |-> Main, tail |-> Main, sched_head |-> Main]
    /\ Goto(Main, "kmalloc")
    /\ UNCHANGED <<task_of, freed, cpu, local, added>>

New == AddOrder[added + 1]

\* kmalloc finds a node that was freed, or memory that was never a node: a
\* larger region may come before the freed one in the heap's list.
sched_add_kmalloc ==
    /\ Runs(Main, "kmalloc")
    /\ \E n \in freed \cup {New} :
        /\ nodes' = nodes \cup {n}
        /\ freed' = freed \ {n}
        /\ local' = [local EXCEPT ![Main] = WithTask(Main, n)]
    /\ Goto(Main, "add_tail")
    /\ UNCHANGED <<next, task_of, tasks, cpu, added>>

new_tasks == local[Main].task

\* The node is filled in: its next is tasks_tail->next.
sched_add_fill ==
    \/ Load(Main, "add_tail", WithReg(Main, tasks.tail), "add_next")
    \/ Load(Main, "add_next", WithReg(Main, next[local[Main].reg]), "fill_task")
    \/ /\ Runs(Main, "fill_task")
       /\ task_of' = [task_of EXCEPT ![new_tasks] = New]
       /\ Goto(Main, "fill_next")
       /\ UNCHANGED <<next, heap, tasks, cpu, local, added>>
    \/ StoreNext(Main, "fill_next", [next EXCEPT ![new_tasks] = local[Main].reg], "link_tail")

\* Mutation: the new node is linked behind the head.
LinkBehindHead == [next EXCEPT ![tasks.head] = new_tasks]

LinkNew == [next EXCEPT ![local[Main].reg] = new_tasks]

\* tasks_tail->next = new_tasks
sched_add_link ==
    \/ Load(Main, "link_tail", WithReg(Main, tasks.tail), "link")
    \/ StoreNext(Main, "link", LinkNew, "tail")

\* tasks_tail = new_tasks
sched_add_tail ==
    /\ Runs(Main, "tail")
    /\ tasks' = [tasks EXCEPT !.tail = new_tasks]
    /\ added' = added + 1
    /\ Goto(Main, IF added + 1 < Len(AddOrder) THEN "kmalloc" ELSE "run")
    /\ Leave(Main)
    /\ UNCHANGED <<next, task_of, heap, cpu>>

sched_add == sched_add_kmalloc \/ sched_add_fill \/ sched_add_link \/ sched_add_tail

kernel_main == init_sched \/ sched_add
-----------------------------------------------------------------------------
(* sched_remove(pid) for the task that runs.  After exit it runs with      *)
(* interrupts disabled (the system call is behind an interrupt gate);      *)
(* after a kernel task's function has returned they are enabled.           *)

\* Mutation: sched_remove runs with interrupts disabled in kernel tasks too.
RemovesUninterrupted(t) == t # Main /\ pc[t] \notin {"run", "exited", "halt", "ud2", "panic"}

InSyscall(t) == t \in {InitTask, Child} /\ pc[t] # "run" /\ pc[t] # "exited"

\* exit: only a task with a parent may leave.
exit(t) ==
    /\ t \in Exiting
    /\ Runs(t, "run")
    /\ Goto(t, IF parent[t] = None THEN "panic" ELSE "remove")
    /\ UNCHANGED <<ring, cpu, local, added>>

\* The task's function returns into sched_remove, as task_create arranged.
task_returns(t) ==
    /\ t \in Returning
    /\ Runs(t, "run")
    /\ Goto(t, "remove")
    /\ UNCHANGED <<ring, cpu, local, added>>

\* task = tasks_tail
remove_check(t) ==
    Load(t, "remove", WithTask(t, tasks.tail),
         IF t \in {Main, InitTask} THEN "panic" ELSE "is_tail")

\* Whether task->task->pid is the pid to remove.
Found(t) == task_of[local[t].task] = t

\* Mutation: the tail is not looked at before the loop.
NotTheTail(t) == FALSE

TailFound(t) == Found(t)

\* The tail is the task: tasks_tail = tasks_tail->next, and then
\* tasks_head->next = tasks_tail.
remove_tail(t) ==
    \/ Load(t, "is_tail", WithPrev(t, None), IF TailFound(t) THEN "drop_load" ELSE "search")
    \/ Load(t, "drop_load", WithReg(t, tasks.tail), "drop_next")
    \/ Load(t, "drop_next", WithReg(t, next[local[t].reg]), "drop_tail")
    \/ StorePointer(t, "drop_tail", [tasks EXCEPT !.tail = local[t].reg], "head_load")
    \/ Load(t, "head_load", WithReg(t, tasks.head), "tail_load")
    \/ Load(t, "tail_load", WithVal(t, tasks.tail), "relink")
    \/ StoreNext(t, "relink", [next EXCEPT ![local[t].reg] = local[t].val], "kfree")

\* One round of the do-while loop: prev = task, task = tasks_tail->next.  It
\* looks at tasks_tail->next every time.
remove_search(t) ==
    \/ Load(t, "search", WithPrev(t, local[t].task), "search_tail")
    \/ Load(t, "search_tail", WithReg(t, tasks.tail), "search_next")
    \/ Load(t, "search_next", WithTask(t, next[local[t].reg]), "compare")
    \/ Load(t, "compare", WithReg(t, None), IF Found(t) THEN "unlink_load" ELSE "again")
    \/ Load(t, "again", WithReg(t, None), IF local[t].task = tasks.tail THEN "panic" ELSE "search")

\* The head moves if it is the task: never, as the head is the node of task 0,
\* which may not be removed.
HeadMoved(t) ==
    IF local[t].task = tasks.head THEN [tasks EXCEPT !.head = next[local[t].task]] ELSE tasks

\* prev->next = task->next, and the head.
remove_unlink(t) ==
    \/ Load(t, "unlink_load", WithReg(t, next[local[t].task]), "unlink")
    \/ StoreNext(t, "unlink", [next EXCEPT ![local[t].prev] = local[t].reg], "is_head")
    \/ StorePointer(t, "is_head", HeadMoved(t), "kfree")

\* Mutation: the tail is freed.
TheTail(t) == tasks.tail

Unlinked(t) == local[t].task

\* The node is freed.  A user task then returns from the system call and
\* spins in user mode; a kernel task goes on to sched_halt_or_crash.
remove_kfree(t) ==
    /\ Runs(t, "kfree")
    /\ nodes' = nodes \ {Unlinked(t)}
    /\ freed' = freed \cup {Unlinked(t)}
    /\ Goto(t, IF InSyscall(t) THEN "exited" ELSE "halt")
    /\ Leave(t)
    /\ UNCHANGED <<next, task_of, tasks, cpu, added>>

sched_remove(t) ==
    remove_check(t) \/ remove_tail(t) \/ remove_search(t) \/ remove_unlink(t) \/ remove_kfree(t)

\* hlt has been left: the next instruction raises the invalid opcode
\* exception, whose handler panics.
ud2(t) ==
    /\ Runs(t, "ud2")
    /\ Goto(t, "panic")
    /\ UNCHANGED <<ring, cpu, local, added>>

\* panic prints, disables interrupts and halts.
panic(t) ==
    /\ Runs(t, "panic")
    /\ halted' = TRUE
    /\ UNCHANGED <<ring, current, pc, local, irq, added>>

\* What a task does once it has begun to leave.
leave_step(t) == sched_remove(t) \/ ud2(t) \/ panic(t)

task_step(t) == exit(t) \/ task_returns(t) \/ leave_step(t)
-----------------------------------------------------------------------------
(* Interrupts.                                                             *)

\* An interrupt ends the hlt of sched_halt_or_crash.
WakeUp == IF pc[current] = "halt" THEN Goto(current, "ud2") ELSE UNCHANGED pc

\* The timer handler starts on the stack of the task that runs, and has
\* acknowledged the interrupt.
timer_irq ==
    /\ ~ halted
    /\ ~ InSyscall(current)
    /\ Len(irq[current]) < MaxNest
    /\ irq' = [irq EXCEPT ![current] =
                  Append(@, [at |-> "read", task |-> None, nxt |-> None])]
    /\ WakeUp
    /\ UNCHANGED <<ring, current, local, added, halted>>

\* A key is pressed: the handler runs to its end and returns.
keyboard_irq ==
    /\ Keys
    /\ ~ halted
    /\ ~ InSyscall(current)
    /\ irq[current] = <<>>
    /\ pc[current] = "halt"
    /\ WakeUp
    /\ UNCHANGED <<ring, cpu, local, added>>

\* The activation on top of a kernel stack, and the stack under it.
TopOf(s) == s[Len(s)]
Under(s) == SubSeq(s, 1, Len(s) - 1)

Top == TopOf(irq[current])
HandlerAt(at) == ~ halted /\ irq[current] # <<>> /\ Top.at = at
SetTop(frame) == irq' = [irq EXCEPT ![current] = Append(Under(@), frame)]
PopTop == irq' = [irq EXCEPT ![current] = Under(@)]

\* Before SCHED_INIT the handler returns at once.
handler_skip ==
    /\ HandlerAt("read")
    /\ ~ SCHED_INIT
    /\ PopTop
    /\ UNCHANGED <<ring, current, pc, local, added, halted>>

\* The handler loads a value.
HandlerLoad(at, frame) ==
    /\ HandlerAt(at)
    /\ SetTop(frame)
    /\ UNCHANGED <<ring, current, pc, local, added, halted>>

\* task = tasks_sched_head->task
context_switch_task ==
    \/ SCHED_INIT /\ HandlerLoad("read", [at |-> "task", task |-> None, nxt |-> tasks.sched_head])
    \/ HandlerLoad("task", [at |-> "load", task |-> task_of[Top.nxt], nxt |-> None])

\* tasks_sched_head->next
context_switch_next ==
    \/ HandlerLoad("load", [at |-> "next", task |-> Top.task, nxt |-> tasks.sched_head])
    \/ HandlerLoad("next", [at |-> "store", task |-> Top.task, nxt |-> next[Top.nxt]])

\* Mutations: the position is not advanced, or advanced twice.
NotAdvanced   == tasks
AdvancedTwice == [tasks EXCEPT !.sched_head = next[Top.nxt]]

Advanced == [tasks EXCEPT !.sched_head = Top.nxt]

context_switch_store ==
    /\ HandlerAt("store")
    /\ tasks' = Advanced
    /\ SetTop([Top EXCEPT !.at = "switch"])
    /\ UNCHANGED <<next, task_of, heap, current, pc, local, added, halted>>

\* do_task_switch: interrupts are disabled from saving the stack pointer of
\* the current task to loading that of the next.  When the task gets the CPU
\* back, it returns from do_task_switch and from the handler.
do_task_switch ==
    /\ HandlerAt("switch")
    /\ current' = Top.task
    /\ PopTop
    /\ UNCHANGED <<ring, pc, local, added, halted>>

sched_context_switch ==
    handler_skip \/ context_switch_task \/ context_switch_next \/ context_switch_store
        \/ do_task_switch

Stopped == halted /\ UNCHANGED vars

Next ==
    \/ kernel_main
    \/ \E t \in Task : task_step(t)
    \/ timer_irq \/ keyboard_irq
    \/ sched_context_switch
    \/ Stopped

\* The timer never stops ticking and a handler that has started goes on.  A
\* time slice is long enough for the task to execute instructions in it, so a
\* task that gets the CPU again and again makes progress in the kernel.  No
\* program need ever call exit and no kernel task need ever return.
Fairness ==
    /\ WF_vars(timer_irq)
    /\ WF_vars(sched_context_switch)
    /\ SF_vars(kernel_main)
    /\ \A t \in Task : SF_vars(leave_step(t))

Spec == Init /\ [][Next]_vars /\ Fairness
-----------------------------------------------------------------------------
(* Properties.                                                             *)

\* The nodes reached from tasks_head: those of every set that has the head and,
\* with a node, the one that follows it.  The tasks queued are theirs.
Follows(S) == tasks.head \in S \cup {None} /\ \A t \in S : next[t] \in S \cup {None}
Ring       == {t \in Task : \A S \in SUBSET Task : Follows(S) => t \in S}
Queued     == {task_of[n] : n \in Ring}

\* No task has started to leave; no user task has; no kernel task has.
NobodyLeft == \A t \in Task \ {Main} : pc[t] = "run"
NoExit     == \A t \in Exiting : pc[t] = "run"
NoReturn   == \A t \in Returning : pc[t] = "run"

\* How many tasks the first store of sched_add has made reachable, and the
\* i-th of them.
Linked   == IF pc[Main] = "tail" THEN added + 1 ELSE added
Order(i) == IF i = 0 THEN Main ELSE AddOrder[i]

\* Wherever a tick catches sched_add between its stores, and however timer
\* handlers are nested, the list is one ring of the tasks in the order in which
\* kernel_main added them, and the scheduler's position is in it.
RingClosed ==
    SCHED_INIT /\ NobodyLeft =>
        /\ tasks.head = Main
        /\ \A i \in 0 .. Linked - 1 : next[Order(i)] = Order(i + 1)
        /\ next[Order(Linked)] = Main
        /\ \A i \in 0 .. Linked : task_of[Order(i)] = Order(i)
        /\ \E i \in 0 .. Linked : tasks.sched_head = Order(i)

\* sched_context_switch never follows a pointer to a node that exit freed, as
\* long as a timer handler has switched tasks before the next tick comes
\* (MaxNest = 1).
SchedHeadAllocated == SCHED_INIT /\ NoReturn => tasks.sched_head \in nodes

\* The CPU goes from a task to its successor in the ring, never over one, also
\* while a task exits; a task that has exited and lost the CPU never gets it
\* back.
SwitchesInOrder ==
    [][NoReturn /\ current' # current =>
        current' = next[current] /\ pc[current'] # "exited"]_vars

\* exit never frees a node while kernel_main is preempted inside the kmalloc of
\* sched_add: the heap's list has one writer at a time.
HeapUndisturbed == [][NoReturn /\ nodes \ nodes' # {} => pc[Main] # "kmalloc"]_vars

\* As long as no task leaves, every task gets the CPU again and again.
EveryTaskRuns == []NobodyLeft => \A t \in Task : []<>(current = t)

\* exit never hangs the CPU: with interrupts disabled, sched_remove finds the
\* task and comes back, although its loop only ever looks at the tail's
\* successor.
ExitCompletes == \A t \in Exiting : pc[t] = "remove" /\ NoReturn ~> pc[t] = "exited"

\* No kernel task begins to leave before kernel_main has added all tasks.
FilledFirst == pc[Main] # "run" => NoReturn

\* However the return of a kernel task tears at the ring once kernel_main has
\* filled it, even while the task loops in sched_remove, kernel_main keeps
\* getting the CPU unless the kernel panics.  If a task returns earlier,
\* sched_add may get its node while the ring still leads to it, and close a
\* ring without task 0.
MainRuns == [](NoExit /\ FilledFirst) => []<>(current = Main \/ halted)

\* task_switch.S: after a task returns it is removed from the queue.
ReturnedIsRemoved == \A t \in Returning : pc[t] = "remove" ~> (t \notin Queued \/ halted)

\* sched_remove refuses to remove the init task.  While no kernel task returns,
\* it leaves the ring only together with all the others behind the head, when
\* its child, the tail, exits.
InitStaysQueued ==
    [][NoReturn /\ (InitTask \in Queued) /\ (InitTask \notin Queued)' =>
        pc[Child] = "relink" /\ pc'[Child] = "kfree"]_vars
=============================================================================
