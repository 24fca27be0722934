---------------------------- MODULE SchedProofs ----------------------------
(***************************************************************************)
(* The ring of tasks stays closed while kernel_main fills it, exit leaves  *)
(* the heap alone meanwhile, and init stays in the ring unless the child   *)
(* leaves as the tail, for every number of tasks and however deeply timer  *)
(* handlers are nested.  With one timer handler at a time the position of  *)
(* the scheduler survives the exit of the child, too, and the CPU goes     *)
(* round the ring.                                                         *)
(***************************************************************************)
EXTENDS Sched, TLAPS

\* How many tasks kernel_main adds.
All == TestTasks + 2

\* The tasks that are in the ring.
InRing == {Order(i) : i \in 0 .. Linked}

\* What an activation of the timer handler may hold: once it has read the
\* position, a node of the ring, then its task; once it has read the successor,
\* another one.
Activation ==
    [at : {"read"}, task : {None}, nxt : {None}]
        \cup IF SCHED_INIT
             THEN [at : {"task"}, task : {None}, nxt : InRing]
                      \cup [at : {"load"}, task : InRing, nxt : {None}]
                      \cup [at : {"next", "store", "switch"}, task : InRing, nxt : InRing]
             ELSE {}

\* Where a task that is in sched_remove may be, where one that leaves may be,
\* and where kernel_main is: in sched_add before the new node is linked, or not.
Removing == {"remove", "is_tail", "drop_load", "drop_next", "drop_tail", "head_load", "tail_load",
             "relink", "search", "search_tail", "search_next", "compare", "again",
             "unlink_load", "unlink", "is_head", "kfree"}
Leaving  == Removing \cup {"exited", "halt", "ud2", "panic"}
Filled   == {"add_tail", "add_next", "fill_task", "fill_next", "link_tail", "link"}
Adding   == {"init_sched", "kmalloc", "tail", "run"} \cup Filled

\* Init never gets as far as sched_remove: it panics.
PcOK ==
    /\ pc \in [Task -> Leaving \cup Adding]
    /\ pc[Main] \in Adding
    /\ pc[InitTask] \in {"run", "panic"}
    /\ \A t \in Task \ {Main} : pc[t] # "run" => t \in Exiting \cup Returning

\* The variables of a task, and the three pointers.
Locals   == {"task", "prev", "reg", "val"}
Pointers == {"head", "tail", "sched_head"}

LocalOK ==
    /\ DOMAIN local = Task
    /\ \A t \in Task : DOMAIN local[t] = Locals
    /\ DOMAIN tasks = Pointers

\* Nobody has begun to take a node out of the ring.
Whole == \A t \in Task \ {Main, InitTask} : pc[t] = "run"

\* Nodes are named by their tasks.
Named == task_of = [t \in Task |-> t]

Shape ==
    /\ next \in [Task -> Task \cup {None}]
    /\ Named
    /\ freed = {}
    /\ current \in InRing
    /\ irq \in [Task -> Seq(Activation)]
    /\ added \in 0 .. All

\* The ring: the tail is the last task added.
Linking ==
    /\ tasks.head = Main
    /\ tasks.tail = Order(added)
    /\ pc[Main] # "run" => added < All
    /\ \A i \in 0 .. Linked - 1 : next[Order(i)] = Order(i + 1)
    /\ next[Order(Linked)] = Main
    /\ tasks.sched_head \in InRing
    /\ InRing \subseteq nodes

\* Where kernel_main is in sched_add: the new node points to the head once it is
\* filled in.
NewNode ==
    /\ pc[Main] \in Filled \cup {"tail"} =>
            new_tasks = Order(added + 1) /\ Order(added + 1) \in nodes
    /\ pc[Main] \in {"add_next", "link"} => local[Main].reg = Order(added)
    /\ pc[Main] \in {"fill_task", "fill_next"} => local[Main].reg = Main
    /\ pc[Main] \in {"link_tail", "link"} => next[Order(added + 1)] = Main

Filling ==
    IF pc[Main] = "init_sched"
    THEN tasks.sched_head = None /\ tasks.head = None /\ added = 0
    ELSE Linking /\ NewNode

RingInv == PcOK /\ LocalOK /\ (Whole => Shape /\ Filling)

\* A user task in the kernel has the CPU and keeps it: interrupts are off.
SyscallInv ==
    /\ irq = [t \in Task |-> irq[t]]
    /\ \A t \in {InitTask, Child} : InSyscall(t) => current = t /\ irq[t] = <<>>

\* The child runs only once it is linked, after the last kmalloc of sched_add.
ChildInv ==
    NoReturn /\ pc[Child] # "run" =>
        /\ pc[Main] \in {"tail", "run"} /\ Linked = All
        /\ pc[Main] = "tail" => new_tasks = Child
        /\ Named
-----------------------------------------------------------------------------
\* The order in which tasks are added: the test tasks from 3 on, init, child.
LEMMA OrderFacts ==
    /\ All \in Nat /\ All >= 2
    /\ Len(AddOrder) = All
    /\ \A i \in 1 .. TestTasks : AddOrder[i] = 2 + i
    /\ AddOrder[TestTasks + 1] = InitTask
    /\ AddOrder[TestTasks + 2] = Child
<1> DEFINE s == [i \in 1 .. TestTasks |-> 2 + i]
<1>1. TestTasks \in Nat
  BY SchedAssumption, Zenon
<1>2. s \in Seq(Nat) /\ Len(s) = TestTasks
  BY <1>1
<1>3. <<InitTask, Child>> \in Seq(Nat) /\ Len(<<InitTask, Child>>) = 2
  BY DEF InitTask, Child
<1>4. AddOrder = s \o <<InitTask, Child>>
  BY Zenon DEF AddOrder
<1> QED
  <2>1. \A i \in 1 .. TestTasks : s[i] = 2 + i
    BY Zenon
  <2> HIDE DEF s
  <2> QED BY <1>1, <1>2, <1>3, <1>4, <2>1 DEF All, InitTask, Child

\* Every place of the order has a task of its own.
LEMMA OrderIsOneToOne ==
    /\ \A i \in 0 .. All : Order(i) \in Task
    /\ \A i, j \in 0 .. All : Order(i) = Order(j) => i = j
    /\ Order(0) = Main
<1>1. TestTasks \in Nat
  BY SchedAssumption, Zenon
<1>2. \A i \in 0 .. All : Order(i) = IF i = 0 THEN 0
                                     ELSE IF i <= TestTasks THEN 2 + i
                                     ELSE IF i = TestTasks + 1 THEN 1 ELSE 2
  BY <1>1, OrderFacts DEF Order, All, Main, InitTask, Child
<1> HIDE DEF Order
<1> QED BY <1>1, <1>2 DEF All, Task, Main

LEMMA UserOrder == Order(All) = Child /\ Order(All - 1) = InitTask
BY OrderFacts, SchedAssumption DEF Order, All

LEMMA TopFacts ==
    ASSUME NEW S, NEW s \in Seq(S), s # <<>>
    PROVE  Under(s) \in Seq(S) /\ TopOf(s) \in S
<1>1. Len(s) \in Nat /\ Len(s) > 0
  OBVIOUS
<1> QED BY <1>1 DEF Under, TopOf

LEMMA TaskFacts == Main \in Task /\ InitTask \in Task /\ Child \in Task /\ Main # InitTask
                     /\ Main # Child /\ InitTask # Child /\ None \notin Task
BY SchedAssumption DEF Main, InitTask, Child, Task, None
-----------------------------------------------------------------------------
(* What the steps have in common.                                          *)

\* The variables of a task after a load.
LEMMA Fields ==
    ASSUME LocalOK, NEW t \in Task, NEW v
    PROVE  /\ DOMAIN WithTask(t, v) = Locals /\ DOMAIN WithPrev(t, v) = Locals
           /\ DOMAIN WithReg(t, v) = Locals /\ DOMAIN WithVal(t, v) = Locals
           /\ WithTask(t, v).task = v /\ WithPrev(t, v).prev = v
           /\ WithReg(t, v).reg = v /\ WithVal(t, v).val = v
           /\ WithPrev(t, v).task = local[t].task
           /\ WithReg(t, v).task = local[t].task
           /\ WithVal(t, v).task = local[t].task
           /\ WithTask(t, v).prev = local[t].prev
           /\ WithReg(t, v).prev = local[t].prev
           /\ WithVal(t, v).reg = local[t].reg
BY DEF LocalOK, Locals, WithTask, WithPrev, WithReg, WithVal

LEMMA NoLocalFields == DOMAIN NoLocal = Locals
BY DEF NoLocal, Locals

LEMMA LoadStep ==
    ASSUME PcOK, LocalOK, NEW t \in Task, NEW at, NEW x, NEW to, Load(t, at, x, to)
    PROVE  /\ pc[t] = at /\ pc'[t] = to /\ local'[t] = x
           /\ UNCHANGED <<next, task_of, nodes, freed, tasks, current, irq, added>>
BY Zenon DEF PcOK, LocalOK, Load, Runs, Goto, ring, heap, cpu

LEMMA StoreNextStep ==
    ASSUME PcOK, LocalOK, NEW t \in Task, NEW at, NEW links, NEW to, StoreNext(t, at, links, to)
    PROVE  /\ pc[t] = at /\ pc'[t] = to /\ next' = links
           /\ UNCHANGED <<task_of, nodes, freed, tasks, current, irq, local, added>>
BY Zenon DEF PcOK, LocalOK, StoreNext, Runs, Goto, heap, cpu

LEMMA StorePointerStep ==
    ASSUME PcOK, LocalOK, NEW t \in Task, NEW at, NEW pointers, NEW to,
           StorePointer(t, at, pointers, to)
    PROVE  /\ pc[t] = at /\ pc'[t] = to /\ tasks' = pointers
           /\ UNCHANGED <<next, task_of, nodes, freed, current, irq, local, added>>
BY Zenon DEF PcOK, LocalOK, StorePointer, Runs, Goto, heap, cpu

\* A step of task t at one place that goes to another, and the variables.
Moves(t, at, to) ==
    /\ Runs(t, at) /\ Goto(t, to)
    /\ UNCHANGED <<cpu, task_of, added>>
    /\ local' = local \/ \E x : local' = [local EXCEPT ![t] = x] /\ DOMAIN x = Locals
    /\ DOMAIN tasks' = DOMAIN tasks
    /\ at \notin {"drop_tail", "is_head"} => tasks' = tasks
    /\ at \notin {"relink", "unlink"} => next' = next
    /\ at # "kfree" => heap' = heap

LEMMA LoadMoves ==
    ASSUME NEW t, NEW at, NEW x, NEW to, Load(t, at, x, to), DOMAIN x = Locals
    PROVE  Moves(t, at, to)
BY Zenon DEF Load, Moves, ring

LEMMA RemoveMoves ==
    ASSUME LocalOK, NEW t \in Task, sched_remove(t)
    PROVE  \E at \in Removing, to \in Leaving : Moves(t, at, to)
<1>1. CASE remove_check(t)
  <2>1. PICK to \in {"panic", "is_tail"} : Load(t, "remove", WithTask(t, tasks.tail), to)
    BY <1>1, Zenon DEF remove_check
  <2>2. Moves(t, "remove", to)
    BY <2>1, Fields, LoadMoves, Zenon
  <2> QED BY <2>2, Zenon DEF Removing, Leaving
<1>2. CASE remove_tail(t)
  <2>1. CASE \E to \in {"drop_load", "search"} : Load(t, "is_tail", WithPrev(t, None), to)
    <3>1. PICK to \in {"drop_load", "search"} : Load(t, "is_tail", WithPrev(t, None), to)
      BY <2>1, Zenon
    <3>2. Moves(t, "is_tail", to)
      BY <3>1, Fields, LoadMoves, Zenon
    <3> QED BY <3>2, Zenon DEF Removing, Leaving
  <2>2. CASE Load(t, "drop_load", WithReg(t, tasks.tail), "drop_next")
    <3>1. Moves(t, "drop_load", "drop_next")
      BY <2>2, Fields, LoadMoves, Zenon
    <3> QED BY <3>1, Zenon DEF Removing, Leaving
  <2>3. CASE Load(t, "drop_next", WithReg(t, next[local[t].reg]), "drop_tail")
    <3>1. Moves(t, "drop_next", "drop_tail")
      BY <2>3, Fields, LoadMoves, Zenon
    <3> QED BY <3>1, Zenon DEF Removing, Leaving
  <2>4. CASE StorePointer(t, "drop_tail", [tasks EXCEPT !.tail = local[t].reg], "head_load")
    <3>1. Moves(t, "drop_tail", "head_load")
      BY <2>4, Zenon DEF StorePointer, Moves
    <3> QED BY <3>1, Zenon DEF Removing, Leaving
  <2>5. CASE Load(t, "head_load", WithReg(t, tasks.head), "tail_load")
    <3>1. Moves(t, "head_load", "tail_load")
      BY <2>5, Fields, LoadMoves, Zenon
    <3> QED BY <3>1, Zenon DEF Removing, Leaving
  <2>6. CASE Load(t, "tail_load", WithVal(t, tasks.tail), "relink")
    <3>1. Moves(t, "tail_load", "relink")
      BY <2>6, Fields, LoadMoves, Zenon
    <3> QED BY <3>1, Zenon DEF Removing, Leaving
  <2>7. CASE StoreNext(t, "relink", [next EXCEPT ![local[t].reg] = local[t].val], "kfree")
    <3>1. Moves(t, "relink", "kfree")
      BY <2>7, Zenon DEF StoreNext, Moves
    <3> QED BY <3>1, Zenon DEF Removing, Leaving
  <2> QED BY <1>2, <2>1, <2>2, <2>3, <2>4, <2>5, <2>6, <2>7, Zenon DEF remove_tail
<1>3. CASE remove_search(t)
  <2>1. CASE Load(t, "search", WithPrev(t, local[t].task), "search_tail")
    <3>1. Moves(t, "search", "search_tail")
      BY <2>1, Fields, LoadMoves, Zenon
    <3> QED BY <3>1, Zenon DEF Removing, Leaving
  <2>2. CASE Load(t, "search_tail", WithReg(t, tasks.tail), "search_next")
    <3>1. Moves(t, "search_tail", "search_next")
      BY <2>2, Fields, LoadMoves, Zenon
    <3> QED BY <3>1, Zenon DEF Removing, Leaving
  <2>3. CASE Load(t, "search_next", WithTask(t, next[local[t].reg]), "compare")
    <3>1. Moves(t, "search_next", "compare")
      BY <2>3, Fields, LoadMoves, Zenon
    <3> QED BY <3>1, Zenon DEF Removing, Leaving
  <2>4. CASE \E to \in {"unlink_load", "again"} : Load(t, "compare", WithReg(t, None), to)
    <3>1. PICK to \in {"unlink_load", "again"} : Load(t, "compare", WithReg(t, None), to)
      BY <2>4, Zenon
    <3>2. Moves(t, "compare", to)
      BY <3>1, Fields, LoadMoves, Zenon
    <3> QED BY <3>2, Zenon DEF Removing, Leaving
  <2>5. CASE \E to \in {"panic", "search"} : Load(t, "again", WithReg(t, None), to)
    <3>1. PICK to \in {"panic", "search"} : Load(t, "again", WithReg(t, None), to)
      BY <2>5, Zenon
    <3>2. Moves(t, "again", to)
      BY <3>1, Fields, LoadMoves, Zenon
    <3> QED BY <3>2, Zenon DEF Removing, Leaving
  <2> QED BY <1>3, <2>1, <2>2, <2>3, <2>4, <2>5, Zenon DEF remove_search
<1>4. CASE remove_unlink(t)
  <2>1. CASE Load(t, "unlink_load", WithReg(t, next[local[t].task]), "unlink")
    <3>1. Moves(t, "unlink_load", "unlink")
      BY <2>1, Fields, LoadMoves, Zenon
    <3> QED BY <3>1, Zenon DEF Removing, Leaving
  <2>2. CASE StoreNext(t, "unlink", [next EXCEPT ![local[t].prev] = local[t].reg], "is_head")
    <3>1. Moves(t, "unlink", "is_head")
      BY <2>2, Zenon DEF StoreNext, Moves
    <3> QED BY <3>1, Zenon DEF Removing, Leaving
  <2>3. CASE StorePointer(t, "is_head", HeadMoved(t), "kfree")
    <3>1. DOMAIN HeadMoved(t) = DOMAIN tasks
      BY Zenon DEF HeadMoved
    <3>2. Moves(t, "is_head", "kfree")
      BY <2>3, <3>1, Zenon DEF StorePointer, Moves
    <3> QED BY <3>2, Zenon DEF Removing, Leaving
  <2> QED BY <1>4, <2>1, <2>2, <2>3, Zenon DEF remove_unlink
<1>5. CASE remove_kfree(t)
  <2>1. PICK to \in {"exited", "halt"} : Runs(t, "kfree") /\ Goto(t, to)
    BY <1>5, Zenon DEF remove_kfree
  <2>2. Moves(t, "kfree", to)
    BY <1>5, <2>1, NoLocalFields, Zenon DEF remove_kfree, Leave, Moves
  <2> QED BY <2>2, Zenon DEF Removing, Leaving
<1> QED BY <1>1, <1>2, <1>3, <1>4, <1>5, Zenon DEF sched_remove

LEMMA LocalStays ==
    ASSUME LocalOK, NEW t \in Task, DOMAIN tasks' = DOMAIN tasks,
           local' = local \/ \E x : local' = [local EXCEPT ![t] = x] /\ DOMAIN x = Locals
    PROVE  LocalOK' /\ \A u \in Task \ {t} : local'[u] = local[u]
BY Zenon DEF LocalOK

\* A task that executes its own code is not task 0: kernel_main is.  Init only
\* panics, and a task that leaves is one that may.
LEMMA TaskMoves ==
    ASSUME PcOK, LocalOK, NEW t \in Task, task_step(t)
    PROVE  /\ t # Main
           /\ current = t /\ irq[t] = <<>> /\ UNCHANGED <<current, irq, added, task_of>>
           /\ LocalOK'
           /\ \A u \in Task \ {t} : pc'[u] = pc[u] /\ local'[u] = local[u]
           /\ \/ pc[t] = "panic" /\ UNCHANGED <<ring, pc, local>>
              \/ \E at \in Removing \cup {"run", "ud2"}, to \in Leaving :
                    /\ Moves(t, at, to)
                    /\ t \in Exiting \cup Returning
                    /\ at = "run" => UNCHANGED <<ring, local>>
                    /\ at = "run" /\ t \in Exiting => exit(t)
                    /\ at \in Removing => sched_remove(t)
                    /\ t = InitTask => at = "run" /\ to = "panic"
<1>1. CASE panic(t)
  <2>1. pc[t] = "panic" /\ UNCHANGED <<ring, pc, local, current, irq, added, task_of>>
        /\ current = t /\ irq[t] = <<>>
    BY <1>1, Zenon DEF panic, Runs, ring
  <2>2. t # Main
    BY <2>1, Zenon DEF PcOK, Adding, Filled
  <2>3. LocalOK'
    BY <2>1, Zenon DEF LocalOK, ring
  <2> QED BY <2>1, <2>2, <2>3, Zenon
<1>2. CASE exit(t) \/ task_returns(t)
  <2>1. PICK to \in {"panic", "remove"} :
            /\ Runs(t, "run") /\ Goto(t, to)
            /\ t \in Exiting => to = IF parent[t] = None THEN "panic" ELSE "remove"
    <3>1. Exiting \cap Returning = {}
      BY SchedAssumption DEF InitTask, Child
    <3> QED BY <1>2, <3>1, Zenon DEF exit, task_returns
  <2>2. UNCHANGED <<ring, cpu, local, added>> /\ t \in Exiting \cup Returning
    BY <1>2, Zenon DEF exit, task_returns
  <2>3. t # Main /\ (t = InitTask => t \in Exiting /\ parent[t] = None)
    <3>1. t # Main /\ (t = InitTask => t \notin Returning)
      BY <2>2, SchedAssumption DEF Main, InitTask, Child
    <3> QED BY <2>2, <3>1, TaskFacts, Zenon DEF parent
  <2>4. Moves(t, "run", to) /\ to \in Leaving
    BY <2>1, <2>2, Zenon DEF Moves, ring, Leaving, Removing
  <2>5. t \in Exiting => exit(t)
    <3>1. Exiting \cap Returning = {}
      BY SchedAssumption DEF InitTask, Child
    <3> QED BY <1>2, <3>1, Zenon DEF task_returns
  <2>6. LocalOK' /\ current = t /\ irq[t] = <<>> /\ UNCHANGED <<current, irq, added, task_of>>
    BY <2>1, <2>2, Zenon DEF LocalOK, ring, cpu, Runs
  <2>7. \A u \in Task \ {t} : pc'[u] = pc[u] /\ local'[u] = local[u]
    BY <2>1, <2>2, Zenon DEF Goto, PcOK
  <2> QED BY <2>1, <2>2, <2>3, <2>4, <2>5, <2>6, <2>7, Zenon DEF Removing
<1>3. CASE sched_remove(t) \/ ud2(t)
  <2>1. PICK at \in Removing \cup {"ud2"}, to \in Leaving :
            Moves(t, at, to) /\ (at \in Removing => sched_remove(t))
    <3>1. CASE sched_remove(t)
      BY <3>1, RemoveMoves, Zenon
    <3>2. CASE ud2(t)
      <4>1. Moves(t, "ud2", "panic")
        BY <3>2, Zenon DEF ud2, Moves, ring
      <4>2. "ud2" \notin Removing /\ "panic" \in Leaving
        BY DEF Removing, Leaving
      <4> QED BY <4>1, <4>2, Zenon
    <3> QED BY <1>3, <3>1, <3>2, Zenon
  <2>2. pc[t] = at /\ at \notin {"run", "panic"} /\ at \notin Adding
    BY <2>1, Zenon DEF Moves, Runs, Removing, Adding, Filled
  <2>3. t # Main /\ t # InitTask /\ t \in Exiting \cup Returning
    BY <2>2, Zenon DEF PcOK
  <2>4. current = t /\ irq[t] = <<>> /\ UNCHANGED <<current, irq, added, task_of>>
    BY <2>1, Zenon DEF Moves, Runs, cpu
  <2>5. LocalOK' /\ \A u \in Task \ {t} : local'[u] = local[u]
    BY <2>1, LocalStays, Zenon DEF Moves
  <2>6. \A u \in Task \ {t} : pc'[u] = pc[u]
    BY <2>1, Zenon DEF Moves, Goto, PcOK
  <2> QED BY <2>1, <2>2, <2>3, <2>4, <2>5, <2>6, Zenon
<1> QED BY <1>1, <1>2, <1>3, Zenon DEF task_step, leave_step

LEMMA MainMoves ==
    ASSUME PcOK, LocalOK, kernel_main
    PROVE  /\ current = Main /\ irq[Main] = <<>> /\ UNCHANGED <<current, irq>>
           /\ LocalOK'
           /\ \A u \in Task \ {Main} : pc'[u] = pc[u] /\ local'[u] = local[u]
           /\ \E to \in Adding \ {"init_sched"} : pc' = [pc EXCEPT ![Main] = to]
<1>0. Main \in Task
  BY TaskFacts, Zenon
<1>a. \A to \in {"kmalloc", "add_tail", "add_next", "fill_task", "fill_next", "link_tail", "link",
                 "tail", "run"} : to \in Adding \ {"init_sched"}
  BY DEF Adding, Filled
<1>1. ASSUME NEW at, NEW x, NEW to, Load(Main, at, x, to), DOMAIN x = Locals
      PROVE  /\ Runs(Main, at) /\ Goto(Main, to) /\ UNCHANGED cpu
             /\ local' = [local EXCEPT ![Main] = x] /\ DOMAIN tasks' = DOMAIN tasks
  BY <1>1, Zenon DEF Load, ring
<1>2. /\ \E at, to : Runs(Main, at) /\ to \in Adding \ {"init_sched"} /\ Goto(Main, to)
      /\ UNCHANGED cpu
      /\ local' = local \/ \E x : local' = [local EXCEPT ![Main] = x] /\ DOMAIN x = Locals
      /\ DOMAIN tasks' = DOMAIN tasks
  <2>1. CASE init_sched
    <3>1. DOMAIN [head |-> Main, tail |-> Main, sched_head |-> Main] = Pointers
      BY DEF Pointers
    <3> QED BY <1>a, <2>1, <3>1, Zenon DEF init_sched, LocalOK
  <2>2. CASE sched_add_kmalloc
    <3>1. PICK n : local' = [local EXCEPT ![Main] = WithTask(Main, n)]
      BY <2>2, Zenon DEF sched_add_kmalloc
    <3>2. DOMAIN WithTask(Main, n) = Locals
      BY <1>0, Fields, Zenon
    <3> QED BY <1>a, <2>2, <3>1, <3>2, Zenon DEF sched_add_kmalloc
  <2>3. CASE sched_add_fill
    <3>1. CASE Load(Main, "add_tail", WithReg(Main, tasks.tail), "add_next")
      <4>1. DOMAIN WithReg(Main, tasks.tail) = Locals
        BY <1>0, Fields, Zenon
      <4> QED BY <1>1, <1>a, <3>1, <4>1, Zenon
    <3>2. CASE Load(Main, "add_next", WithReg(Main, next[local[Main].reg]), "fill_task")
      <4>1. DOMAIN WithReg(Main, next[local[Main].reg]) = Locals
        BY <1>0, Fields, Zenon
      <4> QED BY <1>1, <1>a, <3>2, <4>1, Zenon
    <3> QED BY <1>a, <2>3, <3>1, <3>2, Zenon DEF sched_add_fill, StoreNext
  <2>4. CASE sched_add_link
    <3>1. CASE Load(Main, "link_tail", WithReg(Main, tasks.tail), "link")
      <4>1. DOMAIN WithReg(Main, tasks.tail) = Locals
        BY <1>0, Fields, Zenon
      <4> QED BY <1>1, <1>a, <3>1, <4>1, Zenon
    <3> QED BY <1>a, <2>4, <3>1, Zenon DEF sched_add_link, StoreNext
  <2>5. CASE sched_add_tail
    BY <1>a, <2>5, NoLocalFields, Zenon DEF sched_add_tail, Leave
  <2> QED BY <2>1, <2>2, <2>3, <2>4, <2>5, Zenon DEF kernel_main, sched_add
<1>3. LocalOK' /\ \A u \in Task \ {Main} : local'[u] = local[u]
  BY <1>0, <1>2, LocalStays, Zenon
<1> QED BY <1>0, <1>2, <1>3, Zenon DEF Runs, Goto, cpu, PcOK

LEMMA IrqMoves ==
    ASSUME timer_irq \/ keyboard_irq
    PROVE  /\ ~ InSyscall(current)
           /\ UNCHANGED <<next, task_of, nodes, freed, tasks, current, local, added>>
           /\ irq' = irq \/ \E s : irq' = [irq EXCEPT ![current] = s]
           /\ pc' = pc \/ (pc[current] = "halt" /\ pc' = [pc EXCEPT ![current] = "ud2"])
BY Zenon DEF timer_irq, keyboard_irq, WakeUp, Goto, ring, heap, cpu

LEMMA HandlerMoves ==
    ASSUME sched_context_switch
    PROVE  /\ irq[current] # <<>>
           /\ UNCHANGED <<next, task_of, nodes, freed, pc, local, added>>
           /\ \E s : irq' = [irq EXCEPT ![current] = s]
           /\ \/ tasks' = tasks
              \/ current' = current /\ tasks' = [tasks EXCEPT !.sched_head = Top.nxt]
BY Zenon DEF sched_context_switch, handler_skip, context_switch_task, context_switch_next,
             context_switch_store, do_task_switch, HandlerLoad, HandlerAt, SetTop, PopTop, Advanced,
             ring, heap

LEMMA Stutters ==
    ASSUME Stopped \/ UNCHANGED vars
    PROVE  UNCHANGED <<next, task_of, nodes, freed, tasks, current, irq, pc, local, added>>
BY Zenon DEF Stopped, vars, ring, heap, cpu
-----------------------------------------------------------------------------
(* The ring while kernel_main fills it.                                    *)

LEMMA InitRingInv == Init => RingInv
<1> SUFFICES ASSUME Init PROVE RingInv
  BY Zenon
<1>1. Main \in Task /\ InitTask \in Task /\ Main # InitTask
  BY TaskFacts, Zenon
<1>2. PcOK
  BY <1>1, Zenon DEF Init, PcOK, Leaving, Adding
<1>3. <<>> \in Seq(Activation)
  OBVIOUS
<1>4. current \in InRing
  BY <1>1, OrderIsOneToOne DEF Init, InRing, Linked
<1>5. Shape
  BY <1>1, <1>3, <1>4, OrderFacts DEF Init, Shape, Named
<1>6. Filling
  BY <1>1, Zenon DEF Init, Filling
<1>7. LocalOK
  <2>1. DOMAIN tasks = Pointers
    BY DEF Init, Pointers
  <2> QED BY <2>1, NoLocalFields, Zenon DEF Init, LocalOK
<1> QED BY <1>2, <1>5, <1>6, <1>7, Zenon DEF RingInv

\* The tasks in the ring only grow in number, so what a handler holds stays
\* good.
LEMMA ActivationsStay ==
    ASSUME Shape, SCHED_INIT => SCHED_INIT', InRing \subseteq InRing', irq' = irq
    PROVE  irq' \in [Task -> Seq(Activation')]
<1>1. Activation \subseteq Activation'
  BY Zenon DEF Activation
<1>2. Seq(Activation) \subseteq Seq(Activation')
  BY <1>1
<1> QED BY <1>2, Zenon DEF Shape

\* A task other than task 0 that has left its program never comes back to it.
LEMMA PcStep ==
    PcOK /\ LocalOK /\ [Next]_vars =>
        PcOK' /\ LocalOK' /\ \A t \in Task \ {Main} : pc'[t] = "run" => pc[t] = "run"
<1> SUFFICES ASSUME PcOK, LocalOK, [Next]_vars
             PROVE  /\ PcOK' /\ LocalOK'
                    /\ \A t \in Task \ {Main} : pc'[t] = "run" => pc[t] = "run"
  BY Zenon
<1>0. Main \in Task /\ InitTask \in Task /\ Main # InitTask
  BY TaskFacts, Zenon
<1>1. CASE kernel_main
  <2>1. LocalOK' /\ \E at \in Adding : pc' = [pc EXCEPT ![Main] = at]
    BY <1>1, MainMoves, Zenon
  <2> QED BY <1>0, <2>1, Zenon DEF PcOK
<1>2. ASSUME UNCHANGED <<pc, local, tasks>>
      PROVE  PcOK' /\ LocalOK' /\ \A t \in Task \ {Main} : pc'[t] = "run" => pc[t] = "run"
  BY <1>2, Zenon DEF PcOK, LocalOK
<1>3. ASSUME NEW t \in Task, task_step(t)
      PROVE  PcOK' /\ LocalOK' /\ \A u \in Task \ {Main} : pc'[u] = "run" => pc[u] = "run"
  <2>1. t # Main /\ LocalOK'
    BY <1>3, TaskMoves, Zenon
  <2>2. CASE pc' = pc
    BY <2>1, <2>2, Zenon DEF PcOK
  <2>3. ASSUME NEW to \in Leaving, pc' = [pc EXCEPT ![t] = to], t = InitTask => to = "panic",
               t \in Exiting \cup Returning
        PROVE  PcOK' /\ \A u \in Task \ {Main} : pc'[u] = "run" => pc[u] = "run"
    <3>1. to # "run"
      BY Zenon DEF Leaving, Removing
    <3> QED BY <1>0, <2>1, <2>3, <3>1, Zenon DEF PcOK
  <2>4. pc' = pc \/ \E to \in Leaving : /\ pc' = [pc EXCEPT ![t] = to]
                                        /\ t = InitTask => to = "panic"
                                        /\ t \in Exiting \cup Returning
    BY <1>3, TaskMoves, Zenon DEF Moves, Goto
  <2> QED BY <2>1, <2>2, <2>3, <2>4, Zenon
<1>4. CASE timer_irq \/ keyboard_irq
  <2>1. UNCHANGED <<local, tasks>>
        /\ (pc' = pc \/ (pc[current] = "halt" /\ pc' = [pc EXCEPT ![current] = "ud2"]))
    BY <1>4, IrqMoves, Zenon
  <2>2. CASE pc[current] = "halt" /\ pc' = [pc EXCEPT ![current] = "ud2"]
    <3>1. LocalOK'
      BY <2>1, Zenon DEF LocalOK
    <3> QED BY <1>0, <2>2, <3>1, Zenon DEF PcOK, Leaving, Adding, Filled
  <2> QED BY <1>2, <2>1, <2>2, Zenon
<1>5. CASE sched_context_switch
  <2>1. pc' = pc /\ local' = local /\ DOMAIN tasks' = DOMAIN tasks
    BY <1>5, HandlerMoves, Zenon
  <2> QED BY <2>1, Zenon DEF PcOK, LocalOK
<1>6. CASE Stopped \/ UNCHANGED vars
  BY <1>2, <1>6, Stutters, Zenon
<1> QED BY <1>1, <1>3, <1>4, <1>5, <1>6, Zenon DEF Next

\* While the ring is whole, a task's own steps leave it and the CPU alone.
LEMMA NoTaskStep ==
    ASSUME PcOK, LocalOK, Whole, Whole', NEW t \in Task, task_step(t)
    PROVE  /\ UNCHANGED <<ring, current, irq, added>>
           /\ pc'[Main] = pc[Main] /\ local'[Main] = local[Main]
<1>1. t # Main /\ UNCHANGED <<current, irq, added>>
      /\ pc'[Main] = pc[Main] /\ local'[Main] = local[Main]
  BY TaskMoves, TaskFacts, Zenon
<1>2. CASE t = InitTask
  BY <1>1, <1>2, TaskMoves, Zenon
<1>3. CASE t # InitTask
  <2>1. pc[t] = "run" /\ pc'[t] = "run"
    BY <1>1, <1>3, Zenon DEF Whole
  <2>2. ASSUME NEW at, NEW to \in Leaving, Moves(t, at, to) PROVE FALSE
    BY <2>1, <2>2, Zenon DEF Moves, Goto, PcOK, Leaving, Removing
  <2> QED BY <2>1, <2>2, TaskMoves, Zenon
<1> QED BY <1>2, <1>3, Zenon

\* The steps of sched_add up to the store that links the new node change nothing
\* that a handler can reach.
LEMMA FillingStep ==
    ASSUME PcOK, Shape, Filling, pc[Main] \in Filled \cup {"kmalloc"}, pc'[Main] \in Filled,
           next' \in [Task -> Task \cup {None}], \A t \in InRing : next'[t] = next[t],
           nodes \subseteq nodes',
           UNCHANGED <<task_of, freed, tasks, current, irq, added>>
    PROVE  Shape' /\ Linking'
<1>0. All \in Nat /\ pc[Main] # "tail" /\ pc'[Main] # "tail" /\ pc[Main] # "init_sched"
      /\ pc[Main] # "run"
  BY OrderFacts DEF Filled
<1>1. Linking /\ Linked = added /\ Linked' = added /\ added \in 0 .. All - 1
  BY <1>0 DEF Filling, Linking, Linked, Shape
<1>2. InRing' = InRing /\ SCHED_INIT' = SCHED_INIT
  BY <1>1, Zenon DEF InRing, SCHED_INIT, Order
<1>3. irq' \in [Task -> Seq(Activation')]
  BY <1>2, ActivationsStay, Zenon
<1>4. Shape'
  BY <1>2, <1>3, Zenon DEF Shape, Named
<1>5. \A i \in 0 .. added : Order(i) \in InRing
  BY <1>1, Zenon DEF InRing
<1>6. Linking'
  <2> HIDE DEF Order
  <2>1. \A i \in 0 .. added - 1 : next'[Order(i)] = Order(i + 1)
    BY <1>0, <1>1, <1>5 DEF Linking
  <2>2. next'[Order(added)] = Main
    BY <1>1, <1>5 DEF Linking
  <2>3. added < All
    BY <1>0, <1>1
  <2> QED BY <1>1, <1>2, <2>1, <2>2, <2>3, Zenon DEF Linking
<1> QED BY <1>4, <1>6, Zenon

LEMMA KernelMainStep ==
    ASSUME PcOK, LocalOK, Shape, Filling, kernel_main
    PROVE  Shape' /\ Filling'
<1>0. Main \in Task /\ pc \in [Task -> Leaving \cup Adding] /\ All \in Nat
      /\ DOMAIN local = Task
  BY TaskFacts, OrderFacts, Zenon DEF PcOK, LocalOK
<1>1. CASE init_sched
  <2>1. /\ pc[Main] = "init_sched" /\ pc'[Main] = "kmalloc"
        /\ next' = [next EXCEPT ![Main] = Main]
        /\ tasks' = [head |-> Main, tail |-> Main, sched_head |-> Main]
        /\ nodes' = {Main}
        /\ UNCHANGED <<task_of, freed, current, irq, added>>
    BY <1>0, <1>1, Zenon DEF init_sched, Runs, Goto, cpu
  <2>2. added = 0 /\ ~ SCHED_INIT /\ Linked' = 0
    BY <2>1, Zenon DEF Filling, Linked, SCHED_INIT
  <2>3. irq' \in [Task -> Seq(Activation')]
    <3>1. Activation \subseteq Activation'
      BY <2>2, Zenon DEF Activation
    <3>2. Seq(Activation) \subseteq Seq(Activation')
      BY <3>1
    <3> QED BY <2>1, <3>2, Zenon DEF Shape
  <2>4. InRing' = {Main} /\ InRing = {Main} /\ Order(0) = Main
    BY <2>1, <2>2 DEF InRing, Order, Linked
  <2>5. Shape'
    BY <1>0, <2>1, <2>3, <2>4, Zenon DEF Shape, Named
  <2>6. next'[Main] = Main
    BY <1>0, <2>1, Zenon DEF Shape
  <2>7. Linking'
    BY <1>0, <2>1, <2>2, <2>4, <2>6, OrderFacts DEF Linking, Order
  <2>8. NewNode'
    BY <2>1 DEF NewNode, Filled
  <2> QED BY <2>1, <2>5, <2>7, <2>8, Zenon DEF Filling
<1>2. ASSUME pc[Main] \in Filled \cup {"kmalloc"}
      PROVE  /\ Linking /\ NewNode
             /\ Linked = added /\ added \in 0 .. All - 1 /\ tasks.tail = Order(added)
             /\ next[Order(added)] = Main /\ Order(added) \in InRing
             /\ New = Order(added + 1) /\ New \in Task /\ New \notin InRing
  <2>1. Linking /\ NewNode /\ Linked = added /\ added \in 0 .. All - 1
    <3>1. pc[Main] \notin {"init_sched", "tail", "run"}
      BY <1>2 DEF Filled
    <3>2. Linking /\ NewNode /\ Linked = added /\ added < All
      BY <3>1, Zenon DEF Filling, Linking, Linked
    <3> QED BY <1>0, <3>2 DEF Shape
  <2>2. New = Order(added + 1)
    BY <2>1 DEF New, Order
  <2>3. added + 1 \in 0 .. All /\ added \in 0 .. Linked
        /\ \A i \in 0 .. Linked : i \in 0 .. All /\ i # added + 1
    BY <1>0, <2>1
  <2>4. New \in Task /\ New \notin InRing
    BY <2>2, <2>3, OrderIsOneToOne, Zenon DEF InRing
  <2> QED BY <2>1, <2>2, <2>3, <2>4, Zenon DEF Linking, InRing
<1>3. CASE sched_add_kmalloc
  <2>1. pc[Main] = "kmalloc" /\ pc'[Main] = "add_tail"
        /\ UNCHANGED <<next, task_of, tasks, current, irq, added>>
    BY <1>0, <1>3, Zenon DEF sched_add_kmalloc, Runs, Goto, cpu
  <2>2. freed = {} /\ nodes' = nodes \cup {New} /\ freed' = {}
        /\ local' = [local EXCEPT ![Main] = WithTask(Main, New)]
    <3>1. freed = {}
      BY Zenon DEF Shape
    <3>2. PICK n \in freed \cup {New} : /\ nodes' = nodes \cup {n} /\ freed' = freed \ {n}
                                        /\ local' = [local EXCEPT ![Main] = WithTask(Main, n)]
      BY <1>3, Zenon DEF sched_add_kmalloc
    <3> QED BY <3>1, <3>2, Zenon
  <2>3. new_tasks' = New
    BY <1>0, <2>2, Fields, Zenon DEF new_tasks
  <2>4. New = Order(added + 1)
    BY <1>2, <2>1, Zenon
  <2>5. Shape' /\ Linking'
    <3>1. pc[Main] \in Filled \cup {"kmalloc"} /\ pc'[Main] \in Filled
      BY <2>1 DEF Filled
    <3> QED BY <2>1, <2>2, <3>1, FillingStep, Zenon DEF Shape
  <2>6. NewNode'
    BY <2>1, <2>2, <2>3, <2>4 DEF NewNode, Order, New
  <2> QED BY <2>1, <2>5, <2>6, Zenon DEF Filling
<1>4. ASSUME NEW at \in Filled, NEW v, NEW to \in Filled, Load(Main, at, WithReg(Main, v), to)
      PROVE  /\ pc[Main] = at /\ pc'[Main] = to
             /\ new_tasks' = new_tasks /\ local'[Main].reg = v
             /\ UNCHANGED <<next, nodes, tasks, added>>
             /\ Shape' /\ Linking'
  <2>1. /\ pc[Main] = at /\ pc'[Main] = to /\ local'[Main] = WithReg(Main, v)
        /\ UNCHANGED <<next, task_of, nodes, freed, tasks, current, irq, added>>
    BY <1>0, <1>4, LoadStep, Zenon
  <2>2. new_tasks' = new_tasks /\ local'[Main].reg = v
    <3>1. WithReg(Main, v).task = local[Main].task /\ WithReg(Main, v).reg = v
      BY <1>0, Fields, Zenon
    <3> QED BY <2>1, <3>1, Zenon DEF new_tasks
  <2>3. Shape' /\ Linking'
    BY <1>4, <2>1, FillingStep, Zenon DEF Shape
  <2> QED BY <2>1, <2>2, <2>3, Zenon
<1>5. CASE Load(Main, "add_tail", WithReg(Main, tasks.tail), "add_next")
           \/ Load(Main, "link_tail", WithReg(Main, tasks.tail), "link")
  <2>1. PICK at, to : /\ Load(Main, at, WithReg(Main, tasks.tail), to)
                      /\ (at = "add_tail" /\ to = "add_next") \/ (at = "link_tail" /\ to = "link")
    BY <1>5, Zenon
  <2>2. at \in Filled /\ to \in Filled
    BY <2>1 DEF Filled
  <2>3. /\ pc[Main] = at /\ pc'[Main] = to
        /\ new_tasks' = new_tasks /\ local'[Main].reg = tasks.tail
        /\ UNCHANGED <<next, nodes, tasks, added>>
        /\ Shape' /\ Linking'
    BY <1>4, <2>1, <2>2, Zenon
  <2>4. NewNode /\ tasks.tail = Order(added)
    BY <1>2, <2>2, <2>3, Zenon
  <2>5. NewNode'
    BY <2>1, <2>2, <2>3, <2>4 DEF NewNode, Order
  <2>6. pc'[Main] # "init_sched"
    BY <2>1, <2>3
  <2> QED BY <2>3, <2>5, <2>6, Zenon DEF Filling
<1>6. CASE Load(Main, "add_next", WithReg(Main, next[local[Main].reg]), "fill_task")
  <2>1. "add_next" \in Filled /\ "fill_task" \in Filled
    BY DEF Filled
  <2>2. /\ pc[Main] = "add_next" /\ pc'[Main] = "fill_task"
        /\ new_tasks' = new_tasks /\ local'[Main].reg = next[local[Main].reg]
        /\ UNCHANGED <<next, nodes, tasks, added>>
        /\ Shape' /\ Linking'
    BY <1>4, <1>6, <2>1, Zenon
  <2>3. NewNode /\ next[Order(added)] = Main
    BY <1>2, <2>1, <2>2, Zenon
  <2>4. local'[Main].reg = Main
    BY <2>2, <2>3, Zenon DEF NewNode
  <2>5. NewNode'
    BY <2>1, <2>2, <2>3, <2>4 DEF NewNode, Order
  <2> QED BY <2>2, <2>5, Zenon DEF Filling
<1>7. CASE Runs(Main, "fill_task") /\ sched_add_fill
  <2>1. /\ pc[Main] = "fill_task" /\ pc'[Main] = "fill_next"
        /\ task_of' = [task_of EXCEPT ![new_tasks] = New]
        /\ UNCHANGED <<next, nodes, freed, tasks, current, irq, local, added>>
    BY <1>0, <1>7, Zenon DEF sched_add_fill, Load, StoreNext, Runs, Goto, heap, cpu
  <2>2. pc[Main] \in Filled \cup {"kmalloc"} /\ pc'[Main] \in Filled
    BY <2>1 DEF Filled
  <2>3. NewNode /\ New = Order(added + 1) /\ New \in Task
    BY <1>2, <2>2, Zenon
  <2>4. new_tasks = New
    BY <2>1, <2>2, <2>3 DEF NewNode
  <2>5. task_of' = task_of
    BY <2>1, <2>3, <2>4 DEF Shape, Named
  <2>6. Shape' /\ Linking'
    BY <2>1, <2>2, <2>5, FillingStep, Zenon DEF Shape
  <2>7. NewNode'
    BY <2>1, <2>2, <2>3 DEF NewNode, Order, new_tasks
  <2> QED BY <2>1, <2>6, <2>7, Zenon DEF Filling
<1>8. CASE StoreNext(Main, "fill_next", [next EXCEPT ![new_tasks] = local[Main].reg], "link_tail")
  <2>1. /\ pc[Main] = "fill_next" /\ pc'[Main] = "link_tail"
        /\ next' = [next EXCEPT ![new_tasks] = local[Main].reg]
        /\ UNCHANGED <<task_of, nodes, freed, tasks, current, irq, local, added>>
    BY <1>0, <1>8, StoreNextStep, Zenon
  <2>2. pc[Main] \in Filled \cup {"kmalloc"} /\ pc'[Main] \in Filled
    BY <2>1 DEF Filled
  <2>3. NewNode /\ New = Order(added + 1) /\ New \in Task /\ New \notin InRing
    BY <1>2, <2>2, Zenon
  <2>4. new_tasks = New /\ local[Main].reg = Main
    BY <2>1, <2>2, <2>3 DEF NewNode
  <2>5. next' \in [Task -> Task \cup {None}] /\ next'[New] = Main
        /\ \A t \in InRing : next'[t] = next[t]
    <3>1. InRing \subseteq Task
      <4>1. Linked = added /\ added \in 0 .. All - 1
        BY <1>2, <2>2, Zenon
      <4>2. \A i \in 0 .. Linked : i \in 0 .. All
        BY <1>0, <4>1
      <4> QED BY <4>2, OrderIsOneToOne, Zenon DEF InRing
    <3> QED BY <1>0, <2>1, <2>3, <2>4, <3>1, Zenon DEF Shape
  <2>6. Shape' /\ Linking'
    BY <2>1, <2>2, <2>5, FillingStep, Zenon
  <2>7. NewNode'
    BY <2>1, <2>2, <2>3, <2>4, <2>5 DEF NewNode, Order, new_tasks, New
  <2> QED BY <2>1, <2>6, <2>7, Zenon DEF Filling
<1>9. CASE StoreNext(Main, "link", LinkNew, "tail")
  <2>1. /\ pc[Main] = "link" /\ pc'[Main] = "tail"
        /\ next' = LinkNew
        /\ UNCHANGED <<task_of, nodes, freed, tasks, current, irq, local, added>>
    BY <1>0, <1>9, StoreNextStep, Zenon
  <2>2. pc[Main] \in Filled
    BY <2>1 DEF Filled
  <2>3. /\ Linking /\ NewNode /\ Linked = added /\ added \in 0 .. All - 1
        /\ New = Order(added + 1) /\ New \in Task /\ Order(added) \in Task
    BY <1>0, <1>2, <2>2, OrderIsOneToOne
  <2>4. /\ new_tasks = Order(added + 1) /\ local[Main].reg = Order(added)
        /\ next[Order(added + 1)] = Main /\ Order(added + 1) \in nodes
    BY <2>1, <2>2, <2>3, Zenon DEF NewNode
  <2>5. next' = [next EXCEPT ![Order(added)] = New] /\ Linked' = added + 1
    BY <2>1, <2>3, <2>4, Zenon DEF LinkNew, Linked
  <2>6. InRing \subseteq InRing' /\ SCHED_INIT' = SCHED_INIT
    BY <2>1, <2>3, <2>5 DEF InRing, SCHED_INIT, Order
  <2>7. irq' \in [Task -> Seq(Activation')]
    BY <2>1, <2>6, ActivationsStay, Zenon
  <2>8. Shape'
    BY <1>0, <2>1, <2>3, <2>5, <2>6, <2>7, Zenon DEF Shape, Named
  <2>9. \A i \in 0 .. added + 1 : i # added => next'[Order(i)] = next[Order(i)]
    BY <1>0, <2>3, <2>5, OrderIsOneToOne DEF Shape
  <2>10. next'[Order(added)] = Order(added + 1)
    BY <2>3, <2>5, Zenon DEF Shape
  <2>11. Linking'
    <3> HIDE DEF Order
    <3>1. \A i \in 0 .. added : next'[Order(i)] = Order(i + 1)
      BY <1>0, <2>3, <2>9, <2>10 DEF Linking
    <3>2. InRing' \subseteq nodes
      <4>1. InRing' \subseteq InRing \cup {New}
        BY <2>1, <2>3, <2>5 DEF InRing, Order
      <4> QED BY <2>3, <2>4, <4>1, Zenon DEF Linking
    <3>3. added + 1 \in 0 .. added + 1 /\ added + 1 # added /\ (added + 1) - 1 = added
      BY <2>3
    <3>4. next'[Order(added + 1)] = Main
      BY <2>4, <2>9, <3>3, Zenon
    <3> QED BY <2>1, <2>3, <2>5, <2>6, <3>1, <3>2, <3>3, <3>4 DEF Linking
  <2>12. NewNode'
    BY <2>1, <2>4 DEF NewNode, Order, new_tasks, Filled
  <2> QED BY <2>1, <2>8, <2>11, <2>12, Zenon DEF Filling
<1>10. CASE sched_add_tail
  <2>1. /\ pc[Main] = "tail"
        /\ pc'[Main] = IF added + 1 < Len(AddOrder) THEN "kmalloc" ELSE "run"
        /\ tasks' = [tasks EXCEPT !.tail = new_tasks]
        /\ added' = added + 1
        /\ UNCHANGED <<next, task_of, nodes, freed, current, irq>>
    BY <1>0, <1>10, Zenon DEF sched_add_tail, Runs, Goto, cpu, heap
  <2>2. /\ Linking /\ new_tasks = Order(added + 1)
        /\ Linked = added + 1 /\ Linked' = added + 1
        /\ added \in 0 .. All - 1
    BY <1>0, <2>1 DEF Filling, Linking, NewNode, Linked, Shape
  <2>3. tasks'.tail = Order(added + 1) /\ tasks'.head = tasks.head
        /\ tasks'.sched_head = tasks.sched_head
    BY <2>1, <2>2 DEF LocalOK, Pointers
  <2>4. InRing' = InRing /\ SCHED_INIT' = SCHED_INIT
    BY <2>2, <2>3, Zenon DEF InRing, SCHED_INIT, Order
  <2>5. irq' \in [Task -> Seq(Activation')]
    BY <2>1, <2>4, ActivationsStay, Zenon
  <2>6. Shape'
    <3>1. added' \in 0 .. All
      BY <1>0, <2>1, <2>2
    <3> QED BY <2>1, <2>4, <2>5, <3>1, Zenon DEF Shape, Named
  <2>7. Linking'
    <3> HIDE DEF Order
    <3>1. pc'[Main] # "run" => added' < All
      BY <2>1, OrderFacts
    <3>2. /\ \A i \in 0 .. Linked' - 1 : next'[Order(i)] = Order(i + 1)
          /\ next'[Order(Linked')] = Main
      BY <2>1, <2>2, Zenon DEF Linking
    <3>3. tasks'.head = Main /\ tasks'.tail = Order(added') /\ tasks'.sched_head \in InRing'
          /\ InRing' \subseteq nodes'
      <4>1. added' = added + 1 /\ nodes' = nodes
        BY <2>1, Zenon
      <4>2. tasks'.tail = Order(added')
        BY <2>3, <4>1, Zenon
      <4> QED BY <2>2, <2>3, <2>4, <4>1, <4>2, Zenon DEF Linking
    <3> QED BY <3>1, <3>2, <3>3, Zenon DEF Linking
  <2>8. NewNode' /\ pc'[Main] # "init_sched"
    BY <2>1 DEF NewNode, Filled
  <2> QED BY <2>6, <2>7, <2>8, Zenon DEF Filling
<1>11. CASE sched_add_fill
  BY <1>5, <1>6, <1>7, <1>8, <1>11, Zenon DEF sched_add_fill
<1>12. CASE sched_add_link
  BY <1>5, <1>9, <1>12, Zenon DEF sched_add_link
<1> QED BY <1>1, <1>3, <1>10, <1>11, <1>12, Zenon DEF kernel_main, sched_add

\* Until the child leaves, the tasks in the ring follow each other.
LEMMA RingFollows ==
    ASSUME Shape, Filling, pc[Main] # "init_sched"
    PROVE  /\ InRing \subseteq Task /\ Main \in InRing /\ tasks.head = Main
           /\ InRing \subseteq nodes /\ tasks.sched_head \in InRing
           /\ \A t \in InRing : next[t] \in InRing /\ task_of[t] = t
<1>1. All \in Nat /\ added \in 0 .. All /\ Linked \in 0 .. All
  <2>1. added \in 0 .. All /\ (pc[Main] # "run" => added < All)
    BY Zenon DEF Shape, Filling, Linking
  <2> QED BY <2>1, OrderFacts DEF Linked
<1>2. \A i \in 0 .. Linked : Order(i) \in InRing /\ Order(i) \in Task
  BY <1>1, OrderIsOneToOne DEF InRing
<1>3. Main \in InRing
  <2>1. 0 \in 0 .. Linked
    BY <1>1
  <2> QED BY <1>2, <2>1, OrderIsOneToOne, Zenon
<1>4. ASSUME NEW t \in InRing PROVE next[t] \in InRing /\ t \in Task
  <2>1. PICK i \in 0 .. Linked : t = Order(i)
    BY Zenon DEF InRing
  <2>2. CASE i = Linked
    BY <1>2, <1>3, <2>1, <2>2, Zenon DEF Filling, Linking
  <2>3. CASE i # Linked
    <3>1. i \in 0 .. Linked - 1 /\ i + 1 \in 0 .. Linked
      BY <1>1, <2>3
    <3> QED BY <1>2, <2>1, <3>1, Zenon DEF Filling, Linking
  <2> QED BY <2>2, <2>3, Zenon
<1> QED BY <1>3, <1>4, Zenon DEF Filling, Linking, Shape, Named

\* A handler's steps.  What it does to the stack of its activations is all
\* that matters: the frame on top is replaced by a good one, or goes.
LEMMA HandlerStep ==
    ASSUME LocalOK, Shape, Filling, sched_context_switch \/ timer_irq \/ keyboard_irq,
           pc'[Main] = pc[Main]
    PROVE  Shape' /\ Filling'
<1> DEFINE s == irq[current]
<1>1. InRing \subseteq Task
  BY SchedAssumption, OrderFacts, OrderIsOneToOne DEF InRing, Linked, Filling, Linking, Shape
<1>0. s \in Seq(Activation) /\ current \in Task
  BY <1>1, Zenon DEF Shape
<1>2. UNCHANGED <<next, task_of, nodes, freed, local, added>>
  BY IrqMoves, HandlerMoves, Zenon
<1>3. ASSUME tasks' = tasks
      PROVE  Activation' = Activation /\ InRing' = InRing /\ Filling'
  BY <1>2, <1>3, Zenon DEF Filling, Linking, NewNode, new_tasks, Linked, InRing, Order, Activation,
                           SCHED_INIT
<1>4. ASSUME tasks' = tasks, current' \in InRing, NEW r \in Seq(Activation),
             irq' = [irq EXCEPT ![current] = r]
      PROVE  Shape' /\ Filling'
  BY <1>2, <1>3, <1>4, Zenon DEF Shape, Named
<1>5. ASSUME s # <<>>
      PROVE  Under(s) \in Seq(Activation) /\ Top \in Activation
  BY <1>0, <1>5, TopFacts, Zenon DEF Top
<1>6. ASSUME s # <<>>, NEW f \in Activation
      PROVE  Append(Under(s), f) \in Seq(Activation)
  BY <1>5, <1>6
<1>7. current \in InRing
  BY Zenon DEF Shape
<1>8. CASE keyboard_irq
  <2>1. UNCHANGED <<tasks, current, irq>>
    BY <1>8, Zenon DEF keyboard_irq, ring, cpu
  <2> QED BY <1>2, <1>3, <2>1, Zenon DEF Shape, Named
<1>9. CASE timer_irq
  <2> DEFINE f == [at |-> "read", task |-> None, nxt |-> None]
  <2>1. UNCHANGED <<tasks, current>> /\ irq' = [irq EXCEPT ![current] = Append(s, f)]
    BY <1>9, Zenon DEF timer_irq, ring
  <2>2. f \in Activation
    BY Zenon DEF Activation
  <2>3. Append(s, f) \in Seq(Activation)
    BY <1>0, <2>2
  <2> HIDE DEF f, s
  <2> QED BY <1>4, <1>7, <2>1, <2>3, Zenon
<1>10. CASE handler_skip
  <2>1. UNCHANGED <<tasks, current>> /\ s # <<>> /\ irq' = [irq EXCEPT ![current] = Under(s)]
    BY <1>10, Zenon DEF handler_skip, HandlerAt, PopTop, ring
  <2> HIDE DEF s
  <2> QED BY <1>4, <1>5, <1>7, <2>1, Zenon
<1>11. CASE do_task_switch
  <2>1. /\ tasks' = tasks /\ current' = Top.task /\ Top.at = "switch"
        /\ s # <<>> /\ irq' = [irq EXCEPT ![current] = Under(s)]
    BY <1>11, Zenon DEF do_task_switch, HandlerAt, PopTop, ring
  <2>2. Top.task \in InRing
    BY <1>5, <2>1, Zenon DEF Activation
  <2> HIDE DEF s
  <2> QED BY <1>4, <1>5, <2>1, <2>2, Zenon
<1>12. ASSUME NEW at, NEW f, HandlerLoad(at, f), s # <<>> /\ Top.at = at => f \in Activation
       PROVE  Shape' /\ Filling'
  <2>1. /\ UNCHANGED <<tasks, current>> /\ Top.at = at
        /\ s # <<>> /\ irq' = [irq EXCEPT ![current] = Append(Under(s), f)]
    BY <1>12, Zenon DEF HandlerLoad, HandlerAt, SetTop, ring
  <2>2. Append(Under(s), f) \in Seq(Activation)
    BY <1>6, <1>12, <2>1, Zenon
  <2> HIDE DEF s
  <2> QED BY <1>4, <1>7, <2>1, <2>2, Zenon
<1>13. ASSUME s # <<>>, Top.at # "read"
       PROVE  SCHED_INIT
  BY <1>5, <1>13, Zenon DEF Activation
<1>14. ASSUME SCHED_INIT
       PROVE  tasks.sched_head \in InRing /\ \A t \in InRing : next[t] \in InRing /\ task_of[t] = t
  BY <1>14, RingFollows, Zenon DEF Filling, SCHED_INIT
<1>15. CASE context_switch_task
  <2>1. CASE SCHED_INIT
               /\ HandlerLoad("read", [at |-> "task", task |-> None, nxt |-> tasks.sched_head])
    <3>1. [at |-> "task", task |-> None, nxt |-> tasks.sched_head] \in Activation
      BY <1>14, <2>1, Zenon DEF Activation
    <3> HIDE DEF s
    <3> QED BY <1>12, <2>1, <3>1, Zenon
  <2>2. CASE HandlerLoad("task", [at |-> "load", task |-> task_of[Top.nxt], nxt |-> None])
    <3>1. ASSUME s # <<>>, Top.at = "task"
          PROVE  [at |-> "load", task |-> task_of[Top.nxt], nxt |-> None] \in Activation
      <4>1. SCHED_INIT /\ Top.nxt \in InRing
        BY <1>5, <3>1, Zenon DEF Activation
      <4>2. task_of[Top.nxt] \in InRing
        BY <1>14, <4>1, Zenon
      <4> QED BY <4>1, <4>2, Zenon DEF Activation
    <3> HIDE DEF s
    <3> QED BY <1>12, <2>2, <3>1, Zenon
  <2> QED BY <1>15, <2>1, <2>2, Zenon DEF context_switch_task
<1>16. CASE context_switch_next
  <2>1. CASE HandlerLoad("load", [at |-> "next", task |-> Top.task, nxt |-> tasks.sched_head])
    <3>1. ASSUME s # <<>>, Top.at = "load"
          PROVE  [at |-> "next", task |-> Top.task, nxt |-> tasks.sched_head] \in Activation
      <4>1. SCHED_INIT /\ Top.task \in InRing
        BY <1>5, <3>1, Zenon DEF Activation
      <4>2. tasks.sched_head \in InRing
        BY <1>14, <4>1, Zenon
      <4> QED BY <4>1, <4>2, Zenon DEF Activation
    <3> HIDE DEF s
    <3> QED BY <1>12, <2>1, <3>1, Zenon
  <2>2. CASE HandlerLoad("next", [at |-> "store", task |-> Top.task, nxt |-> next[Top.nxt]])
    <3>1. ASSUME s # <<>>, Top.at = "next"
          PROVE  [at |-> "store", task |-> Top.task, nxt |-> next[Top.nxt]] \in Activation
      <4>1. SCHED_INIT /\ Top.task \in InRing /\ Top.nxt \in InRing
        BY <1>5, <3>1, Zenon DEF Activation
      <4>2. next[Top.nxt] \in InRing
        BY <1>14, <4>1, Zenon
      <4> QED BY <4>1, <4>2, Zenon DEF Activation
    <3> HIDE DEF s
    <3> QED BY <1>12, <2>2, <3>1, Zenon
  <2> QED BY <1>16, <2>1, <2>2, Zenon DEF context_switch_next
<1>17. CASE context_switch_store
  <2> DEFINE f == [Top EXCEPT !.at = "switch"]
  <2>1. /\ current' = current /\ Top.at = "store"
        /\ tasks' = [tasks EXCEPT !.sched_head = Top.nxt]
        /\ s # <<>> /\ irq' = [irq EXCEPT ![current] = Append(Under(s), f)]
    BY <1>17, Zenon DEF context_switch_store, Advanced, HandlerAt, SetTop
  <2>2. SCHED_INIT /\ Top \in [at : {"next", "store", "switch"}, task : InRing, nxt : InRing]
    BY <1>5, <2>1, Zenon DEF Activation
  <2>3. Top.nxt \in InRing /\ Top.nxt \in Task
        /\ f \in [at : {"switch"}, task : InRing, nxt : InRing]
    BY <1>1, <2>2, Zenon
  <2>4. /\ tasks'.sched_head = Top.nxt
        /\ tasks'.head = tasks.head /\ tasks'.tail = tasks.tail
    BY <2>1 DEF LocalOK, Pointers
  <2>5. SCHED_INIT' /\ InRing' = InRing /\ Linked' = Linked
    BY <1>2, <2>3, <2>4 DEF SCHED_INIT, Task, None, InRing, Linked, Order
  <2>6. Activation' = Activation /\ f \in Activation
    BY <2>2, <2>3, <2>5, Zenon DEF Activation
  <2>7. Append(Under(s), f) \in Seq(Activation)
    BY <1>6, <2>1, <2>6, Zenon
  <2> HIDE DEF s, f
  <2>8. pc[Main] # "init_sched"
    BY <2>2, Zenon DEF Filling, SCHED_INIT
  <2>9. Linking' /\ NewNode'
    BY <1>2, <2>3, <2>4, <2>5, <2>8, Zenon DEF Filling, Linking, NewNode, new_tasks, Order
  <2>10. irq' \in [Task -> Seq(Activation')]
    BY <2>1, <2>6, <2>7, Zenon DEF Shape
  <2> QED BY <1>2, <2>1, <2>5, <2>8, <2>9, <2>10, Zenon DEF Shape, Named, Filling
<1> QED BY <1>8, <1>9, <1>10, <1>11, <1>15, <1>16, <1>17, Zenon DEF sched_context_switch

LEMMA NextRingInv == RingInv /\ [Next]_vars => RingInv'
<1> SUFFICES ASSUME RingInv, [Next]_vars PROVE RingInv'
  BY Zenon
<1>1. PcOK /\ LocalOK /\ PcOK' /\ LocalOK' /\ (Whole' => Whole)
  BY PcStep, Zenon DEF RingInv, Whole
<1> SUFFICES ASSUME Whole' PROVE Shape' /\ Filling'
  BY <1>1, Zenon DEF RingInv
<1>2. Whole /\ Shape /\ Filling
  BY <1>1, Zenon DEF RingInv
<1>3. CASE kernel_main
  BY <1>1, <1>2, <1>3, KernelMainStep, Zenon
<1>4. ASSUME UNCHANGED <<next, task_of, nodes, freed, tasks, current, irq, added>>,
             pc'[Main] = pc[Main], local'[Main] = local[Main]
      PROVE  Shape' /\ Filling'
  <2>1. InRing' = InRing /\ SCHED_INIT' = SCHED_INIT /\ Linked' = Linked
    BY <1>4, Zenon DEF InRing, Linked, Order, SCHED_INIT
  <2>2. Activation' = Activation
    BY <2>1, Zenon DEF Activation
  <2>3. Shape'
    BY <1>2, <1>4, <2>1, <2>2, Zenon DEF Shape, Named
  <2>4. (Linking => Linking') /\ (NewNode => NewNode')
    BY <1>4, <2>1, Zenon DEF Linking, NewNode, new_tasks, Order
  <2> QED BY <1>2, <1>4, <2>3, <2>4, Zenon DEF Filling
<1>5. ASSUME NEW t \in Task, task_step(t) PROVE Shape' /\ Filling'
  <2>1. /\ UNCHANGED <<next, task_of, nodes, freed, tasks, current, irq, added>>
        /\ pc'[Main] = pc[Main] /\ local'[Main] = local[Main]
    BY <1>1, <1>2, <1>5, NoTaskStep, Zenon DEF ring, heap
  <2> QED BY <1>4, <2>1, Zenon
<1>6. CASE timer_irq \/ keyboard_irq \/ sched_context_switch
  <2>1. pc'[Main] = pc[Main]
    <3>1. pc[Main] # "halt" /\ DOMAIN pc = Task /\ Main \in Task
      BY <1>1, TaskFacts, Zenon DEF PcOK, Adding, Filled
    <3>2. pc' = pc \/ (pc[current] = "halt" /\ pc' = [pc EXCEPT ![current] = "ud2"])
      BY <1>6, IrqMoves, HandlerMoves, Zenon
    <3> QED BY <3>1, <3>2, Zenon
  <2> QED BY <1>1, <1>2, <1>6, <2>1, HandlerStep, Zenon
<1>7. CASE Stopped \/ UNCHANGED vars
  BY <1>4, <1>7, Stutters, Zenon
<1> QED BY <1>3, <1>5, <1>6, <1>7, Zenon DEF Next

\* Wherever ticks fall while sched_add runs, and however many timer handlers
\* are active at once, the ring that sched_context_switch walks is closed, in
\* the order in which kernel_main added the tasks (RingClosed), for every
\* number of test tasks.
THEOREM RingAlwaysClosed == Spec => []RingClosed
<1>1. Spec => []RingInv
  BY InitRingInv, NextRingInv, PTL DEF Spec
<1>2. RingInv => RingClosed
  <2> SUFFICES ASSUME RingInv, SCHED_INIT, NobodyLeft PROVE RingClosed
    BY Zenon DEF RingClosed
  <2>1. Shape /\ Filling /\ pc[Main] # "init_sched"
    BY Zenon DEF RingInv, Filling, SCHED_INIT, NobodyLeft, Whole
  <2>2. \A i \in 0 .. Linked : task_of[Order(i)] = Order(i)
    BY <2>1, RingFollows, Zenon DEF InRing
  <2> QED BY <2>1, <2>2, Zenon DEF Filling, Linking, RingClosed, InRing
<1> QED BY <1>1, <1>2, PTL
-----------------------------------------------------------------------------
(* exit and the heap.                                                      *)

LEMMA NextSyscallInv == RingInv /\ SyscallInv /\ [Next]_vars => SyscallInv'
<1> SUFFICES ASSUME RingInv, SyscallInv, [Next]_vars PROVE SyscallInv'
  BY Zenon
<1>0. PcOK /\ LocalOK /\ DOMAIN pc = Task
  BY Zenon DEF RingInv, PcOK
<1>1. CASE kernel_main
  <2>1. UNCHANGED <<current, irq>> /\ \A t \in Task \ {Main} : pc'[t] = pc[t]
    BY <1>0, <1>1, MainMoves, Zenon
  <2> QED BY <2>1, TaskFacts, Zenon DEF SyscallInv, InSyscall
<1>2. ASSUME NEW t \in Task, task_step(t) PROVE SyscallInv'
  <2>1. /\ current = t /\ irq[t] = <<>> /\ UNCHANGED <<current, irq>>
        /\ \A u \in Task \ {t} : pc'[u] = pc[u]
    BY <1>0, <1>2, TaskMoves, Zenon
  <2> QED BY <2>1, TaskFacts, Zenon DEF SyscallInv, InSyscall
<1>3. CASE timer_irq \/ keyboard_irq
  <2>1. /\ ~ InSyscall(current) /\ UNCHANGED current
        /\ irq' = irq \/ \E s : irq' = [irq EXCEPT ![current] = s]
        /\ pc' = pc \/ (pc[current] = "halt" /\ pc' = [pc EXCEPT ![current] = "ud2"])
    BY <1>3, IrqMoves, Zenon
  <2>2. \A t \in Task : pc'[t] = pc[t] \/ (t = current /\ pc[t] = "halt")
    BY <1>0, <2>1, Zenon
  <2>3. \A t \in {InitTask, Child} : ~ InSyscall(t)'
    <3> SUFFICES ASSUME NEW t \in {InitTask, Child}, InSyscall(t)' PROVE FALSE
      BY Zenon
    <3>1. InSyscall(t)
      BY <2>2, TaskFacts, Zenon DEF InSyscall
    <3> QED BY <2>1, <3>1, Zenon DEF SyscallInv
  <2>4. irq' = [t \in Task |-> irq'[t]]
    BY <2>1, Zenon DEF SyscallInv
  <2> QED BY <2>3, <2>4, Zenon DEF SyscallInv
<1>4. CASE sched_context_switch
  <2>1. pc' = pc /\ irq[current] # <<>> /\ \E s : irq' = [irq EXCEPT ![current] = s]
    BY <1>4, HandlerMoves, Zenon
  <2>2. irq' = [t \in Task |-> irq'[t]]
    BY <2>1, Zenon DEF SyscallInv
  <2> QED BY <2>1, <2>2, Zenon DEF SyscallInv, InSyscall
<1>5. CASE Stopped \/ UNCHANGED vars
  BY <1>5, Stutters, Zenon DEF SyscallInv, InSyscall
<1> QED BY <1>1, <1>2, <1>3, <1>4, <1>5, Zenon DEF Next

\* While no kernel task returns, only the child takes a node out of the ring.
LEMMA ChildOnly ==
    ASSUME PcOK, NoReturn
    PROVE  /\ pc[Child] = "run" => Whole
           /\ \A t \in Task \ {Main, InitTask, Child} : pc[t] = "run"
BY SchedAssumption, Zenon DEF PcOK, NoReturn, Whole, InitTask, Child

LEMMA NextNoReturn == RingInv /\ [Next]_vars /\ NoReturn' => NoReturn
<1>1. Returning \subseteq Task \ {Main}
  BY SchedAssumption DEF Task, Main
<1> QED BY <1>1, PcStep, Zenon DEF RingInv, NoReturn

\* Once the last task is linked, only the store into tasks_tail is left.
LEMMA TailStep ==
    ASSUME kernel_main, pc[Main] \in {"tail", "run"}
    PROVE  pc[Main] = "tail" /\ sched_add_tail
<1>1. ~ init_sched /\ ~ sched_add_kmalloc
  BY Zenon DEF init_sched, sched_add_kmalloc, Runs
<1>2. ~ sched_add_fill
  BY Zenon DEF sched_add_fill, Load, StoreNext, Runs
<1>3. ~ sched_add_link
  BY Zenon DEF sched_add_link, Load, StoreNext, Runs
<1>4. sched_add_tail
  BY <1>1, <1>2, <1>3, Zenon DEF kernel_main, sched_add
<1> QED BY <1>4, Zenon DEF sched_add_tail, Runs

LEMMA NextChildInv == RingInv /\ SyscallInv /\ ChildInv /\ [Next]_vars => ChildInv'
<1> DEFINE P == /\ pc[Main] \in {"tail", "run"} /\ Linked = All
                /\ pc[Main] = "tail" => new_tasks = Child
                /\ Named
<1> SUFFICES ASSUME RingInv, SyscallInv, ChildInv, [Next]_vars, NoReturn', pc'[Child] # "run"
             PROVE  P'
  BY Zenon DEF ChildInv
<1>0. NoReturn /\ PcOK /\ LocalOK /\ DOMAIN pc = Task /\ All \in Nat
  BY NextNoReturn, OrderFacts, Zenon DEF RingInv, PcOK
<1>1. ASSUME P, pc'[Main] = pc[Main], local'[Main] = local[Main], UNCHANGED <<added, task_of>>
      PROVE  P'
  BY <1>1, Zenon DEF Linked, new_tasks, Named
<1>2. CASE pc[Child] = "run"
  <2>1. ASSUME NEW t \in Task, task_step(t) PROVE P'
    <3>1. /\ current = t /\ UNCHANGED <<added, task_of>>
          /\ \A u \in Task \ {t} : pc'[u] = pc[u] /\ local'[u] = local[u]
      BY <1>0, <2>1, TaskMoves, Zenon
    <3>2. t = Child /\ pc'[Main] = pc[Main] /\ local'[Main] = local[Main]
      BY <1>2, <3>1, TaskFacts, Zenon
    <3>3. Shape /\ Filling /\ Child \in InRing
      BY <1>0, <1>2, <3>1, <3>2, ChildOnly, Zenon DEF RingInv, Shape
    <3>4. Linked = All
      <4>1. added \in 0 .. All /\ Linked \in 0 .. All
        BY <1>0, <3>3 DEF Shape, Filling, Linking, Linked
      <4>2. PICK i \in 0 .. Linked : Order(i) = Child
        BY <3>3, Zenon DEF InRing
      <4>3. i = All
        BY <1>0, <4>1, <4>2, UserOrder, OrderIsOneToOne
      <4> QED BY <1>0, <4>1, <4>3
    <3>5. pc[Main] # "init_sched"
      BY <1>0, <3>3, <3>4, OrderFacts DEF Filling, Linked
    <3>6. Linking /\ NewNode
      BY <3>3, <3>5, Zenon DEF Filling
    <3>7. pc[Main] \in {"tail", "run"}
      <4>1. pc[Main] \notin {"tail", "run"} => added = All /\ added < All
        BY <3>4, <3>6, Zenon DEF Linking, Linked
      <4> QED BY <1>0, <4>1
    <3>8. pc[Main] = "tail" => new_tasks = Child
      <4>1. pc[Main] = "tail" => added + 1 = All /\ new_tasks = Order(added + 1)
        BY <3>4, <3>6, Zenon DEF Linked, NewNode
      <4> QED BY <4>1, UserOrder, Zenon
    <3> QED BY <1>1, <3>1, <3>2, <3>3, <3>4, <3>7, <3>8, Zenon DEF Shape
  <2>2. CASE kernel_main
    BY <1>0, <1>2, <2>2, MainMoves, TaskFacts, Zenon
  <2>3. CASE timer_irq \/ keyboard_irq
    BY <1>0, <1>2, <2>3, IrqMoves, TaskFacts, Zenon
  <2>4. CASE sched_context_switch \/ Stopped \/ UNCHANGED vars
    BY <1>2, <2>4, HandlerMoves, Stutters, Zenon
  <2> QED BY <2>1, <2>2, <2>3, <2>4, Zenon DEF Next
<1>3. CASE pc[Child] # "run"
  <2>1. P
    BY <1>0, <1>3, Zenon DEF ChildInv
  <2>2. CASE kernel_main
    <3>1. pc[Main] = "tail" /\ sched_add_tail
      BY <2>1, <2>2, TailStep, Zenon
    <3>2. /\ added' = added + 1 /\ task_of' = task_of
          /\ pc'[Main] = IF added + 1 < Len(AddOrder) THEN "kmalloc" ELSE "run"
      BY <1>0, <3>1, TaskFacts, Zenon DEF sched_add_tail, Goto
    <3>3. added + 1 = All /\ Named
      BY <2>1, <3>1, Zenon DEF Linked
    <3>4. pc'[Main] = "run"
      BY <1>0, <3>2, <3>3, OrderFacts
    <3>5. Linked' = All
      BY <3>2, <3>3, <3>4, Zenon DEF Linked
    <3> QED BY <3>2, <3>3, <3>4, <3>5, Zenon DEF Named
  <2>3. ASSUME NEW t \in Task, task_step(t) PROVE P'
    BY <1>0, <1>1, <2>1, <2>3, TaskMoves, TaskFacts, Zenon
  <2>4. CASE timer_irq \/ keyboard_irq
    <3>1. pc'[Main] = pc[Main]
      BY <1>0, <2>1, <2>4, IrqMoves, TaskFacts, Zenon
    <3> QED BY <1>1, <2>1, <2>4, <3>1, IrqMoves, Zenon
  <2>5. CASE sched_context_switch \/ Stopped \/ UNCHANGED vars
    BY <1>1, <2>1, <2>5, HandlerMoves, Stutters, Zenon
  <2> QED BY <2>2, <2>3, <2>4, <2>5, Zenon DEF Next
<1> QED BY <1>2, <1>3, Zenon

\* The whole ring; the ring without the child; the ring of task 0 alone.
Full  == \A i \in 0 .. All - 1 : next[Order(i)] = Order(i + 1)
Cut   == (\A i \in 0 .. All - 2 : next[Order(i)] = Order(i + 1)) /\ next[InitTask] = Main
Alone == next[Main] = Main

\* The child on its way through sched_remove, and afterwards: it finds itself,
\* as the tail or behind the tail, and its variables hold what they should.
Stage ==
    LET at == pc[Child]
        v  == local[Child]
    IN  /\ at \in (Removing \ {"again"}) \cup {"exited"}
        /\ at \in {"remove", "is_tail", "search", "search_tail", "search_next", "compare",
                   "unlink_load", "unlink"} => Full
        /\ at \in {"remove", "is_tail"} => tasks.tail \in {InitTask, Child}
        /\ at = "is_tail" => v.task = tasks.tail
        /\ at \in {"drop_load", "drop_next", "drop_tail"} => tasks.tail = Child
        /\ at \in {"drop_load", "drop_next", "drop_tail", "head_load", "tail_load", "relink",
                   "compare", "unlink_load", "unlink", "is_head", "kfree"} => v.task = Child
        /\ at = "drop_next" => v.reg = Child
        /\ at \in {"drop_tail", "tail_load", "relink", "unlink"} => v.reg = Main
        /\ at \in {"head_load", "tail_load"} => tasks.tail = Main
        /\ at = "relink" => v.val = Main
        /\ at \in {"search", "search_tail", "search_next"} => tasks.tail = InitTask
        /\ at = "search" => v.task = InitTask
        /\ at \in {"search_tail", "search_next", "compare", "unlink_load", "unlink"} =>
                v.prev = InitTask
        /\ at = "search_next" => v.reg = InitTask
        /\ at = "is_head" => Cut
        /\ at \in {"kfree", "exited"} => Cut \/ Alone

Departing ==
    /\ next \in [Task -> Task \cup {None}]
    /\ tasks.head = Main /\ tasks.tail \in Task
    /\ next[Child] = Main
    /\ Task \ {Child} \subseteq nodes
    /\ Stage

LeaveInv == NoReturn /\ pc[Child] # "run" => Departing

LEMMA OrderOnto == \A t \in Task : \E i \in 0 .. All : t = Order(i)
<1> SUFFICES ASSUME NEW t \in Task PROVE \E i \in 0 .. All : t = Order(i)
  BY Zenon
<1>1. TestTasks \in Nat /\ All = TestTasks + 2
  BY SchedAssumption, Zenon DEF All
<1>2. CASE t \in 3 .. 2 + TestTasks
  <2>1. t - 2 \in 1 .. TestTasks /\ t - 2 \in 0 .. All
    BY <1>1, <1>2
  <2>2. Order(t - 2) = 2 + (t - 2)
    BY <1>1, <2>1, OrderFacts DEF Order
  <2> QED BY <1>1, <1>2, <2>1, <2>2
<1>3. CASE t \in {Main, InitTask, Child}
  <2>1. Order(0) = Main /\ Order(TestTasks + 1) = InitTask /\ Order(TestTasks + 2) = Child
    BY <1>1, OrderFacts DEF Order
  <2>2. 0 \in 0 .. All /\ TestTasks + 1 \in 0 .. All /\ TestTasks + 2 \in 0 .. All
    BY <1>1
  <2> QED BY <1>3, <2>1, <2>2, Zenon
<1> QED BY <1>1, <1>2, <1>3 DEF Task, Main, InitTask, Child

LEMMA FullFacts == Full => next[InitTask] = Child
<1>1. All - 1 \in 0 .. All - 1 /\ (All - 1) + 1 = All
  BY OrderFacts
<1> QED BY <1>1, UserOrder, Zenon DEF Full

LEMMA SameRing ==
    ASSUME next' = next
    PROVE  Full' = Full /\ Cut' = Cut /\ Alone' = Alone
BY Zenon DEF Full, Cut, Alone, All, Order

\* The child starts to leave a whole ring.
LEMMA ExitDeparts ==
    ASSUME RingInv, NoReturn, exit(Child), ChildInv', NoReturn'
    PROVE  Departing' /\ UNCHANGED <<next, tasks>>
<1>0. PcOK /\ LocalOK /\ All \in Nat /\ All >= 2
  BY OrderFacts, Zenon DEF RingInv
<1>1. /\ pc[Child] = "run" /\ pc' = [pc EXCEPT ![Child] = "remove"]
      /\ UNCHANGED <<next, nodes, tasks, local, added>>
  BY TaskFacts, SchedAssumption, Zenon DEF exit, Runs, Goto, ring, heap, parent, InitTask, None
<1>2. pc'[Child] = "remove" /\ pc'[Main] = pc[Main]
  BY <1>0, <1>1, TaskFacts, Zenon DEF PcOK
<1>3. pc[Main] \in {"tail", "run"} /\ Linked = All
  BY <1>1, <1>2, Zenon DEF ChildInv, Linked
<1>4. Shape /\ Linking
  BY <1>0, <1>1, <1>3, ChildOnly, Zenon DEF RingInv, Filling
<1>5. Full /\ next[Child] = Main /\ tasks.head = Main /\ InRing \subseteq nodes
      /\ tasks.tail = Order(added)
  BY <1>3, <1>4, UserOrder, Zenon DEF Linking, Full
<1>6. InRing = Task
  <2>1. \A i \in 0 .. All : Order(i) \in Task
    BY OrderIsOneToOne, Zenon
  <2> QED BY <1>3, <2>1, OrderOnto, Zenon DEF InRing
<1>7. added \in {All - 1, All}
  BY <1>0, <1>3, <1>4 DEF Linked, Shape
<1>8. tasks.tail \in {InitTask, Child} /\ tasks.tail \in Task
  BY <1>5, <1>7, UserOrder, TaskFacts, Zenon
<1>9. Full'
  BY <1>1, <1>5, SameRing, Zenon
<1>10. Stage'
  BY <1>1, <1>2, <1>8, <1>9 DEF Stage, Removing
<1> QED BY <1>1, <1>4, <1>5, <1>6, <1>8, <1>10, Zenon DEF Departing, Shape

\* The child in sched_remove takes its own node out.
LEMMA ChildRemoves ==
    ASSUME PcOK, LocalOK, Departing, Named, sched_remove(Child)
    PROVE  Departing' /\ tasks'.sched_head = tasks.sched_head
<1>0. /\ Child \in Task /\ InitTask \in Task /\ Main \in Task
      /\ Main # Child /\ Main # InitTask /\ InitTask # Child
  BY TaskFacts, Zenon
<1>1. /\ next[Child] = Main /\ next \in [Task -> Task \cup {None}]
      /\ tasks.head = Main /\ tasks.tail \in Task
      /\ Task \ {Child} \subseteq nodes /\ Stage
  BY Zenon DEF Departing
<1>2. ASSUME NEW at, NEW x, NEW to, Load(Child, at, x, to)
      PROVE  /\ pc[Child] = at /\ pc'[Child] = to /\ local'[Child] = x
             /\ UNCHANGED <<next, nodes, tasks>>
             /\ Stage' => Departing' /\ tasks'.sched_head = tasks.sched_head
             /\ Full' = Full /\ Cut' = Cut /\ Alone' = Alone
  <2>1. /\ pc[Child] = at /\ pc'[Child] = to /\ local'[Child] = x
        /\ UNCHANGED <<next, nodes, tasks>>
    BY <1>0, <1>2, LoadStep, Zenon
  <2>2. Full' = Full /\ Cut' = Cut /\ Alone' = Alone
    BY <2>1, SameRing, Zenon
  <2> QED BY <1>1, <2>1, <2>2, Zenon DEF Departing
<1>3. CASE remove_check(Child)
  <2>1. Load(Child, "remove", WithTask(Child, tasks.tail), "is_tail")
    BY <1>0, <1>3, Zenon DEF remove_check
  <2>2. WithTask(Child, tasks.tail).task = tasks.tail
    BY <1>0, Fields, Zenon
  <2>3. Stage'
    BY <1>1, <1>2, <2>1, <2>2 DEF Stage, Removing
  <2> QED BY <1>2, <2>1, <2>3, Zenon
<1>4. CASE remove_tail(Child)
  <2>1. CASE Load(Child, "is_tail", WithPrev(Child, None),
                  IF TailFound(Child) THEN "drop_load" ELSE "search")
    <3>1. pc[Child] = "is_tail"
      BY <1>2, <2>1, Zenon
    <3>2. local[Child].task = tasks.tail /\ tasks.tail \in {InitTask, Child} /\ Full
      BY <1>1, <3>1 DEF Stage
    <3>3. TailFound(Child) <=> tasks.tail = Child
      BY <1>0, <3>2, Zenon DEF TailFound, Found, Named
    <3>4. WithPrev(Child, None).task = tasks.tail
      BY <1>0, <3>2, Fields, Zenon
    <3>5. PICK to : /\ Load(Child, "is_tail", WithPrev(Child, None), to)
                    /\ tasks.tail = Child => to = "drop_load"
                    /\ tasks.tail # Child => to = "search"
      BY <2>1, <3>3, Zenon
    <3>6. Stage'
      BY <1>2, <3>2, <3>4, <3>5 DEF Stage, Removing
    <3> QED BY <1>2, <3>5, <3>6, Zenon
  <2>2. CASE Load(Child, "drop_load", WithReg(Child, tasks.tail), "drop_next")
    <3>1. WithReg(Child, tasks.tail).reg = tasks.tail
          /\ WithReg(Child, tasks.tail).task = local[Child].task
      BY <1>0, Fields, Zenon
    <3>2. Stage'
      BY <1>1, <1>2, <2>2, <3>1 DEF Stage, Removing
    <3> QED BY <1>2, <2>2, <3>2, Zenon
  <2>3. CASE Load(Child, "drop_next", WithReg(Child, next[local[Child].reg]), "drop_tail")
    <3>1. WithReg(Child, next[local[Child].reg]).reg = next[local[Child].reg]
          /\ WithReg(Child, next[local[Child].reg]).task = local[Child].task
      BY <1>0, Fields, Zenon
    <3>2. Stage'
      BY <1>1, <1>2, <2>3, <3>1 DEF Stage, Removing
    <3> QED BY <1>2, <2>3, <3>2, Zenon
  <2>4. CASE StorePointer(Child, "drop_tail", [tasks EXCEPT !.tail = local[Child].reg], "head_load")
    <3>1. /\ pc[Child] = "drop_tail" /\ pc'[Child] = "head_load"
          /\ tasks' = [tasks EXCEPT !.tail = local[Child].reg]
          /\ UNCHANGED <<next, nodes, local>>
      BY <1>0, <2>4, StorePointerStep, Zenon
    <3>2. local[Child].reg = Main /\ local[Child].task = Child
      BY <1>1, <3>1 DEF Stage
    <3>3. tasks'.tail = Main /\ tasks'.head = tasks.head /\ tasks'.sched_head = tasks.sched_head
      BY <3>1, <3>2 DEF LocalOK, Pointers
    <3>4. Stage'
      BY <3>1, <3>2, <3>3 DEF Stage, Removing
    <3> QED BY <1>0, <1>1, <3>1, <3>3, <3>4, Zenon DEF Departing
  <2>5. CASE Load(Child, "head_load", WithReg(Child, tasks.head), "tail_load")
    <3>1. WithReg(Child, tasks.head).reg = tasks.head
          /\ WithReg(Child, tasks.head).task = local[Child].task
      BY <1>0, Fields, Zenon
    <3>2. Stage'
      BY <1>1, <1>2, <2>5, <3>1 DEF Stage, Removing
    <3> QED BY <1>2, <2>5, <3>2, Zenon
  <2>6. CASE Load(Child, "tail_load", WithVal(Child, tasks.tail), "relink")
    <3>1. WithVal(Child, tasks.tail).val = tasks.tail
          /\ WithVal(Child, tasks.tail).task = local[Child].task
          /\ WithVal(Child, tasks.tail).reg = local[Child].reg
      BY <1>0, Fields, Zenon
    <3>2. Stage'
      BY <1>1, <1>2, <2>6, <3>1 DEF Stage, Removing
    <3> QED BY <1>2, <2>6, <3>2, Zenon
  <2>7. CASE StoreNext(Child, "relink", [next EXCEPT ![local[Child].reg] = local[Child].val],
                       "kfree")
    <3>1. /\ pc[Child] = "relink" /\ pc'[Child] = "kfree"
          /\ next' = [next EXCEPT ![local[Child].reg] = local[Child].val]
          /\ UNCHANGED <<nodes, tasks, local>>
      BY <1>0, <2>7, StoreNextStep, Zenon
    <3>2. local[Child].reg = Main /\ local[Child].val = Main /\ local[Child].task = Child
      BY <1>1, <3>1 DEF Stage
    <3>3. next'[Main] = Main /\ next'[Child] = Main /\ next' \in [Task -> Task \cup {None}]
      BY <1>0, <1>1, <3>1, <3>2, Zenon
    <3>4. Stage'
      BY <3>1, <3>2, <3>3 DEF Stage, Removing, Alone
    <3> QED BY <1>1, <3>1, <3>3, <3>4, Zenon DEF Departing
  <2> QED BY <1>4, <2>1, <2>2, <2>3, <2>4, <2>5, <2>6, <2>7, Zenon DEF remove_tail
<1>5. CASE remove_search(Child)
  <2>1. CASE Load(Child, "search", WithPrev(Child, local[Child].task), "search_tail")
    <3>1. WithPrev(Child, local[Child].task).prev = local[Child].task
      BY <1>0, Fields, Zenon
    <3>2. Stage'
      BY <1>1, <1>2, <2>1, <3>1 DEF Stage, Removing
    <3> QED BY <1>2, <2>1, <3>2, Zenon
  <2>2. CASE Load(Child, "search_tail", WithReg(Child, tasks.tail), "search_next")
    <3>1. WithReg(Child, tasks.tail).reg = tasks.tail
          /\ WithReg(Child, tasks.tail).prev = local[Child].prev
      BY <1>0, Fields, Zenon
    <3>2. Stage'
      BY <1>1, <1>2, <2>2, <3>1 DEF Stage, Removing
    <3> QED BY <1>2, <2>2, <3>2, Zenon
  <2>3. CASE Load(Child, "search_next", WithTask(Child, next[local[Child].reg]), "compare")
    <3>1. WithTask(Child, next[local[Child].reg]).task = next[local[Child].reg]
          /\ WithTask(Child, next[local[Child].reg]).prev = local[Child].prev
      BY <1>0, Fields, Zenon
    <3>2. Stage'
      BY <1>1, <1>2, <2>3, <3>1, FullFacts DEF Stage, Removing
    <3> QED BY <1>2, <2>3, <3>2, Zenon
  <2>4. CASE Load(Child, "compare", WithReg(Child, None),
                  IF Found(Child) THEN "unlink_load" ELSE "again")
    <3>1. pc[Child] = "compare"
      BY <1>2, <2>4, Zenon
    <3>2. local[Child].task = Child /\ local[Child].prev = InitTask /\ Full
      BY <1>1, <3>1 DEF Stage
    <3>3. Load(Child, "compare", WithReg(Child, None), "unlink_load")
      BY <1>0, <2>4, <3>2, Zenon DEF Found, Named
    <3>4. WithReg(Child, None).task = Child /\ WithReg(Child, None).prev = InitTask
      BY <1>0, <3>2, Fields, Zenon
    <3>5. pc'[Child] = "unlink_load" /\ local'[Child] = WithReg(Child, None) /\ Full' = Full
      BY <1>2, <3>3, Zenon
    <3>6. Stage'
      BY <3>2, <3>4, <3>5 DEF Stage, Removing
    <3> QED BY <1>2, <3>3, <3>6, Zenon
  <2>5. ASSUME NEW to, Load(Child, "again", WithReg(Child, None), to) PROVE FALSE
    <3>1. pc[Child] = "again"
      BY <1>2, <2>5, Zenon
    <3> QED BY <1>1, <3>1 DEF Stage
  <2> QED BY <1>5, <2>1, <2>2, <2>3, <2>4, <2>5, Zenon DEF remove_search
<1>6. CASE remove_unlink(Child)
  <2>1. CASE Load(Child, "unlink_load", WithReg(Child, next[local[Child].task]), "unlink")
    <3>1. WithReg(Child, next[local[Child].task]).reg = next[local[Child].task]
          /\ WithReg(Child, next[local[Child].task]).task = local[Child].task
          /\ WithReg(Child, next[local[Child].task]).prev = local[Child].prev
      BY <1>0, Fields, Zenon
    <3>2. Stage'
      BY <1>1, <1>2, <2>1, <3>1 DEF Stage, Removing
    <3> QED BY <1>2, <2>1, <3>2, Zenon
  <2>2. CASE StoreNext(Child, "unlink", [next EXCEPT ![local[Child].prev] = local[Child].reg],
                       "is_head")
    <3>1. /\ pc[Child] = "unlink" /\ pc'[Child] = "is_head"
          /\ next' = [next EXCEPT ![local[Child].prev] = local[Child].reg]
          /\ UNCHANGED <<nodes, tasks, local>>
      BY <1>0, <2>2, StoreNextStep, Zenon
    <3>2. Full /\ local[Child].reg = Main /\ local[Child].prev = InitTask
          /\ local[Child].task = Child
      BY <1>1, <3>1 DEF Stage
    <3>3. next'[InitTask] = Main /\ next'[Child] = Main
          /\ next' \in [Task -> Task \cup {None}]
          /\ \A t \in Task \ {InitTask} : next'[t] = next[t]
      BY <1>0, <1>1, <3>1, <3>2, Zenon
    <3>4. \A i \in 0 .. All - 2 : next'[Order(i)] = Order(i + 1)
      <4> SUFFICES ASSUME NEW i \in 0 .. All - 2 PROVE next'[Order(i)] = Order(i + 1)
        BY Zenon
      <4>1. i \in 0 .. All /\ All - 1 \in 0 .. All /\ i # All - 1 /\ i \in 0 .. All - 1
        BY OrderFacts
      <4>2. Order(i) \in Task /\ Order(i) # InitTask
        BY <4>1, OrderIsOneToOne, UserOrder, Zenon
      <4> QED BY <3>2, <3>3, <4>1, <4>2, Zenon DEF Full
    <3>5. Cut'
      BY <3>3, <3>4, Zenon DEF Cut, All, Order
    <3>6. Stage'
      BY <3>1, <3>2, <3>5 DEF Stage, Removing
    <3> QED BY <1>1, <3>1, <3>3, <3>6, Zenon DEF Departing
  <2>3. CASE StorePointer(Child, "is_head", HeadMoved(Child), "kfree")
    <3>1. /\ pc[Child] = "is_head" /\ pc'[Child] = "kfree" /\ tasks' = HeadMoved(Child)
          /\ UNCHANGED <<next, nodes, local>>
      BY <1>0, <2>3, StorePointerStep, Zenon
    <3>2. local[Child].task = Child /\ Cut
      BY <1>1, <3>1 DEF Stage
    <3>3. tasks' = tasks
      BY <1>0, <1>1, <3>1, <3>2, TaskFacts, Zenon DEF HeadMoved
    <3>4. Cut' = Cut
      BY <3>1, SameRing, Zenon
    <3>5. Stage'
      BY <3>1, <3>2, <3>3, <3>4 DEF Stage, Removing
    <3> QED BY <1>1, <3>1, <3>3, <3>5, Zenon DEF Departing
  <2> QED BY <1>6, <2>1, <2>2, <2>3, Zenon DEF remove_unlink
<1>7. CASE remove_kfree(Child)
  <2>1. /\ pc[Child] = "kfree" /\ UNCHANGED <<next, tasks>>
        /\ nodes' = nodes \ {local[Child].task}
        /\ pc' = [pc EXCEPT ![Child] = IF InSyscall(Child) THEN "exited" ELSE "halt"]
    BY <1>7, Zenon DEF remove_kfree, Runs, Goto, Unlinked
  <2>2. local[Child].task = Child /\ (Cut \/ Alone)
    BY <1>1, <2>1 DEF Stage
  <2>3. pc'[Child] = "exited"
    BY <1>0, <2>1, Zenon DEF InSyscall, PcOK
  <2>4. Cut' = Cut /\ Alone' = Alone
    BY <2>1, SameRing, Zenon
  <2>5. Stage'
    BY <2>2, <2>3, <2>4 DEF Stage, Removing
  <2> QED BY <1>1, <2>1, <2>2, <2>5, Zenon DEF Departing
<1> QED BY <1>3, <1>4, <1>5, <1>6, <1>7, Zenon DEF sched_remove

\* What a task does follows from where it is.
LEMMA TaskCases ==
    ASSUME PcOK, LocalOK, NEW t \in Task, task_step(t)
    PROVE  /\ pc[t] = "run" => t \in Exiting \cup Returning /\ UNCHANGED <<ring, local>>
           /\ pc[t] = "run" /\ t \in Exiting => exit(t)
           /\ pc[t] \in Removing => sched_remove(t) /\ t # InitTask
           /\ pc[t] \notin Removing => UNCHANGED ring
           /\ pc[t] # "kfree" => UNCHANGED <<nodes, freed>>
<1>0. \A x \in Removing : x \notin {"run", "ud2", "panic"}
  BY DEF Removing
<1>1. CASE pc[t] = "panic" /\ UNCHANGED <<ring, pc, local>>
  <2>1. pc[t] # "run" /\ pc[t] \notin Removing
    BY <1>1 DEF Removing
  <2> QED BY <1>1, <2>1, Zenon DEF ring, heap
<1>2. ASSUME NEW at \in Removing \cup {"run", "ud2"}, NEW to \in Leaving, Moves(t, at, to),
             t \in Exiting \cup Returning, at = "run" => UNCHANGED <<ring, local>>,
             at = "run" /\ t \in Exiting => exit(t), at \in Removing => sched_remove(t),
             t = InitTask => at = "run" /\ to = "panic"
      PROVE  /\ pc[t] = "run" => t \in Exiting \cup Returning /\ UNCHANGED <<ring, local>>
             /\ pc[t] = "run" /\ t \in Exiting => exit(t)
             /\ pc[t] \in Removing => sched_remove(t) /\ t # InitTask
             /\ pc[t] \notin Removing => UNCHANGED ring
             /\ pc[t] # "kfree" => UNCHANGED <<nodes, freed>>
  <2>1. pc[t] = at /\ UNCHANGED task_of
    BY <1>2, Zenon DEF Moves, Runs
  <2>2. CASE at = "ud2"
    <3>1. at \notin Removing \cup {"run", "drop_tail", "is_head", "relink", "unlink", "kfree"}
      BY <2>2 DEF Removing
    <3>2. UNCHANGED <<tasks, next, heap>>
      BY <1>2, <3>1, Zenon DEF Moves
    <3> QED BY <2>1, <3>1, <3>2, Zenon DEF ring, heap
  <2>3. at # "kfree" => UNCHANGED <<nodes, freed>>
    BY <1>2, Zenon DEF Moves, heap
  <2>4. "run" # "ud2" /\ at # "run" => at \in Removing \/ at = "ud2"
    BY Zenon
  <2>5. CASE at = "run"
    BY <1>0, <1>2, <2>1, <2>3, <2>5, Zenon
  <2>6. CASE at \in Removing
    <3>1. t # InitTask
      BY <1>0, <1>2, <2>6, Zenon
    <3> QED BY <1>0, <1>2, <2>1, <2>3, <2>6, <3>1, Zenon
  <2> QED BY <2>2, <2>4, <2>5, <2>6, Zenon
<1> QED BY <1>1, <1>2, TaskMoves, Zenon

\* The child in the kernel has the CPU and keeps it; once it has left, only
\* kernel_main's last store and the position of the scheduler can change.
LEMMA NextLeaveInv ==
    RingInv /\ SyscallInv /\ ChildInv /\ LeaveInv /\ [Next]_vars /\ ChildInv' => LeaveInv'
<1> SUFFICES ASSUME RingInv, SyscallInv, ChildInv, LeaveInv, [Next]_vars, ChildInv',
                    NoReturn', pc'[Child] # "run"
             PROVE  Departing'
  BY Zenon DEF LeaveInv
<1>0. NoReturn /\ PcOK /\ LocalOK /\ DOMAIN pc = Task /\ Child \in Task /\ Main # Child
  BY NextNoReturn, TaskFacts, Zenon DEF RingInv, PcOK
<1>1. ASSUME task_step(Child) PROVE Departing'
  <2>1. CASE pc[Child] = "run"
    <3>1. Child \in Exiting \cup Returning /\ (Child \in Exiting => exit(Child))
      BY <1>0, <1>1, <2>1, TaskCases, Zenon
    <3>2. Child \in Exiting
      BY <3>1, SchedAssumption DEF Child
    <3> QED BY <1>0, <3>1, <3>2, ExitDeparts, Zenon
  <2>2. CASE pc[Child] # "run"
    <3>1. Departing /\ Named
      BY <1>0, <2>2, Zenon DEF LeaveInv, ChildInv
    <3>2. pc[Child] \in Removing \/ pc[Child] = "exited"
      BY <3>1 DEF Departing, Stage
    <3>3. CASE pc[Child] = "exited"
      <4>1. ~ \E at \in Removing \cup {"run", "ud2"} : pc[Child] = at
        BY <3>3 DEF Removing
      <4> QED BY <1>0, <1>1, <3>3, <4>1, TaskMoves, Zenon DEF Moves, Runs
    <3>4. CASE pc[Child] \in Removing
      BY <1>0, <1>1, <3>1, <3>4, TaskCases, ChildRemoves, Zenon
    <3> QED BY <3>2, <3>3, <3>4, Zenon
  <2> QED BY <2>1, <2>2, Zenon
<1>2. ASSUME Departing, UNCHANGED <<next, nodes>>, tasks'.head = tasks.head,
             tasks'.tail = tasks.tail, pc'[Child] = pc[Child], local'[Child] = local[Child]
      PROVE  Departing'
  <2>1. Full' = Full /\ Cut' = Cut /\ Alone' = Alone
    BY <1>2, SameRing, Zenon
  <2>2. Stage'
    BY <1>2, <2>1, Zenon DEF Departing, Stage
  <2> QED BY <1>2, <2>2, Zenon DEF Departing
<1>3. CASE kernel_main
  <2>1. current = Main /\ pc'[Child] = pc[Child] /\ local'[Child] = local[Child]
    BY <1>0, <1>3, MainMoves, Zenon
  <2>2. Departing /\ pc[Main] \in {"tail", "run"} /\ (pc[Main] = "tail" => new_tasks = Child)
    BY <1>0, <2>1, Zenon DEF LeaveInv, ChildInv
  <2>3. pc[Child] = "exited"
    BY <1>0, <2>1, Zenon DEF SyscallInv, InSyscall
  <2>4. sched_add_tail /\ new_tasks = Child
    BY <1>3, <2>2, TailStep, Zenon
  <2>5. UNCHANGED <<next, nodes>> /\ tasks' = [tasks EXCEPT !.tail = Child]
    BY <2>4, Zenon DEF sched_add_tail, heap
  <2>6. tasks'.head = Main /\ tasks'.tail = Child
    BY <1>0, <2>2, <2>5 DEF LocalOK, Pointers, Departing
  <2>7. Cut' = Cut /\ Alone' = Alone
    BY <2>5, SameRing, Zenon
  <2>8. Stage'
    BY <2>1, <2>2, <2>3, <2>7 DEF Departing, Stage
  <2> QED BY <1>0, <2>2, <2>5, <2>6, <2>8, Zenon DEF Departing
<1>4. ASSUME NEW t \in Task, task_step(t), t # Child PROVE Departing'
  <2>1. t # Main /\ current = t /\ pc'[Child] = pc[Child] /\ local'[Child] = local[Child]
    BY <1>0, <1>4, TaskMoves, Zenon
  <2>2. Departing
    BY <1>0, <2>1, Zenon DEF LeaveInv
  <2>3. UNCHANGED ring
    <3>1. pc[t] \notin Removing
      <4>1. CASE t = InitTask
        BY <1>0, <1>4, <4>1, TaskCases, Zenon
      <4>2. CASE t # InitTask
        <5>1. pc[t] = "run"
          BY <1>0, <1>4, <2>1, <4>2, ChildOnly, Zenon
        <5> QED BY <5>1 DEF Removing
      <4> QED BY <4>1, <4>2, Zenon
    <3> QED BY <1>0, <1>4, <3>1, TaskCases, Zenon
  <2> QED BY <1>2, <2>1, <2>2, <2>3, Zenon DEF ring, heap
<1>5. CASE timer_irq \/ keyboard_irq \/ sched_context_switch \/ Stopped \/ UNCHANGED vars
  <2>1. UNCHANGED <<next, nodes, local>> /\ pc'[Child] = pc[Child]
    <3>1. CASE timer_irq \/ keyboard_irq
      <4>1. /\ ~ InSyscall(current) /\ UNCHANGED <<next, nodes, local>>
            /\ pc' = pc \/ (pc[current] = "halt" /\ pc' = [pc EXCEPT ![current] = "ud2"])
        BY <3>1, IrqMoves, Zenon
      <4>2. current = Child => pc[current] # "halt"
        BY <4>1, Zenon DEF InSyscall
      <4> QED BY <1>0, <4>1, <4>2, Zenon
    <3> QED BY <1>5, <3>1, HandlerMoves, Stutters, Zenon
  <2>2. tasks'.head = tasks.head /\ tasks'.tail = tasks.tail
    <3>1. tasks' = tasks \/ tasks' = [tasks EXCEPT !.sched_head = Top.nxt]
      BY <1>5, IrqMoves, HandlerMoves, Stutters, Zenon
    <3> QED BY <1>0, <3>1 DEF LocalOK, Pointers
  <2>3. Departing
    BY <1>0, <2>1, Zenon DEF LeaveInv
  <2> QED BY <1>2, <2>1, <2>2, <2>3, Zenon
<1> QED BY <1>1, <1>3, <1>4, <1>5, Zenon DEF Next

HeapInv == RingInv /\ SyscallInv /\ ChildInv /\ LeaveInv

LEMMA HeapInvariant == Spec => []HeapInv
<1>1. Init => HeapInv
  <2> SUFFICES ASSUME Init PROVE SyscallInv /\ ChildInv /\ LeaveInv
    BY InitRingInv, Zenon DEF HeapInv
  <2>1. pc[InitTask] = "run" /\ pc[Child] = "run"
    BY TaskFacts, Zenon DEF Init
  <2> QED BY <2>1, Zenon DEF Init, SyscallInv, ChildInv, LeaveInv, InSyscall
<1>2. HeapInv /\ [Next]_vars => HeapInv'
  BY NextRingInv, NextSyscallInv, NextChildInv, NextLeaveInv, Zenon DEF HeapInv
<1> QED BY <1>1, <1>2, PTL DEF Spec

\* However deeply timer handlers are nested and wherever ticks fall, while no
\* kernel task returns the kfree of exit never meets kernel_main preempted in
\* the kmalloc of sched_add (HeapUndisturbed): the only task that exits is the
\* last one that kernel_main adds.
THEOREM ExitLeavesHeapAlone == Spec => HeapUndisturbed
<1>1. HeapInv /\ [Next]_vars => (NoReturn /\ nodes \ nodes' # {} => pc[Main] # "kmalloc")
  <2> SUFFICES ASSUME HeapInv, [Next]_vars, NoReturn, nodes \ nodes' # {}, pc[Main] = "kmalloc"
               PROVE  FALSE
    BY Zenon
  <2>0. PcOK /\ LocalOK
    BY Zenon DEF HeapInv, RingInv
  <2>1. CASE kernel_main
    <3>1. CASE init_sched
      BY <3>1, Zenon DEF init_sched, Runs
    <3>2. CASE sched_add
      <4>1. nodes \subseteq nodes'
        <5>1. CASE sched_add_kmalloc
          BY <5>1, Zenon DEF sched_add_kmalloc
        <5> QED BY <3>2, <5>1, Zenon DEF sched_add, sched_add_fill, sched_add_link, sched_add_tail,
                                         Load, StoreNext, ring, heap
      <4> QED BY <4>1, Zenon
    <3> QED BY <2>1, <3>1, <3>2, Zenon DEF kernel_main
  <2>2. ASSUME NEW t \in Task, task_step(t) PROVE FALSE
    <3>1. t # Main /\ pc[t] = "kfree"
      BY <2>0, <2>2, TaskMoves, TaskCases, Zenon
    <3>2. t # InitTask /\ pc[t] # "run"
      BY <2>0, <3>1, Zenon DEF PcOK
    <3>3. t = Child
      BY <2>0, <3>1, <3>2, ChildOnly, Zenon
    <3> QED BY <3>2, <3>3, Zenon DEF HeapInv, ChildInv
  <2>3. CASE timer_irq \/ keyboard_irq \/ sched_context_switch \/ Stopped \/ UNCHANGED vars
    BY <2>3, IrqMoves, HandlerMoves, Stutters, Zenon
  <2> QED BY <2>1, <2>2, <2>3, Zenon DEF Next
<1> QED BY <1>1, HeapInvariant, PTL DEF Spec, HeapUndisturbed
-----------------------------------------------------------------------------
(* One timer handler at a time (MaxNest = 1).                              *)

\* The task that gets the CPU after c is the next in the ring; only task 0 gets
\* it from itself, at the first tick.
Ahead(c, t) == t = next[c] \/ (c = Main /\ t = Main)

\* What an activation f of the handler holds.  Until it stores the new
\* position, the old one is the task to run next; from then on the activation
\* holds that task and the position is the one after it.
Frame == [at : {"read", "task", "load", "next", "store", "switch"}, task : Task \cup {None},
          nxt : Task \cup {None}]

Holds(f) ==
    /\ f.at # "read" => SCHED_INIT
    /\ f.at # "switch" /\ SCHED_INIT => Ahead(current, tasks.sched_head)
    /\ f.at \in {"task", "next"} => f.nxt = tasks.sched_head
    /\ f.at \in {"load", "next", "store"} => f.task = tasks.sched_head
    /\ f.at = "store" => f.nxt = next[tasks.sched_head]
    /\ f.at = "switch" => Ahead(current, f.task) /\ tasks.sched_head = next[f.task]

\* Only the current task has a handler on its stack.
InStep ==
    /\ current \in Task
    /\ \A t \in Task \ {current} : irq[t] = <<>>
    /\ \/ irq[current] = <<>> /\ (SCHED_INIT => Ahead(current, tasks.sched_head))
       \/ \E f \in Frame : irq[current] = <<f>> /\ Holds(f)

\* Once the child has cut off the ring, only task 0 and the child itself have
\* the CPU.
SingleInv ==
    /\ NoReturn => InStep
    /\ NoReturn /\ pc[Child] = "exited" /\ ~ Cut => current \in {Main, Child}

LEMMA OneFrame ==
    ASSUME NEW f, NEW g
    PROVE  /\ <<f>> # <<>> /\ TopOf(<<f>>) = f /\ Under(<<f>>) = <<>>
           /\ Append(Under(<<f>>), g) = <<g>> /\ Append(<<>>, g) = <<g>>
<1>1. Under(<<f>>) = <<>>
  BY DEF Under
<1> QED BY <1>1 DEF TopOf

\* A step of the task itself concerns only its successor and the position.
LEMMA QuietStep ==
    ASSUME InStep, UNCHANGED <<current, irq>>, irq[current] = <<>>,
           SCHED_INIT' => Ahead(current, tasks.sched_head)'
    PROVE  InStep'
BY Zenon DEF InStep

LEMMA SamePosition ==
    ASSUME InStep, UNCHANGED <<current, irq>>, irq[current] = <<>>,
           next'[current] = next[current], tasks'.sched_head = tasks.sched_head
    PROVE  InStep'
<1>1. SCHED_INIT => Ahead(current, tasks.sched_head)
  BY OneFrame, Zenon DEF InStep
<1>2. SCHED_INIT' => Ahead(current, tasks.sched_head)'
  BY <1>1, Zenon DEF SCHED_INIT, Ahead
<1> QED BY <1>2, QuietStep, Zenon

\* A tick finds the stack of the current task empty.
LEMMA TickStep ==
    ASSUME MaxNest = 1, SyscallInv, InStep, timer_irq
    PROVE  InStep'
<1> DEFINE f == [at |-> "read", task |-> None, nxt |-> None]
<1>1. irq[current] = <<>>
  <2>1. Len(irq[current]) < 1
    BY Zenon DEF timer_irq
  <2>2. \A x : Len(<<x>>) = 1
    BY Zenon
  <2> QED BY <2>1, <2>2 DEF InStep
<1>2. irq' = [irq EXCEPT ![current] = <<f>>] /\ UNCHANGED <<next, tasks, current>>
  BY <1>1 DEF timer_irq, ring
<1>3. irq'[current] = <<f>> /\ \A t \in Task \ {current} : irq'[t] = <<>>
  BY <1>2, Zenon DEF SyscallInv, InStep
<1>4. f \in Frame /\ f.at = "read"
  BY Zenon DEF Frame
<1>5. SCHED_INIT => Ahead(current, tasks.sched_head)
  BY <1>1, OneFrame, Zenon DEF InStep
<1> HIDE DEF f
<1>6. Holds(f)'
  BY <1>2, <1>4, <1>5 DEF Holds, SCHED_INIT, Ahead
<1> QED BY <1>2, <1>3, <1>4, <1>6, Zenon DEF InStep

LEMMA KeyStep ==
    ASSUME InStep, keyboard_irq \/ Stopped \/ UNCHANGED vars
    PROVE  InStep' /\ UNCHANGED <<next, current>>
<1>1. UNCHANGED <<next, tasks, current, irq>>
  BY Stutters, Zenon DEF keyboard_irq, ring, cpu
<1> QED BY <1>1, Zenon DEF InStep, Ahead, Holds, SCHED_INIT

\* Before there is a ring.
LEMMA HandlerEarly ==
    ASSUME SyscallInv, InStep, ~ SCHED_INIT, sched_context_switch
    PROVE  InStep' /\ current' = current
<1>1. PICK f : irq[current] = <<f>> /\ f.at = "read"
  BY HandlerMoves, Zenon DEF InStep, Holds
<1>2. Top = f
  BY <1>1, OneFrame, Zenon DEF Top
<1>3. handler_skip
  BY <1>1, <1>2, Zenon DEF sched_context_switch, context_switch_task, context_switch_next,
                           context_switch_store, do_task_switch, HandlerLoad, HandlerAt
<1>4. irq' = [irq EXCEPT ![current] = <<>>] /\ UNCHANGED <<ring, current>>
  BY <1>1, <1>3, OneFrame, Zenon DEF handler_skip, PopTop
<1>5. \A t \in Task : irq'[t] = <<>>
  BY <1>4, Zenon DEF SyscallInv, InStep
<1> QED BY <1>4, <1>5, Zenon DEF InStep, SCHED_INIT, ring

\* Tasks among which the handler stays: it finds the next task to run in them.
Closed(L) ==
    /\ L \subseteq Task /\ L \subseteq nodes
    /\ Main \in L
    /\ \A t \in L : next[t] \in L /\ task_of[t] = t /\ pc[t] # "exited"
    /\ next[current] \in L

\* The steps of the handler once there is a ring: the CPU goes to the successor
\* of the current task, and the position stays among the tasks it can reach.
LEMMA HandlerInStep ==
    ASSUME LocalOK, SyscallInv, InStep, SCHED_INIT, NEW L, Closed(L), sched_context_switch
    PROVE  /\ InStep'
           /\ current' # current => current' = next[current]
           /\ current' \in L \cup {current}
<1>0. L \subseteq Task /\ None \notin Task /\ Main \in L /\ (\A t \in L : next[t] \in L)
      /\ current \in Task
  BY TaskFacts, Zenon DEF Closed, InStep
<1>1. \A t : Ahead(current, t) => t \in L
  BY Zenon DEF Ahead, Closed
<1>2. PICK f \in Frame : irq[current] = <<f>> /\ Holds(f)
  BY HandlerMoves, Zenon DEF InStep
<1>3. tasks.sched_head \in L
  BY <1>0, <1>1, <1>2, Zenon DEF Holds
<1>4. Top = f /\ Under(irq[current]) = <<>>
  BY <1>2, OneFrame, Zenon DEF Top
<1>5. ASSUME NEW g \in Frame, irq' = [irq EXCEPT ![current] = Append(Under(@), g)],
             current' = current, Holds(g)'
      PROVE  InStep'
  <2>1. irq' = [irq EXCEPT ![current] = <<g>>]
    BY <1>2, <1>5, OneFrame, Zenon
  <2>2. irq'[current'] = <<g>> /\ \A t \in Task \ {current'} : irq'[t] = <<>>
    BY <1>0, <1>5, <2>1, Zenon DEF SyscallInv, InStep
  <2> QED BY <1>0, <1>5, <2>2, Zenon DEF InStep
<1>6. ASSUME NEW at, NEW g \in Frame, HandlerLoad(at, g), f.at = at => (Holds(g) /\ at # "switch")
      PROVE  InStep' /\ current' = current
  <2>1. f.at = at /\ irq' = [irq EXCEPT ![current] = Append(Under(@), g)]
        /\ UNCHANGED <<next, tasks, current>>
    BY <1>4, <1>6, Zenon DEF HandlerLoad, HandlerAt, SetTop, ring
  <2>2. Holds(g)'
    BY <1>6, <2>1, Zenon DEF Holds, Ahead, SCHED_INIT
  <2> QED BY <1>5, <2>1, <2>2, Zenon
<1>7. f.at # "switch" => Ahead(current, tasks.sched_head)
  BY <1>2, Zenon DEF Holds
<1>8. CASE HandlerLoad("read", [at |-> "task", task |-> None, nxt |-> tasks.sched_head])
  <2> DEFINE g == [at |-> "task", task |-> None, nxt |-> tasks.sched_head]
  <2>1. g \in Frame /\ g.at = "task" /\ g.nxt = tasks.sched_head
    BY <1>0, <1>3, Zenon DEF Frame
  <2>2. HandlerLoad("read", g)
    BY <1>8, Zenon
  <2> HIDE DEF g
  <2>3. f.at = "read" => Holds(g)
    BY <1>7, <2>1 DEF Holds
  <2> QED BY <1>6, <2>1, <2>2, <2>3
<1>9. CASE HandlerLoad("task", [at |-> "load", task |-> task_of[Top.nxt], nxt |-> None])
  <2> DEFINE g == [at |-> "load", task |-> task_of[Top.nxt], nxt |-> None]
  <2>1. f.at = "task"
    BY <1>4, <1>9, Zenon DEF HandlerLoad, HandlerAt
  <2>2. task_of[Top.nxt] = tasks.sched_head
    BY <1>2, <1>3, <1>4, <2>1, Zenon DEF Holds, Closed
  <2>3. g \in Frame /\ g.at = "load" /\ g.task = tasks.sched_head
    BY <1>0, <1>3, <2>2, Zenon DEF Frame
  <2>4. HandlerLoad("task", g)
    BY <1>9, Zenon
  <2> HIDE DEF g
  <2>5. Holds(g)
    BY <1>7, <2>1, <2>3 DEF Holds
  <2> QED BY <1>6, <2>3, <2>4, <2>5
<1>10. CASE HandlerLoad("load", [at |-> "next", task |-> Top.task, nxt |-> tasks.sched_head])
  <2> DEFINE g == [at |-> "next", task |-> Top.task, nxt |-> tasks.sched_head]
  <2>1. f.at = "load"
    BY <1>4, <1>10, Zenon DEF HandlerLoad, HandlerAt
  <2>2. Top.task = tasks.sched_head
    BY <1>2, <1>4, <2>1, Zenon DEF Holds
  <2>3. g \in Frame /\ g.at = "next" /\ g.task = tasks.sched_head /\ g.nxt = tasks.sched_head
    BY <1>0, <1>3, <2>2, Zenon DEF Frame
  <2>4. HandlerLoad("load", g)
    BY <1>10, Zenon
  <2> HIDE DEF g
  <2>5. Holds(g)
    BY <1>7, <2>1, <2>3 DEF Holds
  <2> QED BY <1>6, <2>3, <2>4, <2>5
<1>11. CASE HandlerLoad("next", [at |-> "store", task |-> Top.task, nxt |-> next[Top.nxt]])
  <2> DEFINE g == [at |-> "store", task |-> Top.task, nxt |-> next[Top.nxt]]
  <2>1. f.at = "next"
    BY <1>4, <1>11, Zenon DEF HandlerLoad, HandlerAt
  <2>2. Top.task = tasks.sched_head /\ Top.nxt = tasks.sched_head
    BY <1>2, <1>4, <2>1, Zenon DEF Holds
  <2>3. g \in Frame /\ g.at = "store" /\ g.task = tasks.sched_head
        /\ g.nxt = next[tasks.sched_head]
    BY <1>0, <1>3, <2>2, Zenon DEF Frame
  <2>4. HandlerLoad("next", g)
    BY <1>11, Zenon
  <2> HIDE DEF g
  <2>5. Holds(g)
    BY <1>7, <2>1, <2>3 DEF Holds
  <2> QED BY <1>6, <2>3, <2>4, <2>5
<1>12. CASE context_switch_store
  <2> DEFINE g == [f EXCEPT !.at = "switch"]
  <2>1. irq' = [irq EXCEPT ![current] = Append(Under(@), g)] /\ f.at = "store"
        /\ tasks' = [tasks EXCEPT !.sched_head = f.nxt] /\ UNCHANGED <<next, current>>
    BY <1>4, <1>12, Zenon DEF context_switch_store, Advanced, SetTop, HandlerAt
  <2>2. g \in Frame /\ g.at = "switch" /\ g.task = tasks.sched_head
    BY <1>2, <2>1, Zenon DEF Frame, Holds
  <2>3. f.nxt = next[tasks.sched_head] /\ f.nxt \in L
    BY <1>0, <1>2, <1>3, <2>1, Zenon DEF Holds
  <2>4. tasks'.sched_head = f.nxt
    BY <2>1, Zenon DEF LocalOK, Pointers
  <2> HIDE DEF g
  <2>5. Holds(g)'
    BY <1>0, <1>7, <2>1, <2>2, <2>3, <2>4 DEF Holds, SCHED_INIT, Ahead
  <2> QED BY <1>5, <2>1, <2>2, <2>5, Zenon
<1>13. CASE do_task_switch
  <2>1. irq' = [irq EXCEPT ![current] = <<>>] /\ f.at = "switch" /\ current' = f.task
        /\ UNCHANGED <<next, tasks>>
    BY <1>4, <1>13, Zenon DEF do_task_switch, PopTop, HandlerAt, ring
  <2>2. f.task \in L /\ tasks.sched_head = next[f.task]
    BY <1>1, <1>2, <2>1, Zenon DEF Holds
  <2>3. \A t \in Task : irq'[t] = <<>>
    BY <2>1, Zenon DEF SyscallInv, InStep
  <2>4. InStep'
    BY <1>0, <2>1, <2>2, <2>3 DEF InStep, Ahead
  <2>5. current' # current => current' = next[current]
    BY <1>2, <2>1, Zenon DEF Ahead, Holds
  <2> QED BY <2>1, <2>2, <2>4, <2>5, Zenon
<1>14. ~ handler_skip
  BY Zenon DEF handler_skip
<1> QED BY <1>8, <1>9, <1>10, <1>11, <1>12, <1>13, <1>14, Zenon
           DEF sched_context_switch, context_switch_task, context_switch_next,
               context_switch_store

\* There are such tasks in every state in which a handler can run: all of the
\* ring, or what is left of it.
LEMMA ClosedExists ==
    ASSUME HeapInv, SingleInv, NoReturn, SCHED_INIT, pc[Child] \in {"run", "exited"}
    PROVE  \E L : Closed(L) /\ (pc[Child] = "exited" /\ ~ Cut => L = {Main})
<1>0. PcOK /\ InStep /\ All \in Nat /\ All >= 2
  BY OrderFacts, Zenon DEF HeapInv, RingInv, SingleInv
<1>1. CASE pc[Child] = "run"
  <2>1. Shape /\ Filling /\ pc[Main] # "init_sched"
    BY <1>0, <1>1, ChildOnly, Zenon DEF HeapInv, RingInv, Filling, SCHED_INIT
  <2>2. /\ InRing \subseteq Task /\ Main \in InRing /\ InRing \subseteq nodes
        /\ \A t \in InRing : next[t] \in InRing /\ task_of[t] = t
    BY <2>1, RingFollows, Zenon
  <2>3. current \in InRing
    BY <2>1, Zenon DEF Shape
  <2>4. \A t \in InRing : pc[t] # "exited"
    <3>1. \A x \in Adding \cup {"run", "panic"} : x # "exited"
      BY DEF Adding, Filled
    <3>2. \A t \in Task : pc[t] # "exited"
      BY <1>0, <1>1, <3>1, ChildOnly, Zenon DEF PcOK
    <3> QED BY <2>2, <3>2, Zenon
  <2> QED BY <1>1, <2>2, <2>3, <2>4, Zenon DEF Closed
<1>2. CASE pc[Child] = "exited"
  <2>1. Departing /\ Named /\ (Cut \/ Alone)
    BY <1>2, Zenon DEF HeapInv, LeaveInv, ChildInv, Departing, Stage
  <2>2. \A t \in Task \ {Child} : pc[t] # "exited"
    <3>1. \A x \in Adding \cup {"run", "panic"} : x # "exited"
      BY DEF Adding, Filled
    <3> QED BY <1>0, <3>1, ChildOnly, Zenon DEF PcOK
  <2>3. CASE Cut
    <3> DEFINE L == Task \ {Child}
    <3>1. L \subseteq Task /\ L \subseteq nodes /\ Main \in L
      BY <2>1, TaskFacts, Zenon DEF Departing
    <3>2. \A t \in L : task_of[t] = t
      BY <2>1, <3>1, Zenon DEF Named
    <3>3. \A t \in L : next[t] \in L
      <4> SUFFICES ASSUME NEW t \in L PROVE next[t] \in L
        BY Zenon
      <4>1. PICK i \in 0 .. All : t = Order(i)
        BY OrderOnto, Zenon
      <4>2. i # All
        BY <4>1, UserOrder, Zenon
      <4>3. CASE i = All - 1
        BY <2>3, <4>1, <4>3, <3>1, UserOrder, Zenon DEF Cut
      <4>4. CASE i # All - 1
        <5>1. i \in 0 .. All - 2 /\ i + 1 \in 0 .. All /\ All \in 0 .. All /\ i + 1 # All
          BY <1>0, <4>2, <4>4
        <5>2. next[t] = Order(i + 1)
          BY <2>3, <4>1, <5>1, Zenon DEF Cut
        <5>3. Order(i + 1) \in Task /\ Order(i + 1) # Child
          BY <5>1, OrderIsOneToOne, UserOrder, Zenon
        <5> QED BY <5>2, <5>3, Zenon
      <4> QED BY <4>3, <4>4, Zenon
    <3>4. next[current] \in L
      BY <1>0, <2>1, <3>1, <3>3, Zenon DEF Departing, InStep
    <3>5. \A t \in L : pc[t] # "exited"
      BY <2>2, Zenon
    <3> HIDE DEF L
    <3>6. Closed(L)
      BY <3>1, <3>2, <3>3, <3>4, <3>5, Zenon DEF Closed
    <3> QED BY <2>3, <3>6, Zenon
  <2>4. CASE ~ Cut
    <3>1. Alone /\ current \in {Main, Child}
      BY <1>2, <2>1, <2>4, Zenon DEF SingleInv
    <3>2. Main \in nodes /\ pc[Main] # "exited" /\ next[Child] = Main /\ task_of[Main] = Main
      BY <2>1, <2>2, TaskFacts, Zenon DEF Departing, Named
    <3>3. Closed({Main})
      BY <3>1, <3>2, TaskFacts, Zenon DEF Closed, Alone
    <3> QED BY <3>3, Zenon
  <2> QED BY <2>3, <2>4, Zenon
<1> QED BY <1>1, <1>2, Zenon

\* kernel_main moves the successor of task 0 only when it adds the first task,
\* and then the position is still at task 0.
LEMMA MainInStep ==
    ASSUME HeapInv, InStep, NoReturn, kernel_main
    PROVE  InStep'
<1>0. PcOK /\ LocalOK /\ All \in Nat /\ Main \in Task /\ current = Main /\ irq[current] = <<>>
      /\ UNCHANGED <<current, irq>>
  BY OrderFacts, TaskFacts, MainMoves, Zenon DEF HeapInv, RingInv
<1>1. SCHED_INIT => Ahead(Main, tasks.sched_head)
  BY <1>0, OneFrame, Zenon DEF InStep
<1>2. ASSUME UNCHANGED <<next, tasks>> PROVE InStep'
  BY <1>0, <1>2, SamePosition, Zenon
<1>3. CASE init_sched
  <2>1. tasks'.sched_head = Main
    BY <1>3, Zenon DEF init_sched
  <2> QED BY <1>0, <2>1, QuietStep, Zenon DEF Ahead
<1>4. CASE sched_add_tail
  <2>1. next' = next /\ tasks' = [tasks EXCEPT !.tail = new_tasks]
    BY <1>4, Zenon DEF sched_add_tail
  <2>2. tasks'.sched_head = tasks.sched_head
    BY <1>0, <2>1 DEF LocalOK, Pointers
  <2> QED BY <1>0, <2>1, <2>2, SamePosition, Zenon
<1>5. ASSUME NEW at, NEW links, NEW to, StoreNext(Main, at, links, to), at \in {"fill_next", "link"}
      PROVE  /\ Shape /\ Linking /\ NewNode /\ pc[Main] = at
             /\ next' = links /\ tasks' = tasks
             /\ added \in 0 .. All - 1 /\ added + 1 \in 0 .. All
             /\ new_tasks = Order(added + 1) /\ new_tasks # Main
             /\ next[Order(added)] = Main /\ Order(added) \in Task
  <2>1. pc[Main] = at /\ next' = links /\ tasks' = tasks
    BY <1>0, <1>5, StoreNextStep, Zenon
  <2>2. pc[Main] \notin {"tail", "run", "init_sched"} /\ pc[Main] \in Filled
    BY <1>5, <2>1 DEF Filled
  <2>3. Shape /\ Linking /\ NewNode
    BY <1>0, <2>2, ChildOnly, Zenon DEF HeapInv, RingInv, ChildInv, Filling
  <2>4. Linked = added /\ added \in 0 .. All - 1 /\ added + 1 \in 0 .. All /\ 0 \in 0 .. All
        /\ added + 1 # 0 /\ added \in 0 .. All
    BY <1>0, <2>2, <2>3 DEF Shape, Linking, Linked
  <2>5. new_tasks = Order(added + 1) /\ next[Order(added)] = Main
    BY <2>2, <2>3, <2>4, Zenon DEF NewNode, Linking
  <2>6. new_tasks # Main /\ Order(added) \in Task
    BY <2>4, <2>5, OrderIsOneToOne, Zenon
  <2> QED BY <2>1, <2>3, <2>4, <2>5, <2>6, Zenon
<1>6. CASE StoreNext(Main, "fill_next", [next EXCEPT ![new_tasks] = local[Main].reg], "link_tail")
  <2>1. next' = [next EXCEPT ![new_tasks] = local[Main].reg] /\ tasks' = tasks
        /\ new_tasks # Main /\ Shape
    BY <1>5, <1>6, Zenon
  <2>2. next'[Main] = next[Main]
    BY <1>0, <2>1, Zenon DEF Shape
  <2> QED BY <1>0, <2>1, <2>2, SamePosition, Zenon
<1>7. CASE StoreNext(Main, "link", LinkNew, "tail")
  <2>1. next' = LinkNew /\ tasks' = tasks /\ Shape /\ NewNode /\ pc[Main] = "link"
        /\ next[Order(added)] = Main /\ Order(added) \in Task
    BY <1>5, <1>7, Zenon
  <2>2. next' = [next EXCEPT ![Order(added)] = new_tasks]
    BY <2>1, Zenon DEF LinkNew, NewNode
  <2>3. CASE Order(added) = Main
    <3>1. SCHED_INIT => tasks.sched_head = Main
      BY <1>1, <2>1, <2>3, Zenon DEF Ahead
    <3>2. SCHED_INIT' => Ahead(current, tasks.sched_head)'
      BY <1>0, <2>1, <3>1, Zenon DEF Ahead, SCHED_INIT
    <3> QED BY <1>0, <3>2, QuietStep, Zenon
  <2>4. CASE Order(added) # Main
    <3>1. next'[Main] = next[Main]
      BY <1>0, <2>1, <2>2, <2>4, Zenon DEF Shape
    <3> QED BY <1>0, <2>1, <3>1, SamePosition, Zenon
  <2> QED BY <2>3, <2>4, Zenon
<1>8. CASE sched_add_kmalloc
  BY <1>2, <1>8, Zenon DEF sched_add_kmalloc
<1>9. CASE sched_add_fill \/ sched_add_link
  <2>1. ASSUME NEW at, NEW x, NEW to, Load(Main, at, x, to) PROVE InStep'
    BY <1>0, <1>2, <2>1, LoadStep, Zenon
  <2> QED BY <1>2, <1>6, <1>7, <1>9, <2>1, Zenon DEF sched_add_fill, sched_add_link
<1> QED BY <1>3, <1>4, <1>8, <1>9, Zenon DEF kernel_main, sched_add

LEMMA TaskInStep ==
    ASSUME HeapInv, InStep, NoReturn, LeaveInv', NoReturn', NEW t \in Task, task_step(t)
    PROVE  InStep' /\ (t # Child => UNCHANGED ring /\ pc'[Child] = pc[Child])
<1>0. PcOK /\ LocalOK /\ t # Main /\ current = t /\ irq[current] = <<>> /\ Child \in Task
      /\ UNCHANGED <<current, irq>> /\ (t # Child => pc'[Child] = pc[Child])
  BY TaskMoves, TaskFacts, Zenon DEF HeapInv, RingInv
<1>1. CASE pc[t] \notin Removing
  <2>1. UNCHANGED ring
    BY <1>0, <1>1, TaskCases, Zenon
  <2> QED BY <1>0, <2>1, SamePosition, Zenon DEF ring
<1>2. CASE pc[t] \in Removing
  <2>1. sched_remove(t) /\ t # InitTask
    BY <1>0, <1>2, TaskCases, Zenon
  <2>2. pc[t] # "run"
    BY <1>2 DEF Removing
  <2>3. t = Child
    BY <1>0, <2>1, <2>2, ChildOnly, Zenon
  <2>4. Departing /\ Named
    BY <2>2, <2>3, Zenon DEF HeapInv, LeaveInv, ChildInv
  <2>5. Departing' /\ tasks'.sched_head = tasks.sched_head
    BY <1>0, <2>1, <2>3, <2>4, ChildRemoves, Zenon
  <2>6. next'[current] = next[current]
    BY <1>0, <2>3, <2>4, <2>5, Zenon DEF Departing
  <2> QED BY <1>0, <2>3, <2>5, <2>6, SamePosition, Zenon
<1> QED BY <1>1, <1>2, Zenon

\* The steps of the timer handler, and what they do to the CPU.
LEMMA HandlerSingle ==
    ASSUME MaxNest = 1, HeapInv, SingleInv, NoReturn,
           sched_context_switch \/ timer_irq \/ keyboard_irq
    PROVE  /\ InStep'
           /\ pc'[Child] = "exited" /\ ~ Cut' => current' \in {Main, Child}
           /\ current' # current => current' = next[current] /\ pc[current'] # "exited"
<1>0. PcOK /\ LocalOK /\ SyscallInv /\ InStep /\ DOMAIN pc = Task /\ current \in Task
      /\ Child \in Task /\ Main # Child
  BY TaskFacts, Zenon DEF HeapInv, RingInv, SingleInv, PcOK, InStep
<1>1. ~ InSyscall(Child)
  <2>1. ~ InSyscall(current) \/ irq[current] # <<>>
    BY IrqMoves, HandlerMoves, Zenon
  <2> QED BY <1>0, <2>1, Zenon DEF SyscallInv
<1>2. pc[Child] \in {"run", "exited"}
  BY <1>1, Zenon DEF InSyscall
<1>3. pc'[Child] = pc[Child] /\ Cut' = Cut
  <2>1. next' = next
        /\ (pc' = pc \/ (pc[current] = "halt" /\ pc' = [pc EXCEPT ![current] = "ud2"]))
    BY IrqMoves, HandlerMoves, Zenon
  <2> QED BY <1>0, <1>2, <2>1, SameRing, Zenon
<1>4. CASE timer_irq \/ keyboard_irq
  <2>1. InStep' /\ current' = current
    BY <1>0, <1>4, TickStep, KeyStep, IrqMoves, Zenon
  <2> QED BY <1>3, <2>1, Zenon DEF SingleInv
<1>5. CASE sched_context_switch /\ ~ SCHED_INIT
  <2>1. InStep' /\ current' = current
    BY <1>0, <1>5, HandlerEarly, Zenon
  <2> QED BY <1>3, <2>1, Zenon DEF SingleInv
<1>6. CASE sched_context_switch /\ SCHED_INIT
  <2>1. PICK L : Closed(L) /\ (pc[Child] = "exited" /\ ~ Cut => L = {Main})
    BY <1>2, <1>6, ClosedExists, Zenon
  <2>2. /\ InStep'
        /\ current' # current => current' = next[current]
        /\ current' \in L \cup {current}
    BY <1>0, <1>6, <2>1, HandlerInStep, Zenon
  <2>3. current' # current => pc[current'] # "exited"
    BY <2>1, <2>2, Zenon DEF Closed
  <2>4. pc[Child] = "exited" /\ ~ Cut => current' \in {Main, Child}
    BY <2>1, <2>2, Zenon DEF SingleInv
  <2> QED BY <1>3, <2>2, <2>3, <2>4, Zenon
<1> QED BY <1>4, <1>5, <1>6, Zenon

LEMMA NextSingle ==
    ASSUME MaxNest = 1, HeapInv, HeapInv', SingleInv, [Next]_vars
    PROVE  /\ SingleInv'
           /\ NoReturn /\ current' # current => current' = next[current] /\ pc[current'] # "exited"
<1>0. (NoReturn' => NoReturn) /\ PcOK /\ LocalOK /\ LeaveInv'
  BY NextNoReturn, Zenon DEF HeapInv, RingInv
<1>1. CASE kernel_main
  <2>1. current' = current /\ current = Main
    BY <1>0, <1>1, MainMoves, Zenon
  <2>2. NoReturn => InStep'
    BY <1>1, MainInStep, Zenon DEF SingleInv
  <2> QED BY <1>0, <2>1, <2>2, Zenon DEF SingleInv
<1>2. ASSUME NEW t \in Task, task_step(t)
      PROVE  SingleInv' /\ current' = current
  <2>1. current' = current /\ current = t
    BY <1>0, <1>2, TaskMoves, Zenon
  <2>2. CASE ~ NoReturn'
    BY <2>1, <2>2, Zenon DEF SingleInv
  <2>3. CASE NoReturn'
    <3>1. InStep' /\ (t # Child => UNCHANGED ring /\ pc'[Child] = pc[Child])
      BY <1>0, <1>2, <2>3, TaskInStep, Zenon DEF SingleInv
    <3>2. t # Child => Cut' = Cut
      BY <3>1, SameRing, Zenon DEF ring
    <3> QED BY <1>0, <2>1, <3>1, <3>2, Zenon DEF SingleInv
  <2> QED BY <2>2, <2>3, Zenon
<1>3. CASE timer_irq \/ keyboard_irq \/ sched_context_switch
  <2>1. CASE ~ NoReturn
    BY <1>0, <2>1, Zenon DEF SingleInv
  <2>2. CASE NoReturn
    <3>1. /\ InStep' /\ (pc'[Child] = "exited" /\ ~ Cut' => current' \in {Main, Child})
          /\ current' # current => current' = next[current] /\ pc[current'] # "exited"
      BY <1>3, <2>2, HandlerSingle, Zenon
    <3> QED BY <3>1, Zenon DEF SingleInv
  <2> QED BY <2>1, <2>2, Zenon
<1>4. CASE Stopped \/ UNCHANGED vars
  <2>1. (InStep => InStep') /\ UNCHANGED <<next, current, pc>>
    BY <1>4, KeyStep, Stutters, Zenon
  <2>2. Cut' = Cut
    BY <2>1, SameRing, Zenon
  <2> QED BY <1>0, <2>1, <2>2, Zenon DEF SingleInv
<1> QED BY <1>1, <1>2, <1>3, <1>4, Zenon DEF Next

LEMMA InitSingle == Init => SingleInv
<1> SUFFICES ASSUME Init PROVE SingleInv
  BY Zenon
<1>1. pc[Child] = "run" /\ InStep
  BY TaskFacts, Zenon DEF Init, InStep, SCHED_INIT
<1> QED BY <1>1, Zenon DEF SingleInv

LEMMA SingleInvariant ==
    ASSUME MaxNest = 1
    PROVE  Spec => [](HeapInv /\ SingleInv)
<1>1. HeapInv /\ HeapInv' /\ SingleInv /\ [Next]_vars => SingleInv'
  BY NextSingle, Zenon
<1> QED BY <1>1, InitSingle, HeapInvariant, PTL DEF Spec

\* When a timer handler has switched tasks before the next tick comes, the
\* position of the scheduler is a node that is allocated, in every state in
\* which no kernel task has returned (SchedHeadAllocated): a task that exits
\* has the position behind it, and the rest of the ring does not lead to it.
THEOREM PositionAllocated ==
    ASSUME MaxNest = 1
    PROVE  Spec => []SchedHeadAllocated
<1>1. HeapInv /\ SingleInv => SchedHeadAllocated
  <2> SUFFICES ASSUME HeapInv, SingleInv, SCHED_INIT, NoReturn PROVE tasks.sched_head \in nodes
    BY Zenon DEF SchedHeadAllocated
  <2>1. InStep
    BY Zenon DEF SingleInv
  <2>2. CASE pc[Child] \in {"run", "exited"}
    <3>1. PICK L : Closed(L)
      BY <2>2, ClosedExists, Zenon
    <3>2. \A t : Ahead(current, t) => t \in L
      BY <3>1, Zenon DEF Ahead, Closed
    <3> QED BY <2>1, <3>1, <3>2, Zenon DEF InStep, Holds, Closed
  <2>3. CASE pc[Child] \notin {"run", "exited"}
    <3>1. Departing /\ current = Child /\ irq[Child] = <<>>
      BY <2>3, Zenon DEF HeapInv, LeaveInv, SyscallInv, InSyscall
    <3>2. tasks.sched_head = Main
      BY <2>1, <3>1, OneFrame, TaskFacts, Zenon DEF InStep, Ahead, Departing
    <3> QED BY <3>1, <3>2, TaskFacts, Zenon DEF Departing
  <2> QED BY <2>2, <2>3, Zenon
<1> QED BY <1>1, SingleInvariant, PTL

\* Under the same condition the CPU goes from a task to its successor in the
\* ring, and never back to one that has exited (SwitchesInOrder).
THEOREM CpuGoesRound ==
    ASSUME MaxNest = 1
    PROVE  Spec => SwitchesInOrder
<1>1. HeapInv /\ HeapInv' /\ SingleInv /\ [Next]_vars =>
        (NoReturn /\ current' # current => current' = next[current] /\ pc[current'] # "exited")
  BY NextSingle, Zenon
<1> QED BY <1>1, SingleInvariant, PTL DEF Spec, SwitchesInOrder
-----------------------------------------------------------------------------
(* init and the ring, however deeply handlers are nested.  Ring is the     *)
(* least set with the head that follows next.  To show that a step keeps   *)
(* init in it, a set that follows the new successors is turned into one    *)
(* that follows the old ones, which has init; adding the child to the set, *)
(* or leaving out tasks that are not in the ring, does not concern init.   *)

LEMMA InitInRing == InitTask \in Ring <=> \A S \in SUBSET Task : Follows(S) => InitTask \in S
BY TaskFacts, Zenon DEF Ring

LEMMA InitInRingNext ==
    (InitTask \in Ring)' <=> \A S \in SUBSET Task : Follows(S)' => InitTask \in S
BY TaskFacts, Zenon DEF Ring

LEMMA RingSame ==
    ASSUME next' = next, tasks'.head = tasks.head, InitTask \in Ring
    PROVE  (InitTask \in Ring)'
<1>1. \A S : Follows(S)' => Follows(S)
  BY Zenon DEF Follows
<1> QED BY <1>1, InitInRing, InitInRingNext, Zenon

\* sched_add changes the successor of the new node, which is not in the ring yet,
\* and then that of the tail, which was the head.
LEMMA AddKeepsInit ==
    ASSUME Shape, Filling, pc[Main] # "init_sched", InitTask \in Ring,
           NEW c \in Task, NEW n \in Task, next' = [next EXCEPT ![c] = n],
           c \notin InRing \/ next[c] = Main, tasks'.head = tasks.head
    PROVE  (InitTask \in Ring)'
<1> SUFFICES ASSUME NEW S \in SUBSET Task, Follows(S)' PROVE InitTask \in S
  BY InitInRingNext, Zenon
<1>1. /\ InRing \subseteq Task /\ Main \in InRing /\ tasks.head = Main
      /\ \A t \in InRing : next[t] \in InRing
  BY RingFollows, Zenon
<1>2. next \in [Task -> Task \cup {None}]
  BY Zenon DEF Shape
<1>3. Main \in S /\ \A t \in S : next'[t] \in S \cup {None}
  BY <1>1, TaskFacts, Zenon DEF Follows
<1>4. ASSUME NEW t \in S \cap InRing PROVE next[t] \in S \cap InRing
  <2>1. CASE t = c
    BY <1>1, <1>3, <2>1, Zenon
  <2>2. CASE t # c
    <3>1. next'[t] = next[t]
      BY <1>1, <1>2, <2>2, Zenon
    <3>2. next[t] \in InRing /\ next[t] # None
      BY <1>1, TaskFacts, Zenon
    <3> QED BY <1>3, <3>1, <3>2, Zenon
  <2> QED BY <2>1, <2>2, Zenon
<1>5. Follows(S \cap InRing)
  BY <1>1, <1>3, <1>4, Zenon DEF Follows
<1> QED BY <1>5, InitInRing, Zenon

LEMMA MainKeepsInit ==
    ASSUME HeapInv, NoReturn, kernel_main, InitTask \in Ring
    PROVE  (InitTask \in Ring)'
<1>0. PcOK /\ LocalOK /\ All \in Nat /\ Main \in Task
  BY OrderFacts, TaskFacts, Zenon DEF HeapInv, RingInv
<1>1. ASSUME UNCHANGED <<next, tasks>> PROVE (InitTask \in Ring)'
  BY <1>1, RingSame, Zenon
<1>2. CASE init_sched
  <2>1. pc[Main] = "init_sched"
    BY <1>2, Zenon DEF init_sched, Runs
  <2>2. tasks.head = None
    BY <1>0, <2>1, ChildOnly, Zenon DEF HeapInv, RingInv, ChildInv, Filling
  <2>3. Follows({})
    BY <2>2, Zenon DEF Follows
  <2> QED BY <2>3, InitInRing, Zenon
<1>3. CASE sched_add_tail
  <2>1. next' = next /\ tasks' = [tasks EXCEPT !.tail = new_tasks]
    BY <1>3, Zenon DEF sched_add_tail
  <2>2. tasks'.head = tasks.head
    BY <1>0, <2>1 DEF LocalOK, Pointers
  <2> QED BY <2>1, <2>2, RingSame, Zenon
<1>4. ASSUME NEW at, NEW links, NEW to, StoreNext(Main, at, links, to), at \in {"fill_next", "link"}
      PROVE  /\ Shape /\ Filling /\ NewNode /\ pc[Main] = at /\ pc[Main] # "init_sched"
             /\ next' = links /\ tasks' = tasks
             /\ new_tasks \in Task /\ new_tasks \notin InRing
             /\ next[Order(added)] = Main /\ Order(added) \in Task
  <2>1. pc[Main] = at /\ next' = links /\ tasks' = tasks
    BY <1>0, <1>4, StoreNextStep, Zenon
  <2>2. pc[Main] \notin {"tail", "run", "init_sched"} /\ pc[Main] \in Filled
    BY <1>4, <2>1 DEF Filled
  <2>3. Shape /\ Filling /\ Linking /\ NewNode
    BY <1>0, <2>2, ChildOnly, Zenon DEF HeapInv, RingInv, ChildInv, Filling
  <2>4. /\ Linked = added /\ added \in 0 .. All /\ added + 1 \in 0 .. All
        /\ \A i \in 0 .. Linked : i \in 0 .. All /\ i # added + 1
    BY <1>0, <2>2, <2>3 DEF Shape, Linking, Linked
  <2>5. new_tasks = Order(added + 1) /\ next[Order(added)] = Main
    BY <2>2, <2>3, <2>4, Zenon DEF NewNode, Linking
  <2>6. new_tasks \in Task /\ new_tasks \notin InRing /\ Order(added) \in Task
    BY <2>4, <2>5, OrderIsOneToOne, Zenon DEF InRing
  <2> QED BY <2>1, <2>2, <2>3, <2>5, <2>6, Zenon
<1>5. CASE StoreNext(Main, "fill_next", [next EXCEPT ![new_tasks] = local[Main].reg], "link_tail")
  <2>1. /\ Shape /\ Filling /\ NewNode /\ pc[Main] = "fill_next" /\ pc[Main] # "init_sched"
        /\ next' = [next EXCEPT ![new_tasks] = local[Main].reg] /\ tasks' = tasks
        /\ new_tasks \in Task /\ new_tasks \notin InRing
    BY <1>4, <1>5, Zenon
  <2>2. local[Main].reg = Main
    BY <2>1, Zenon DEF NewNode
  <2> QED BY <1>0, <2>1, <2>2, AddKeepsInit, Zenon
<1>6. CASE StoreNext(Main, "link", LinkNew, "tail")
  <2>1. /\ Shape /\ Filling /\ NewNode /\ pc[Main] = "link" /\ pc[Main] # "init_sched"
        /\ next' = LinkNew /\ tasks' = tasks /\ new_tasks \in Task
        /\ next[Order(added)] = Main /\ Order(added) \in Task
    BY <1>4, <1>6, Zenon
  <2>2. next' = [next EXCEPT ![Order(added)] = new_tasks]
    BY <2>1, Zenon DEF LinkNew, NewNode
  <2> QED BY <2>1, <2>2, AddKeepsInit, Zenon
<1>7. CASE sched_add_kmalloc
  BY <1>1, <1>7, Zenon DEF sched_add_kmalloc
<1>8. CASE sched_add_fill \/ sched_add_link
  <2>1. ASSUME NEW at, NEW x, NEW to, Load(Main, at, x, to) PROVE (InitTask \in Ring)'
    BY <1>0, <1>1, <2>1, LoadStep, Zenon
  <2> QED BY <1>1, <1>5, <1>6, <1>8, <2>1, Zenon DEF sched_add_fill, sched_add_link
<1> QED BY <1>2, <1>3, <1>7, <1>8, Zenon DEF kernel_main, sched_add

\* Taking the child out of the ring leaves init where it is, unless the child
\* leaves as the tail.
LEMMA UnlinkKeepsInit ==
    ASSUME PcOK, LocalOK, Departing, Departing', sched_remove(Child), InitTask \in Ring,
           ~ (pc[Child] = "relink" /\ pc'[Child] = "kfree")
    PROVE  (InitTask \in Ring)'
<1>0. Child \in Task /\ tasks.head = Main /\ tasks'.head = Main
  BY TaskFacts, Zenon DEF Departing
<1>1. CASE next' = next
  BY <1>0, <1>1, RingSame, Zenon
<1>2. CASE StoreNext(Child, "unlink", [next EXCEPT ![local[Child].prev] = local[Child].reg],
                     "is_head")
  <2> SUFFICES ASSUME NEW S \in SUBSET Task, Follows(S)' PROVE InitTask \in S
    BY InitInRingNext, Zenon
  <2>1. pc[Child] = "unlink" /\ next' = [next EXCEPT ![local[Child].prev] = local[Child].reg]
    BY <1>0, <1>2, StoreNextStep, Zenon
  <2>2. local[Child].prev = InitTask /\ local[Child].reg = Main
    BY <2>1, Zenon DEF Departing, Stage
  <2>3. /\ next' = [next EXCEPT ![InitTask] = Main]
        /\ next[Child] = Main /\ next \in [Task -> Task \cup {None}]
    BY <2>1, <2>2, Zenon DEF Departing
  <2>4. Main \in S /\ \A t \in S : next'[t] \in S \cup {None}
    BY <1>0, TaskFacts, Zenon DEF Follows
  <2>5. (Follows(S \cup {Child}) /\ S \cup {Child} \in SUBSET Task) \/ InitTask \in S
    BY <1>0, <2>3, <2>4, TaskFacts, Zenon DEF Follows
  <2> QED BY <2>5, InitInRing, TaskFacts, Zenon
<1>3. ~ StoreNext(Child, "relink", [next EXCEPT ![local[Child].reg] = local[Child].val], "kfree")
  BY <1>0, StoreNextStep, Zenon
<1>4. ASSUME NEW at, NEW x, NEW to, Load(Child, at, x, to) PROVE next' = next
  BY <1>0, <1>4, LoadStep, Zenon
<1>5. ASSUME NEW at, NEW x, NEW to, StorePointer(Child, at, x, to) PROVE next' = next
  BY <1>0, <1>5, StorePointerStep, Zenon
<1>6. CASE remove_check(Child) \/ remove_search(Child) \/ remove_kfree(Child)
  BY <1>1, <1>4, <1>6, Zenon DEF remove_check, remove_search, remove_kfree
<1>7. CASE remove_tail(Child) \/ remove_unlink(Child)
  BY <1>1, <1>2, <1>3, <1>4, <1>5, <1>7, Zenon DEF remove_tail, remove_unlink
<1> QED BY <1>6, <1>7, Zenon DEF sched_remove

\* However deeply timer handlers are nested and wherever ticks fall, while no
\* kernel task returns nothing takes init out of the ring (InitStaysQueued)
\* but the one store of sched_remove that makes task 0 a ring of its own when
\* the child leaves as the tail: not sched_add, and not the child unlinked by
\* the search.
THEOREM InitTaskQueued == Spec => InitStaysQueued
<1>1. HeapInv /\ NoReturn => Named
  BY ChildOnly, Zenon DEF HeapInv, RingInv, ChildInv, Shape
<1>2. HeapInv' /\ NoReturn' => Named'
  BY <1>1, PTL
<1>3. HeapInv /\ HeapInv' /\ [Next]_vars =>
        (NoReturn /\ (InitTask \in Queued) /\ (InitTask \notin Queued)' =>
            pc[Child] = "relink" /\ pc'[Child] = "kfree")
  <2> SUFFICES ASSUME HeapInv, HeapInv', [Next]_vars, NoReturn, InitTask \in Queued,
                      ~ (pc[Child] = "relink" /\ pc'[Child] = "kfree")
               PROVE  (InitTask \in Queued)'
    BY Zenon
  <2>0. PcOK /\ LocalOK /\ Named /\ InitTask \in Ring
    <3>1. Named
      BY <1>1, Zenon
    <3>2. \A t \in Ring : task_of[t] = t
      BY <3>1, Zenon DEF Ring, Named
    <3> QED BY <3>1, <3>2, Zenon DEF HeapInv, RingInv, Queued
  <2>1. SUFFICES (InitTask \in Ring)' /\ task_of'[InitTask] = InitTask
    BY Zenon DEF Queued
  <2>2. ASSUME task_of' = task_of PROVE task_of'[InitTask] = InitTask
    BY <2>0, <2>2, TaskFacts, Zenon DEF Named
  <2>3. CASE kernel_main
    <3>1. NoReturn'
      <4>1. \A t \in Task \ {Main} : pc'[t] = pc[t]
        BY <2>0, <2>3, MainMoves, Zenon
      <4>2. Returning \subseteq Task \ {Main}
        BY SchedAssumption DEF Task, Main
      <4> QED BY <4>1, <4>2, Zenon DEF NoReturn
    <3>2. Named'
      BY <1>2, <3>1, Zenon
    <3>3. task_of'[InitTask] = InitTask
      BY <3>2, TaskFacts, Zenon DEF Named
    <3> QED BY <2>0, <2>3, <3>3, MainKeepsInit, Zenon
  <2>4. ASSUME NEW t \in Task, task_step(t)
        PROVE  (InitTask \in Ring)' /\ task_of'[InitTask] = InitTask
    <3>1. task_of' = task_of /\ t # Main
      BY <2>0, <2>4, TaskMoves, Zenon
    <3>2. CASE pc[t] \notin Removing
      <4>1. UNCHANGED ring
        BY <2>0, <2>4, <3>2, TaskCases, Zenon
      <4> QED BY <2>0, <2>2, <3>1, <4>1, RingSame, Zenon DEF ring
    <3>3. CASE pc[t] \in Removing
      <4>1. sched_remove(t) /\ t # InitTask
        BY <2>0, <2>4, <3>3, TaskCases, Zenon
      <4>2. pc[t] # "run"
        BY <3>3 DEF Removing
      <4>3. t = Child
        BY <2>0, <3>1, <4>1, <4>2, ChildOnly, Zenon
      <4>4. Departing
        BY <4>2, <4>3, Zenon DEF HeapInv, LeaveInv
      <4>5. Departing'
        BY <2>0, <4>1, <4>3, <4>4, ChildRemoves, Zenon
      <4> QED BY <2>0, <2>2, <3>1, <4>1, <4>3, <4>4, <4>5, UnlinkKeepsInit, Zenon
    <3> QED BY <3>2, <3>3, Zenon
  <2>5. CASE timer_irq \/ keyboard_irq \/ sched_context_switch \/ Stopped \/ UNCHANGED vars
    <3>1. next' = next /\ task_of' = task_of
          /\ (tasks' = tasks \/ tasks' = [tasks EXCEPT !.sched_head = Top.nxt])
      BY <2>5, IrqMoves, HandlerMoves, Stutters, Zenon
    <3>2. tasks'.head = tasks.head
      BY <2>0, <3>1 DEF LocalOK, Pointers
    <3> QED BY <2>0, <2>2, <3>1, <3>2, RingSame, Zenon
  <2> QED BY <2>3, <2>4, <2>5, Zenon DEF Next
<1> QED BY <1>3, HeapInvariant, PTL DEF Spec, InitStaysQueued
=============================================================================
