---------------------------- MODULE Interrupts ----------------------------
(***************************************************************************)
(* Hardware interrupts and the keyboard: the interrupt table and the       *)
(* handlers of idt.c and handlers.c, the interrupt controller of pic.c,    *)
(* and the PS/2 driver of ps2.c with the controller and the keyboard       *)
(* behind it.                                                              *)
(*                                                                         *)
(* The gates of both hardware interrupts are trap gates, so a handler can  *)
(* be interrupted; a timer handler may also give the CPU to another task   *)
(* in the middle of a keyboard handler.  irq[t] is the stack of handlers   *)
(* on the kernel stack of task t.  How the ring of tasks changes is the    *)
(* subject of Sched; here it is the set `ready', walked in turn.           *)
(***************************************************************************)
EXTENDS Pic, Sequences

CONSTANTS Tasks,            \* how many tasks the ring has, task 0 included
          Leaving,          \* tasks that exit or return
          Faulting,         \* user tasks that raise an exception
          OtherLines,       \* lines beside timer and keyboard with a device
          FirmwareMask,     \* the lines that the firmware has masked
          SelfTestResets,   \* the self-test may reset the configuration
          PS2_SCANCODE_QUEUE_SIZE,
          MaxKeys,          \* bound: keys pressed
          MaxNest,          \* bound: handlers active on one stack
          Nesting           \* bound: the tasks on whose stacks handlers nest

Task == 0 .. Tasks - 1
Main == 0
NoLine == -1
Lines == {PIC_IRQ0, PIC_IRQ1} \cup OtherLines

ASSUME InterruptsAssumption ==
    /\ Tasks \in Nat \ {0}
    /\ Leaving \subseteq Task \ {Main}
    /\ Faulting \subseteq Task \ {Main}
    /\ OtherLines \subseteq 2 .. 15
    /\ FirmwareMask \subseteq Lines
    /\ SelfTestResets \in BOOLEAN
    /\ PS2_SCANCODE_QUEUE_SIZE \in Nat \ {0}
    /\ MaxKeys \in 0 .. 253
    /\ MaxNest \in Nat \ {0}
    /\ Nesting \subseteq Task

\* The bytes the driver can read: a key is its number, the answer to a
\* self-test is 0 (the driver only prints which), and the keyboard's request to
\* send again.
SELF_TEST_ANSWER == 0
PS2_PORT1_RESEND == 254
IsKey(b) == b \in 1 .. MaxKeys

\* The exceptions that idt_init gives a handler of handlers.c that panics; 14,
\* the page fault, is the subject of Paging.
ExceptionVectors == (0 .. 13) \cup (16 .. 21)

\* The handler behind each vector, as idt_init fills the table.
Gate(v) ==
    CASE v \in ExceptionVectors -> "exception_handler"
      [] v = 14 -> "page_fault_exception_handler"
      [] v = 32 -> "timer_irq_handler"
      [] v = 33 -> "keyboard_irq_handler"
      [] v = 80 -> "syscall_interrupt_handler"
      [] v \in {15} \cup (22 .. 31) -> "none"
      [] OTHER -> "default_exception_handler"

VARIABLES pic,          \* the interrupt controller
          iflag,        \* interrupts are enabled (after sti in idt_init)
          irq,          \* task -> its active handlers, the innermost last
          current,      \* the task that has the CPU
          ready,        \* the tasks in the scheduler's ring
          sched_init,   \* SCHED_INIT
          halted,       \* the CPU has stopped in panic
          ps2,          \* the PS/2 controller: output buffer, input buffer,
                        \* configuration, whether it waits for a configuration
          kbd,          \* bytes the keyboard has not yet passed on
          pressed,      \* how many keys have been pressed
          queue,        \* scancode_queue_ctx
          pc,           \* where task 0 is
          config,       \* its variable ps2_controller_config
          recent,       \* history: the last bytes stored since the queue's init
          seen,         \* history: the keys stored, or read by task 0
          stolen        \* history: task 0 has taken the byte of an interrupt
                        \* that is still to come

cpu     == <<irq, current, ready, sched_init, halted>>
history == <<recent, seen, stolen>>
driver  == <<queue, history>>
main    == <<pc, config>>
device  == <<ps2, kbd, pressed>>
vars    == <<pic, iflag, cpu, driver, main, device>>

\* The flags of the controller's configuration that matter for the keyboard;
\* "clock1" switches its port off.
ConfigFlags == {"int1", "clock1", "translation"}
FirmwareConfig == {"int1", "translation"}

\* The firmware has left the controllers configured for itself, and a key may
\* have been pressed.
Init ==
    /\ pic = [base |-> 8, mask |-> FirmwareMask, irr |-> {}, isr |-> {}]
    /\ iflag = FALSE
    /\ irq = [t \in Task |-> <<>>]
    /\ current = Main
    /\ ready = {Main}
    /\ sched_init = FALSE
    /\ halted = FALSE
    /\ pressed \in {0, 1} \cap (0 .. MaxKeys)
    /\ ps2 = [full |-> pressed = 1, latch |-> pressed, inbuf |-> <<>>,
              conf |-> FirmwareConfig, expect |-> FALSE]
    /\ kbd = <<>>
    /\ queue = [start |-> 0, end |-> 0, buf |-> [i \in 0 .. PS2_SCANCODE_QUEUE_SIZE - 1 |-> 0]]
    /\ pc = "idt_init"
    /\ config = {}
    /\ recent = <<>> /\ seen = {} /\ stolen = FALSE
-----------------------------------------------------------------------------
(* The PS/2 controller and the keyboard.  The bytes for the CPU pass one   *)
(* at a time through the output buffer, those from it through the input    *)
(* buffer.                                                                 *)

\* The keyboard's interrupt line.
Line(p) == p.full /\ "int1" \in p.conf

Ps2Becomes(p) ==
    /\ ps2' = p
    /\ pic' = IF Line(p) /\ ~ Line(ps2) THEN Request(pic, PIC_IRQ1) ELSE pic

\* inb(PS2_DATA) gives the latch, whether or not a new byte is in it.
Taken == [ps2 EXCEPT !.full = FALSE]

KeyIn(p) == IF p.full /\ IsKey(p.latch) THEN {p.latch} ELSE {}

Filled(p, b) == [[p EXCEPT !.full = TRUE] EXCEPT !.latch = b]

Answered == Filled([ps2 EXCEPT !.inbuf = <<>>], SELF_TEST_ANSWER)
Answers == {"self_test", "port1_self_test"}

\* What may become of the controller when it executes a command.
Executed(cmd) ==
    LET done == [ps2 EXCEPT !.inbuf = <<>>] IN
    CASE cmd = "disable_port1" -> {[done EXCEPT !.conf = @ \cup {"clock1"}]}
      [] cmd = "enable_port1" -> {[done EXCEPT !.conf = @ \ {"clock1"}]}
      [] cmd = "write_config" -> {[done EXCEPT !.expect = TRUE]}
      [] cmd \in {"disable_port2", "enable_port2"} -> {done}
      [] cmd = "self_test" ->
            {[Answered EXCEPT !.conf = c] :
                c \in {ps2.conf} \cup IF SelfTestResets THEN {{"clock1"}} ELSE {}}
      [] cmd = "port1_self_test" -> {Answered}

\* The controller executes the command in its input buffer.
controller_cmd ==
    /\ ps2.inbuf # <<>> /\ ps2.inbuf[1] = "cmd"
    /\ ps2.inbuf[2] \in Answers => ~ ps2.full
    /\ \E p \in Executed(ps2.inbuf[2]) : Ps2Becomes(p)
    /\ UNCHANGED <<iflag, cpu, driver, main, kbd, pressed>>

\* A data byte is the configuration if one is expected.  Otherwise it goes to
\* the keyboard, which may switch its port on; the keyboard does not know it as
\* a command and asks for it again.
controller_data ==
    /\ ps2.inbuf # <<>> /\ ps2.inbuf[1] = "data"
    /\ LET done == [ps2 EXCEPT !.inbuf = <<>>] IN
        IF ps2.expect
        THEN /\ Ps2Becomes([[done EXCEPT !.conf = ps2.inbuf[2]] EXCEPT !.expect = FALSE])
             /\ UNCHANGED kbd
        ELSE /\ \E c \in {ps2.conf, ps2.conf \ {"clock1"}} : Ps2Becomes([done EXCEPT !.conf = c])
             /\ kbd' = Append(kbd, PS2_PORT1_RESEND)
    /\ UNCHANGED <<iflag, cpu, driver, main, pressed>>

\* A byte of the keyboard reaches the output buffer.
controller_receive ==
    /\ kbd # <<>>
    /\ ~ ps2.full
    /\ "clock1" \notin ps2.conf
    /\ Ps2Becomes(Filled(ps2, Head(kbd)))
    /\ kbd' = Tail(kbd)
    /\ UNCHANGED <<iflag, cpu, driver, main, pressed>>

controller == ~ halted /\ (controller_cmd \/ controller_data \/ controller_receive)

key_press ==
    /\ ~ halted
    /\ pressed < MaxKeys
    /\ pressed' = pressed + 1
    /\ kbd' = Append(kbd, pressed + 1)
    /\ UNCHANGED <<pic, iflag, cpu, driver, main, ps2>>
-----------------------------------------------------------------------------
(* Task 0: idt_init, then ps2_init_devices, then the scheduler.            *)

Runs(t) == ~ halted /\ current = t /\ irq[t] = <<>>

MainAt(at) == Runs(Main) /\ pc = at

\* The table is filled, the controller set up, and interrupts enabled.
idt_init ==
    /\ MainAt("idt_init")
    /\ pic' = pic_clear_mask(pic_clear_mask(pic_init(pic), PIC_IRQ0), PIC_IRQ1)
    /\ iflag' = TRUE
    /\ pc' = "init_queue"
    /\ UNCHANGED <<cpu, driver, config, device>>

init_scancode_queue ==
    /\ MainAt("init_queue")
    /\ queue' = [start |-> 0, end |-> 0, buf |-> queue.buf]
    /\ recent' = <<>>
    /\ pc' = "disable_port1"
    /\ UNCHANGED <<pic, iflag, cpu, config, device, seen, stolen>>

\* Mutation: the driver waits for the output buffer.
OutputBufferEmpty == ~ ps2.full

ps2_controller_wait_ready_for_cmd == ps2.inbuf = <<>>

\* The driver spins until the input buffer is free, then writes the command.
ps2_controller_send_cmd(at, cmd, to) ==
    /\ MainAt(at)
    /\ ps2_controller_wait_ready_for_cmd
    /\ ps2' = [ps2 EXCEPT !.inbuf = <<"cmd", cmd>>]
    /\ pc' = to
    /\ UNCHANGED <<pic, iflag, cpu, driver, config, kbd, pressed>>

\* Written without waiting: what is still in the input buffer is lost.
OutbData(at, to) ==
    /\ MainAt(at)
    /\ ps2' = [ps2 EXCEPT !.inbuf = <<"data", config>>]
    /\ pc' = to
    /\ UNCHANGED <<pic, iflag, cpu, driver, config, kbd, pressed>>

InbData(at, to) ==
    /\ MainAt(at)
    /\ ps2' = Taken
    /\ seen' = seen \cup KeyIn(ps2)
    /\ stolen' = (stolen \/ Line(ps2))
    /\ pc' = to
    /\ UNCHANGED <<pic, iflag, cpu, queue, recent, config, kbd, pressed>>

flush_test ==
    /\ MainAt("flush")
    /\ pc' = IF ps2.full THEN "flush_read" ELSE "read_config"
    /\ UNCHANGED <<pic, iflag, cpu, driver, config, device>>

ps2_flush_controller_output_buffer == flush_test \/ InbData("flush_read", "flush")

\* The byte is read from port 0x20, the interrupt controller's request
\* register, not from the PS/2 controller; its bits are those of int1, which is
\* set, clock1, which is set, translation, which is cleared, and of flags that
\* do not concern the keyboard.
configure_read ==
    /\ MainAt("read_config")
    /\ config' = {"int1", "clock1"}
    /\ pc' = "config_cmd"
    /\ UNCHANGED <<pic, iflag, cpu, driver, device>>

ps2_controller_configure ==
    \/ configure_read
    \/ ps2_controller_send_cmd("config_cmd", "write_config", "config_data")
    \/ OutbData("config_data", "self_test")

ps2_controller_self_test ==
    \/ ps2_controller_send_cmd("self_test", "self_test", "self_test_read")
    \/ InbData("self_test_read", "restore")
    \/ OutbData("restore", "port_test")

\* The first answer is dropped; as long as the next is a request to send
\* again, the test is repeated.
ps2_interface_self_test ==
    \/ ps2_controller_send_cmd("port_test", "port1_self_test", "port_skip")
    \/ InbData("port_skip", "port_read")
    \/ InbData("port_read", IF ps2.latch = PS2_PORT1_RESEND THEN "port_again" ELSE "enable_port1")
    \/ ps2_controller_send_cmd("port_again", "port1_self_test", "port_read")

ps2_init_devices ==
    \/ init_scancode_queue
    \/ ps2_controller_send_cmd("disable_port1", "disable_port1", "disable_port2")
    \/ ps2_controller_send_cmd("disable_port2", "disable_port2", "flush")
    \/ ps2_flush_controller_output_buffer
    \/ ps2_controller_configure
    \/ ps2_controller_self_test
    \/ ps2_interface_self_test
    \/ ps2_controller_send_cmd("enable_port1", "enable_port1", "enable_port2")
    \/ ps2_controller_send_cmd("enable_port2", "enable_port2", "init_sched")

\* The rest of kernel_main, up to the last sched_add.
start_tasks ==
    /\ MainAt("init_sched")
    /\ sched_init' = TRUE
    /\ ready' = Task
    /\ pc' = "run"
    /\ config' = {}
    /\ UNCHANGED <<pic, iflag, irq, current, halted, driver, device>>

main_step == idt_init \/ ps2_init_devices \/ start_tasks
-----------------------------------------------------------------------------
(* Tasks.                                                                  *)

\* exit, or the return of the task's function.  The task keeps the CPU until
\* the next tick.
leave(t) ==
    /\ Runs(t)
    /\ t \in Leaving \cap ready
    /\ ready' = ready \ {t}
    /\ UNCHANGED <<pic, iflag, irq, current, sched_init, halted, driver, main, device>>

Frame(line, at) == [line |-> line, at |-> at, code |-> 0]

\* A program raises an exception: the handler of handlers.c calls panic, which
\* prints with interrupts enabled before it disables them.
exception_handler(t) ==
    /\ Runs(t)
    /\ t \in Faulting
    /\ irq' = [irq EXCEPT ![t] = Append(@, Frame(NoLine, "panic"))]
    /\ UNCHANGED <<pic, iflag, current, ready, sched_init, halted, driver, main, device>>
-----------------------------------------------------------------------------
(* Interrupts.                                                             *)

\* The CPU takes an interrupt: the handler starts on the current stack, or, if
\* it is the default one, panics with interrupts disabled.
Enter(l) ==
    /\ ~ halted /\ iflag
    /\ Len(irq[current]) < MaxNest
    /\ irq[current] = <<>> \/ current \in Nesting
    /\ LET handler == Gate(pic.base + l) IN
        /\ irq' = [irq EXCEPT ![current] = Append(@, Frame(l,
                     CASE handler = "timer_irq_handler" -> "timer_eoi"
                       [] handler = "keyboard_irq_handler" -> "read"
                       [] OTHER -> "panic"))]
        /\ halted' = (handler = "default_exception_handler")
    /\ UNCHANGED <<iflag, current, ready, sched_init, driver, main, device>>

\* A tick.  A request that finds the timer's interrupt in service waits, and is
\* no different from one that comes later.
tick ==
    /\ pic' = Acknowledge(Request(pic, PIC_IRQ0), PIC_IRQ0)
    /\ PIC_IRQ0 \in Pending(Request(pic, PIC_IRQ0))
    /\ Enter(PIC_IRQ0)

keyboard_irq ==
    /\ PIC_IRQ1 \in Pending(pic)
    /\ pic' = Acknowledge(pic, PIC_IRQ1)
    /\ Enter(PIC_IRQ1)

\* A device at another line requests an interrupt that is not masked.
other_irq(l) ==
    /\ l \in Pending(Request(pic, l))
    /\ pic' = Acknowledge(Request(pic, l), l)
    /\ Enter(l)

\* The innermost handler of a stack, and the stack under it.
TopOf(s) == s[Len(s)]
Under(s) == SubSeq(s, 1, Len(s) - 1)

Top(t) == TopOf(irq[t])
HandlerAt(t, at) == ~ halted /\ current = t /\ irq[t] # <<>> /\ Top(t).at = at
Popped(t) == [irq EXCEPT ![t] = Under(@)]
Replaced(t, frame) == [irq EXCEPT ![t] = Append(Under(@), frame)]
To(t, at) == Replaced(t, [Top(t) EXCEPT !.at = at])

\* Mutation: the interrupt is only ended when no switch follows.
EoiNotBeforeSwitch(t) ==
    /\ HandlerAt(t, "timer_eoi")
    /\ pic' = IF sched_init THEN pic ELSE pic_send_eoi(pic, PIC_IRQ0)
    /\ irq' = IF sched_init THEN To(t, "switch") ELSE Popped(t)
    /\ UNCHANGED <<iflag, current, ready, sched_init, halted, driver, main, device>>

\* timer_irq_handler ends the interrupt first, and returns if the scheduler
\* does not run yet.
timer_eoi(t) ==
    /\ HandlerAt(t, "timer_eoi")
    /\ pic' = pic_send_eoi(pic, PIC_IRQ0)
    /\ irq' = IF sched_init THEN To(t, "switch") ELSE Popped(t)
    /\ UNCHANGED <<iflag, current, ready, sched_init, halted, driver, main, device>>

\* The task behind t in the ring.
Successor(t) ==
    LET distance(u) == (u - t - 1) % Tasks
    IN  {u \in ready : \A v \in ready : distance(u) <= distance(v)}

\* sched_context_switch.  The handler of t returns when t gets the CPU back.
timer_switch(t) ==
    /\ HandlerAt(t, "switch")
    /\ irq' = Popped(t)
    /\ current' \in Successor(t)
    /\ UNCHANGED <<pic, iflag, ready, sched_init, halted, driver, main, device>>

\* Mutation: the interrupt is ended before the scan code is read.
EoiBeforeRead(t) ==
    /\ HandlerAt(t, "read")
    /\ pic' = pic_send_eoi(pic, PIC_IRQ1)
    /\ irq' = Replaced(t, [line |-> Top(t).line, at |-> "store", code |-> ps2.latch])
    /\ ps2' = Taken
    /\ stolen' = (stolen /\ ps2.full /\ PIC_IRQ1 \in pic.irr)
    /\ UNCHANGED <<iflag, current, ready, sched_init, halted, queue, recent, seen, main, kbd,
                   pressed>>

keyboard_read(t) ==
    /\ HandlerAt(t, "read")
    /\ irq' = Replaced(t, [line |-> Top(t).line, at |-> "store", code |-> ps2.latch])
    /\ ps2' = Taken
    /\ stolen' = (stolen /\ ps2.full /\ PIC_IRQ1 \in pic.irr)
    /\ UNCHANGED <<pic, iflag, current, ready, sched_init, halted, queue, recent, seen, main, kbd,
                   pressed>>

Recent(b) ==
    LET all == Append(recent, b)
    IN  IF Len(all) > PS2_SCANCODE_QUEUE_SIZE THEN Tail(all) ELSE all

Store(t, code) ==
    /\ HandlerAt(t, "store")
    /\ queue' = [queue EXCEPT !.buf[queue.end] = code]
    /\ recent' = Recent(code)
    /\ seen' = seen \cup ({code} \cap 1 .. MaxKeys)
    /\ irq' = To(t, "advance")
    /\ UNCHANGED <<pic, iflag, current, ready, sched_init, halted, stolen, main, device>>

\* Mutation: the port is read again for the byte to store.
StoreReread(t) == Store(t, ps2.latch)

keyboard_store(t) == Store(t, Top(t).code)

keyboard_advance(t) ==
    /\ HandlerAt(t, "advance")
    /\ queue' = [queue EXCEPT !.end = (@ + 1) % PS2_SCANCODE_QUEUE_SIZE]
    /\ irq' = To(t, "eoi")
    /\ UNCHANGED <<pic, iflag, current, ready, sched_init, halted, history, main, device>>

\* Mutation: the handler returns without ending the interrupt.
ReturnWithoutEoi(t) ==
    /\ HandlerAt(t, "eoi")
    /\ irq' = Popped(t)
    /\ UNCHANGED <<pic, iflag, current, ready, sched_init, halted, driver, main, device>>

\* After printing the queue the handler ends the interrupt and returns.
keyboard_eoi(t) ==
    /\ HandlerAt(t, "eoi")
    /\ pic' = pic_send_eoi(pic, PIC_IRQ1)
    /\ irq' = Popped(t)
    /\ UNCHANGED <<iflag, current, ready, sched_init, halted, driver, main, device>>

ps2_handle_irq1(t) == keyboard_read(t) \/ keyboard_store(t) \/ keyboard_advance(t) \/ keyboard_eoi(t)

timer_irq_handler(t) == timer_eoi(t) \/ timer_switch(t)

\* Mutation: panic returns to the program.
PanicReturns(t) ==
    /\ HandlerAt(t, "panic")
    /\ irq' = Popped(t)
    /\ UNCHANGED <<pic, iflag, current, ready, sched_init, halted, driver, main, device>>

\* panic disables interrupts and halts.
panic(t) ==
    /\ HandlerAt(t, "panic")
    /\ halted' = TRUE
    /\ UNCHANGED <<pic, iflag, irq, current, ready, sched_init, driver, main, device>>

handler_step(t) == timer_irq_handler(t) \/ ps2_handle_irq1(t) \/ panic(t)

Stopped == halted /\ UNCHANGED vars

Next ==
    \/ main_step
    \/ controller \/ key_press
    \/ tick \/ keyboard_irq \/ \E l \in OtherLines : other_irq(l)
    \/ \E t \in Task : leave(t) \/ exception_handler(t) \/ handler_step(t)
    \/ Stopped

\* What task t executes when it has the CPU, beside the timer's handler.
task_step(t) == (t = Main /\ main_step) \/ ps2_handle_irq1(t) \/ panic(t)

\* The devices react, the timer never stops, and a request stays latched until
\* the CPU takes it.  A tick comes late enough for what it interrupts to execute
\* instructions in between, so a task that gets the CPU again and again makes
\* progress.
Fairness ==
    /\ WF_vars(controller)
    /\ WF_vars(tick)
    /\ SF_vars(keyboard_irq)
    /\ WF_vars(\E t \in Task : timer_irq_handler(t))
    /\ \A t \in Task : SF_vars(task_step(t))

Spec == Init /\ [][Next]_vars /\ Fairness
-----------------------------------------------------------------------------
(* Properties.                                                             *)

\* The handlers that have not ended their interrupt yet, over all stacks.
Unended(l) ==
    {h \in Task \X (1 .. MaxNest) :
        /\ h[2] <= Len(irq[h[1]])
        /\ irq[h[1]][h[2]].line = l /\ irq[h[1]][h[2]].at # "switch"}

\* The end of interrupt that a handler sends, which does not say for which
\* line, ends that handler's own interrupt: however handlers are nested and
\* whichever tasks they sit on, a line is in service exactly while one handler
\* for it is active.
InServiceHeld ==
    ~ halted => \A l \in Lines :
        /\ (l \in pic.isr) <=> (Unended(l) # {})
        /\ \A a, b \in Unended(l) : a = b

\* A handler has stored its byte and not yet advanced the end of the queue.
Advancing == \E t \in Task : \E i \in DOMAIN irq[t] : irq[t][i].at = "advance"

\* Read backwards from its end, the queue holds the last bytes stored, although
\* it is filled by handlers that are preempted half way and run on several
\* stacks.
QueueHoldsLatest ==
    /\ queue.end \in DOMAIN queue.buf
    /\ \A i \in 0 .. Len(recent) - 1 :
        queue.buf[(queue.end - (IF Advancing THEN 0 ELSE 1) - i) % PS2_SCANCODE_QUEUE_SIZE]
            = recent[Len(recent) - i]

\* The initialisation and the handler read the same port.  Still no key is lost
\* on the way from the keyboard to the queue or to the initialisation, and the
\* handler finds an old byte in the port only for an interrupt whose byte the
\* initialisation has taken.
KeysAccounted ==
    /\ \A k \in 1 .. pressed :
        \/ k \in seen \cup KeyIn(ps2)
        \/ \E i \in DOMAIN kbd : kbd[i] = k
        \/ \E t \in Task : \E i \in DOMAIN irq[t] : irq[t][i].at = "store" /\ irq[t][i].code = k
    /\ \A t \in Task : HandlerAt(t, "read") /\ ~ ps2.full => stolen

\* A keyboard handler sits on the stack of a task that has left the ring and
\* been switched away, and never comes to its end of interrupt.
HandlerStranded ==
    \E t \in Task \ (ready \cup {current}) : \E i \in DOMAIN irq[t] : irq[t][i].line = PIC_IRQ1

\* Once the tasks run, and while the controller is configured for interrupts, a
\* byte never stays in its output buffer for good, however the handlers of
\* ps2.c and idt.c are preempted, unless a task has left the ring and been
\* switched away in the middle of a keyboard handler: then the keyboard is dead.
KeysRead ==
    []<>(ps2.full /\ pc = "run" /\ "int1" \in ps2.conf => HandlerStranded \/ halted)

\* ps2_init_devices comes to its end, although it spins on the controller
\* without a limit, and although keys pressed meanwhile and the keyboard handler
\* take part in what it polls: the handler may take the answers it waits for.
InitCompletes == []<>(pc = "run" \/ halted)

\* Task t is in the panic of an exception handler.
Panicking(t) == \E i \in DOMAIN irq[t] : irq[t][i].at = "panic"

\* An exception stops the machine, although panic prints with interrupts enabled
\* and other tasks run on meanwhile, unless the task has left the ring: panic
\* never returns, and comes to its end.
PanicStops ==
    /\ [][\A t \in Faulting : Panicking(t) => Panicking(t)']_vars
    /\ \A t \in Faulting :
        []<>(Panicking(t) => halted \/ (sched_init /\ t \notin ready))
=============================================================================
