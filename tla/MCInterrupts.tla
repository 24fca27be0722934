---------------------------- MODULE MCInterrupts ----------------------------
(***************************************************************************)
(* Interrupts with task 0 and a task that may exit or raise an exception,  *)
(* on a machine with one more device, at line 5, which the firmware has    *)
(* left unmasked.  Handlers nest on the stack of task 1.                   *)
(***************************************************************************)
EXTENDS Interrupts

TaskOne == {1}
LineFive == {5}
TimerAndKeyboard == {PIC_IRQ0, PIC_IRQ1}
=============================================================================
