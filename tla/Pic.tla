-------------------------------- MODULE Pic --------------------------------
(***************************************************************************)
(* The interrupt controller as drivers/pic.c drives it.  The two 8259A of  *)
(* a PC are one record:                                                    *)
(*   base   the vector of line 0 (PIC2_INT_OFFSET is PIC1_INT_OFFSET + 8,  *)
(*          so line n has vector base + n on both)                         *)
(*   mask   the lines that are masked                                      *)
(*   irr    the lines that request an interrupt (edges latched)            *)
(*   isr    the lines whose interrupt the CPU has taken and not ended      *)
(* A lower line has the higher priority among the lines used here.         *)
(***************************************************************************)
EXTENDS Integers

PIC1_INT_OFFSET == 32
PIC_IRQ0 == 0
PIC_IRQ1 == 1

\* The initialisation words reset the controller and forget the edges seen
\* so far; the masks are saved before and written back after.
pic_init(pic) == [base |-> PIC1_INT_OFFSET, mask |-> pic.mask, irr |-> {}, isr |-> {}]

pic_clear_mask(pic, irq) == [pic EXCEPT !.mask = @ \ {irq}]

\* The line that a non-specific end of interrupt ends.
InService(pic) == {l \in pic.isr : \A k \in pic.isr : l <= k}

\* The command does not name the line: irq only selects the chip.
pic_send_eoi(pic, irq) == [pic EXCEPT !.isr = @ \ InService(pic)]

\* The line for which the controller interrupts the CPU: the highest request
\* that is not masked, unless that line or a higher one is in service.
Pending(pic) ==
    {l \in pic.irr \ pic.mask :
        /\ \A k \in pic.irr \ pic.mask : l <= k
        /\ \A k \in pic.isr : l < k}

Request(pic, l) == [pic EXCEPT !.irr = @ \cup {l}]

Acknowledge(pic, l) ==
    [base |-> pic.base, mask |-> pic.mask, irr |-> pic.irr \ {l}, isr |-> pic.isr \cup {l}]
=============================================================================
