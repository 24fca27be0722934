------------------------------- MODULE MCPmm -------------------------------
(***************************************************************************)
(* A machine of 8 frames of 4 bytes, whose bitmap has entries of 2 bits    *)
(* and whose shifts are modulo 4.  It has, in the proportions of the real  *)
(* machine (8 and 32 bits), all the cases pmm_mark_addr_free treats        *)
(* differently: frames 0 and 1 share the first entry, frame 4 is in the    *)
(* first entry of the second word, frame 7 in another entry of that word.  *)
(* These four are available; the others are the kernel's, the heap's, the  *)
(* framebuffer's and those of the memory map, one entry of which starts in *)
(* the middle of a frame as the PC's does at 0x9fc00.                      *)
(***************************************************************************)
EXTENDS Pmm

PcLayout ==
    [kernel |-> <<8, 12>>, heap |-> <<12, 16>>, fb |-> <<20, 23>>, mmap |-> {<<27, 28>>}]

\* An entry that ends inside the last frame below 4 GiB: pmm_init never ends.
RaggedLayout == [PcLayout EXCEPT !.mmap = @ \cup {<<28, 31>>}]

\* The memory map of a PC has an entry for the firmware that ends at 4 GiB: its
\* end is cut to 0 and it is not marked.
FirmwareLayout == [PcLayout EXCEPT !.mmap = @ \cup {<<28, 32>>}]

\* An entry that starts in the middle of frame 0 and ends before the middle of
\* frame 1: the second frame is not marked.
StraddlingLayout == [PcLayout EXCEPT !.mmap = @ \cup {<<2, 5>>}]

\* The framebuffer lies above 4 GiB: its address is cut to that of frame 4.
HighLayout == [PcLayout EXCEPT !.fb = <<32 + 16, 32 + 19>>]

PcLayouts == {PcLayout, RaggedLayout, FirmwareLayout, StraddlingLayout, HighLayout}
=============================================================================
