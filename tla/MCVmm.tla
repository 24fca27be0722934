------------------------------- MODULE MCVmm -------------------------------
(***************************************************************************)
(* An address space of 32 pages whose upper half starts at page 10.  Task  *)
(* stacks have 2 pages; the user stack ends two pages below the kernel's   *)
(* half.  The boot regions lie as in the linker script: the framebuffer at *)
(* the bottom of the half, a hole, the sections one after the other, a     *)
(* hole for kernel mappings, the heap, a hole.                             *)
(***************************************************************************)
EXTENDS Vmm

R(addr, count) == [addr |-> addr, count |-> count]
Regions == <<R(13, 1), R(14, 1), R(15, 1), R(16, 2), R(28, 2), R(10, 1)>>
Stack == <<7, 8>>

\* Segments anywhere above the first free page: neighbours, and the last page.
Segments == {3, 4, 5, 9}
=============================================================================
