----------------------------- MODULE MCPaging -----------------------------
(***************************************************************************)
(* Regions of two pages: the low stack in pages 0 to 2, programs in 4, 5   *)
(* and 7, the user stack in 8, the kernel image in 10, and from 11 on what *)
(* the kernel maps anywhere, so that stacks and page directories keep      *)
(* crossing into regions that the directories copied before lack.          *)
(***************************************************************************)
EXTENDS Paging, TLC

ImagePages == {10}
\* init at pages 4 and 5, its child at page 5, which both have, and at page 7.
Overlapping == (1 :> {4, 5}) @@ (2 :> {5, 7})
\* Only the child may write to page 5.
Texts == (1 :> {5}) @@ (2 :> {})
===========================================================================
