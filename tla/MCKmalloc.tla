----------------------------- MODULE MCKmalloc -----------------------------
(***************************************************************************)
(* A heap of 14 bytes with 2-byte headers and three request sizes: large   *)
(* enough for four regions at once, for exact fits and splits behind       *)
(* regions that do not fit, and for requests that fail although enough     *)
(* bytes are free in total.                                                *)
(***************************************************************************)
EXTENDS Kmalloc
=============================================================================
