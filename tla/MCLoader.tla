------------------------------ MODULE MCLoader ------------------------------
(***************************************************************************)
(* Pages of three bytes.  A file has one segment of any shape, in front of *)
(* or behind one of a few others, and perhaps another entry between them.  *)
(***************************************************************************)
EXTENDS Loader

Segment(vaddr, offset, filesz, memsz, flags) ==
    [type |-> "LOAD", vaddr |-> vaddr, offset |-> offset, filesz |-> filesz, memsz |-> memsz,
     flags |-> flags]
Entry(type) == [Segment(0, 0, 0, 0, {}) EXCEPT !.type = type]

AnySegment ==
    {Segment(vaddr, offset, filesz, memsz, {"W"}) :
        vaddr \in 3 .. 6, offset \in 0 .. 2, filesz \in 0 .. 4, memsz \in 0 .. 7}
FewSegments ==
    {Segment(vaddr, 1, 2, memsz, {"R"}) : vaddr \in {3, 6, 9, 12}, memsz \in 2 .. 3}

MCPrograms ==
    {<<s, t>> : s \in AnySegment, t \in FewSegments} \cup
    {<<t, s>> : s \in AnySegment, t \in FewSegments} \cup
    {<<s, Entry(type), t>> : s \in FewSegments, t \in FewSegments, type \in {"NULL", "NOTE"}}

OneWrong(field) == [Expected EXCEPT ![field] = "wrong"]
MCHeaders == {Expected, OneWrong("magic"), OneWrong("machine")}
=============================================================================
