------------------------------- MODULE MCBoot -------------------------------
(***************************************************************************)
(* Boot with the tag lists that matter to the walks: tags of every kind    *)
(* kernel_main looks for, missing ones, sizes with and without padding.    *)
(***************************************************************************)
EXTENDS Boot

Tag(type, size) == [type |-> type, size |-> size]
ModuleTag(size) == Tag(MODULE_TAG, size)
Console == Tag(FRAMEBUFFER, 31)
Memory == Tag(MMAP, 40)
Name == Tag(2, 13)

TagLists ==
    {<<ModuleTag(23), Name, ModuleTag(16), ModuleTag(17), Console, Memory>>,
     <<Console, ModuleTag(18), Memory>>,
     <<Console, Memory, Name>>,
     <<ModuleTag(17), ModuleTag(17), Memory>>,
     <<ModuleTag(17), ModuleTag(17), Console>>,
     <<>>}

MCTssAddress == <<49169, 41824>>

MCLoaders == {[magic |-> TRUE, tags |-> t] : t \in TagLists}
             \union {[magic |-> FALSE, tags |-> <<>>]}
=============================================================================
