----------------------------- MODULE Multiboot -----------------------------
(***************************************************************************)
(* The boot information structure the loader leaves in memory, and the     *)
(* walks of kernel/arch/i386/multiboot2.c over it.  The structure is a     *)
(* function from the address of a tag to its header, [type, size]: what is *)
(* not in its domain is no tag, and a walk that arrives there is lost.     *)
(***************************************************************************)
EXTENDS Integers, Sequences, FiniteSets

END == 0                \* MULTIBOOT_TAG_TYPE_END
MODULE_TAG == 3         \* MULTIBOOT_TAG_TYPE_MODULE
MMAP == 6               \* MULTIBOOT_TAG_TYPE_MMAP
FRAMEBUFFER == 8        \* MULTIBOOT_TAG_TYPE_FRAMEBUFFER

NULL == 0
Lost == -1              \* where a walk that left the tags ends

TagAlign == 8           \* every tag begins at a multiple of it
FirstTag == 8           \* multiboot_info.addr + 8, with addr taken as 0

----------------------------------------------------------------------------

\* (size + 7) & ~7: the next tag begins at the next multiple of 8.
advance_tag(info, tag) ==
    tag + ((info[tag].size + TagAlign - 1) \div TagAlign) * TagAlign

\* The loop all the walks are made of: from `tag' to the first tag of one of
\* the types `stop'.
WalkTo(info, stop, tag) ==
    LET walk[a \in Int] ==
            IF a \notin DOMAIN info THEN Lost
            ELSE IF info[a].type \in stop THEN a
            ELSE walk[advance_tag(info, a)]
    IN  walk[tag]

\* A pointer to the tag a search stopped at, NULL if that is the last one.
Found(info, tag) == IF tag # Lost /\ info[tag].type = END THEN NULL ELSE tag

multiboot_framebuffer_info(info) ==
    Found(info, WalkTo(info, {FRAMEBUFFER, END}, FirstTag))

\* pmm_init looks for the memory map in the same way.
memory_map(info) == Found(info, WalkTo(info, {MMAP, END}, FirstTag))

\* multiboot_print_info visits every tag and stops at the last one.
multiboot_print_info(info) == WalkTo(info, {END}, FirstTag)

\* Mutation: *tag is left at the module that was found.
NotAdvanced(info, tag) ==
    LET at == WalkTo(info, {MODULE_TAG, END}, tag)
    IN  [module |-> Found(info, at), tag |-> at]

\* The module found from *tag on, and what *tag is afterwards.
multiboot_get_next_module(info, tag) ==
    LET at == WalkTo(info, {MODULE_TAG, END}, tag)
        module == Found(info, at)
    IN  [module |-> module,
         tag |-> IF module \in {NULL, Lost} THEN at ELSE advance_tag(info, at)]

----------------------------------------------------------------------------
\* What the loader writes: `tags' is its list of tags, without the last one.

\* The address of the i-th tag.
TagAt(tags, i) ==
    LET at[j \in 1 .. i] ==
            IF j = 1 THEN FirstTag
            ELSE LET after == at[j - 1] + tags[j - 1].size
                 IN  CHOOSE a \in after .. after + TagAlign - 1 : a % TagAlign = 0
    IN  at[i]

BootInfo(tags) ==
    LET all == Append(tags, [type |-> END, size |-> 8])
        place == [i \in 1 .. Len(all) |-> TagAt(all, i)]
    IN  [a \in {place[i] : i \in 1 .. Len(all)} |->
            all[CHOOSE i \in 1 .. Len(all) : place[i] = a]]

\* The addresses of the tags of a type, in the loader's order.
Tagged(tags, type) ==
    LET of == {i \in 1 .. Len(tags) : tags[i].type = type}
    IN  [n \in 1 .. Cardinality(of) |->
            TagAt(tags, CHOOSE i \in of : Cardinality({j \in of : j <= i}) = n)]
=============================================================================
