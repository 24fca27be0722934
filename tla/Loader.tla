------------------------------- MODULE Loader -------------------------------
(***************************************************************************)
(* Loading a program: elf_parse_header (elf/elf.c), elf_load and           *)
(* handle_loadable_segment (elf/loader.c), as init_create_user_task        *)
(* (init.c) calls them.                                                    *)
(*                                                                         *)
(* Memory is modelled byte by byte.  A byte of the ELF file is its offset; *)
(* a byte that comes from elsewhere is Other.  Only the first page of the  *)
(* file is mapped: the pages behind it belong to something else.  A        *)
(* virtual memory context is a function from the mapped pages to their     *)
(* frame and whether they can be written to; to map a page twice is a      *)
(* panic, and so is an access to a page without an allocation.             *)
(***************************************************************************)
EXTENDS Integers, Sequences

CONSTANTS PAGE_SIZE,
          Headers,      \* the ELF headers a file may have
          Programs,     \* its sequences of program headers
          USER_STACK_PAGE_COUNT,
          UserStackPage \* the lowest page of the user stack

Header ==
    [magic : STRING, class : STRING, data : STRING, osabi : STRING, type : STRING,
     machine : STRING]

\* No type is called END: Type means the end of the program headers by it.
ProgramHeader ==
    [type : STRING \ {"END"}, vaddr : Nat, offset : Nat, filesz : Nat, memsz : Nat,
     flags : SUBSET STRING]

ASSUME LoaderAssumption ==
    /\ PAGE_SIZE \in Nat \ {0}
    /\ Headers \subseteq Header /\ Programs \subseteq Seq(ProgramHeader)
    /\ USER_STACK_PAGE_COUNT \in Nat /\ UserStackPage \in Nat

\* Bytes that are not from the file.
Zero == -1
Other == -2

VARIABLES header,       \* the ELF header
          program,      \* the program headers
          step,         \* where init_create_user_task is
          n, i,         \* the program header and the page of its segment
          file_size,    \* bytes of the segment still to be copied
          kern, user,   \* the contexts of the kernel and of the new task
          memory        \* frame -> its bytes; frames are handed out in order

segment == <<n, i, file_size>>
vars == <<header, program, step, segment, kern, user, memory>>

Init ==
    /\ header \in Headers /\ program \in Programs
    /\ step = "parse"
    /\ n = 1 /\ i = 0 /\ file_size = 0
    /\ kern = << >> /\ user = << >> /\ memory = <<>>

\* ELF_IDENT_*, ELF_TYPE_EXEC, ELF_MACHINE_386: what a header must say.
Expected ==
    [magic |-> "ELF", class |-> "32", data |-> "LSB", osabi |-> "none", type |-> "exec",
     machine |-> "386"]

\* The order of the checks decides which error is reported.
Checks == <<"magic", "class", "data", "osabi", "type", "machine">>

\* The number of the first check that fails, or 0.
elf_parse_header(h) ==
    LET failing == {k \in 1 .. Len(Checks) : h[Checks[k]] # Expected[Checks[k]]}
    IN  IF failing = {} THEN 0 ELSE CHOOSE k \in failing : \A j \in failing : k <= j

parse ==
    /\ step = "parse"
    /\ step' = IF elf_parse_header(header) # 0 THEN "panic" ELSE "header"
    /\ UNCHANGED <<header, program, segment, kern, user, memory>>

\* elf_load looks at the next program header; a NULL entry ends it like the end
\* of the program headers.
Type == IF n <= Len(program) THEN program[n].type ELSE "END"

elf_load ==
    /\ step = "header"
    /\ \/ /\ Type \in {"END", "NULL"}
          /\ step' = "stack" /\ UNCHANGED segment
       \/ /\ Type = "LOAD"
          /\ i' = 0 /\ file_size' = program[n].filesz
          /\ step' = "page" /\ UNCHANGED n
       \/ /\ Type \notin {"END", "NULL", "LOAD"}
          /\ step' = "panic" /\ UNCHANGED segment
    /\ UNCHANGED <<header, program, kern, user, memory>>
-----------------------------------------------------------------------------
(* handle_loadable_segment: the segment program[n].                        *)

hdr == program[n]
virtual_addr == hdr.vaddr + i * PAGE_SIZE
page == virtual_addr \div PAGE_SIZE
paging_page_count(size) == (size + PAGE_SIZE - 1) \div PAGE_SIZE
Size(s) == IF s.filesz > s.memsz THEN s.filesz ELSE s.memsz
page_count == paging_page_count(Size(hdr))
frame == Len(memory)            \* the frame handed out last
elf_flags_to_paging_flags(flags) == "W" \in flags

Mapping(f) == [frame |-> f, write |-> elf_flags_to_paging_flags(hdr.flags)]

\* A context with more pages mapped.
WithPages(ctx, new) ==
    [p \in DOMAIN ctx \cup DOMAIN new |-> IF p \in DOMAIN new THEN new[p] ELSE ctx[p]]

\* All pages are loaded: back to elf_load.
next_segment ==
    /\ step = "page" /\ i >= page_count
    /\ n' = n + 1
    /\ step' = "header"
    /\ UNCHANGED <<header, program, i, file_size, kern, user, memory>>

\* pmm_alloc_page, and the mapping for the copy.  The frame holds what it held.
map_kernel ==
    /\ step = "page" /\ i < page_count
    /\ memory' = Append(memory, [b \in 0 .. PAGE_SIZE - 1 |-> Other])
    /\ IF page \in DOMAIN kern THEN step' = "panic" /\ UNCHANGED kern
       ELSE /\ kern' = WithPages(kern, [p \in {page} |-> Mapping(Len(memory'))])
            /\ step' = "copy"
    /\ UNCHANGED <<header, program, segment, user>>

\* Bytes that are in the page being loaded; only that page is mapped.
InPage(from, count) == count > 0 => from >= page * PAGE_SIZE /\ from + count <= (page + 1) * PAGE_SIZE
Offset(addr) == addr - page * PAGE_SIZE

\* raw_elf is one page; what comes behind it is not the file.
FileByte(k) == IF k < PAGE_SIZE THEN k ELSE Other

\* The frame after the bytes of val are stored at an address.
Stored(addr, val) ==
    [memory EXCEPT ![frame] =
        [b \in 0 .. PAGE_SIZE - 1 |->
            IF b - Offset(addr) \in DOMAIN val THEN val[b - Offset(addr)] ELSE @[b]]]

\* The whole rest of the segment is copied, not only what belongs to this page.
copy ==
    /\ step = "copy"
    /\ IF InPage(virtual_addr, file_size)
       THEN /\ memory' = Stored(virtual_addr, [b \in 0 .. file_size - 1 |->
                                                FileByte(hdr.offset + i * PAGE_SIZE + b)])
            /\ step' = "map_user"
       ELSE step' = "panic" /\ UNCHANGED memory
    /\ UNCHANGED <<header, program, segment, kern, user>>

\* Mutation: the task gets the frame of the page before.
PreviousFrame == Mapping(IF frame > 1 THEN frame - 1 ELSE 1)

UserMapping == Mapping(frame)

map_user ==
    /\ step = "map_user"
    /\ IF page \in DOMAIN user THEN step' = "panic" /\ UNCHANGED user
       ELSE user' = WithPages(user, [p \in {page} |-> UserMapping]) /\ step' = "zero"
    /\ UNCHANGED <<header, program, segment, kern, memory>>

\* Mutation: the data is cleared, too.
ZeroStart == virtual_addr

ZeroAddr == virtual_addr + file_size

\* Mutation: the size in memory is taken for the number of extra bytes.
AllZero == hdr.memsz

ZeroCount == hdr.memsz - hdr.filesz

\* In the page with the end of the data, all the extra bytes are cleared.
zero ==
    /\ step = "zero"
    /\ \/ /\ file_size >= PAGE_SIZE
          /\ file_size' = file_size - PAGE_SIZE
          /\ step' = "unmap" /\ UNCHANGED memory
       \/ /\ file_size < PAGE_SIZE /\ hdr.memsz <= hdr.filesz
          /\ step' = "unmap" /\ UNCHANGED <<file_size, memory>>
       \/ /\ file_size < PAGE_SIZE /\ hdr.memsz > hdr.filesz
          /\ IF InPage(ZeroAddr, ZeroCount)
             THEN /\ memory' = Stored(ZeroAddr, [b \in 0 .. ZeroCount - 1 |-> Zero])
                  /\ step' = "unmap"
             ELSE step' = "panic" /\ UNCHANGED memory
          /\ UNCHANGED file_size
    /\ UNCHANGED <<header, program, n, i, kern, user>>

\* vmm_unmap_pages and paging_unmap_addr.
unmap_kernel ==
    /\ step = "unmap"
    /\ kern' = [p \in DOMAIN kern \ {page} |-> kern[p]]
    /\ i' = i + 1
    /\ step' = "page"
    /\ UNCHANGED <<header, program, n, file_size, user, memory>>

handle_loadable_segment == next_segment \/ map_kernel \/ copy \/ map_user \/ zero \/ unmap_kernel

UserStack == UserStackPage .. UserStackPage + USER_STACK_PAGE_COUNT - 1

\* The user stack, page by page.
map_user_stack ==
    /\ step = "stack"
    /\ IF UserStack \cap DOMAIN user # {} THEN step' = "panic" /\ UNCHANGED <<user, memory>>
       ELSE /\ memory' = memory \o [k \in 1 .. USER_STACK_PAGE_COUNT |->
                                        [b \in 0 .. PAGE_SIZE - 1 |-> Other]]
            /\ user' = WithPages(user, [p \in UserStack |->
                                [frame |-> frame + 1 + p - UserStackPage, write |-> TRUE]])
            /\ step' = "loaded"
    /\ UNCHANGED <<header, program, segment, kern>>

Ended == step \in {"loaded", "panic"} /\ UNCHANGED vars

Next == parse \/ elf_load \/ handle_loadable_segment \/ map_user_stack \/ Ended

Spec == Init /\ [][Next]_vars
-----------------------------------------------------------------------------
(* Properties.                                                             *)

\* Which byte an address of the task shows.
UserByte(addr) == memory[user[addr \div PAGE_SIZE].frame][addr % PAGE_SIZE]

Loads(N) == {k \in N : program[k].type = "LOAD"}

\* The entries in front of the first NULL entry, and the segments among them.
Reached == {k \in DOMAIN program : \A j \in 1 .. k : program[j].type # "NULL"}
BeforeNull == Loads(Reached)

\* A segment is in the memory of the task: the bytes of the file, if they are
\* in the page of it that is mapped, then zeros; and it can be written to if and
\* only if the segment says so.
SegmentInMemory(s) ==
    \A b \in 0 .. Size(s) - 1 :
        /\ (s.vaddr + b) \div PAGE_SIZE \in DOMAIN user
        /\ UserByte(s.vaddr + b) = IF b < s.filesz THEN FileByte(s.offset + b) ELSE Zero
        /\ user[(s.vaddr + b) \div PAGE_SIZE].write = ("W" \in s.flags)

PagesOf(s) ==
    IF Size(s) = 0 THEN {}
    ELSE s.vaddr \div PAGE_SIZE .. (s.vaddr + Size(s) - 1) \div PAGE_SIZE

\* A load that comes to its end has loaded exactly the segments in front of the
\* first NULL entry, where elf_load returns, from a file with a correct header:
\* pages that were loaded later and clearing the extra bytes did not damage any,
\* and the task has no other pages than theirs and the stack's.
LoadedExactly ==
    step = "loaded" =>
        /\ header = Expected
        /\ \A k \in BeforeNull : SegmentInMemory(program[k])
        /\ \A p \in DOMAIN user \ UserStack : \E k \in BeforeNull : p \in PagesOf(program[k])

\* elf.h calls a NULL program header an ignored entry: a load that comes to its
\* end has loaded every segment, those behind a NULL entry included.
EverySegmentLoaded ==
    step = "loaded" => \A k \in Loads(DOMAIN program) : SegmentInMemory(program[k])

\* No two pages of the task share a frame, and nothing of the task stays mapped
\* in the kernel's context once it is loaded.
FramesPrivate ==
    /\ \A p, q \in DOMAIN user : p # q => user[p].frame # user[q].frame
    /\ step = "loaded" => DOMAIN kern = {}

\* Segments the loader can handle: they are in one page, or they have exactly
\* one page of data, at its start, and no more than one page of zeros.
Fits(s) ==
    \/ (s.vaddr % PAGE_SIZE) + Size(s) <= PAGE_SIZE
    \/ s.vaddr % PAGE_SIZE = 0 /\ s.filesz = PAGE_SIZE /\ s.memsz <= 2 * PAGE_SIZE

\* The loader panics only for a wrong header, for an entry in front of the first
\* NULL entry that is not LOAD, for a segment whose copy or zeros leave the page being loaded, and
\* for segments that share a page with each other or with the stack.
PanicExplained ==
    step = "panic" =>
        \/ header # Expected
        \/ \E k \in Reached : program[k].type # "LOAD"
        \/ \E k \in BeforeNull : ~ Fits(program[k]) \/ PagesOf(program[k]) \cap UserStack # {}
        \/ \E j, k \in BeforeNull :
            j # k /\ PagesOf(program[j]) \cap PagesOf(program[k]) # {}
=============================================================================
