-------------------------------- MODULE Gdt --------------------------------
(***************************************************************************)
(* The segment descriptors of kernel/arch/i386/gdt.c, byte by byte, and    *)
(* what the CPU reads out of them.  A 32-bit value is the pair of its      *)
(* 16-bit halves, <<high, low>>.                                           *)
(***************************************************************************)
EXTENDS Integers, Sequences

GDT_KERNEL_CODE_SEGMENT == 8
GDT_KERNEL_DATA_SEGMENT == 16
GDT_USER_CODE_SEGMENT == 24
GDT_USER_DATA_SEGMENT == 32
GDT_TASK_STATE_SEGMENT == 40

GDT_GRANULARITY_FLAG == 8
GDT_DB_FLAG == 4
GDT_SEGMENT_PRESENT_FLAG == 128
GDT_CODE_OR_DATA_DESCRIPTOR_FLAG == 16
GDT_DPL3_FLAG == 96
GDT_CODE_EXECUTE_READ_SEG_TYPE == 10
GDT_CODE_EXECUTE_ONLY_ACCESSED == 9
GDT_DATA_READ_WRITE_SEG_TYPE == 2

TssSize == 108          \* sizeof(task_state_segment_t)

\* Mutation: the flags are not moved above the bits of the limit.
FlagsNotShifted(base, limit, access_type, flags) ==
    [base_low |-> base[2], base_middle |-> base[1] % 256, base_high |-> base[1] \div 256,
     access_type |-> access_type, limit_low |-> limit[2],
     flags |-> (limit[1] % 16) + flags]

\* flags << 4 is cut to the byte it is stored in.
set_segment_descriptor(base, limit, access_type, flags) ==
    [base_low |-> base[2], base_middle |-> base[1] % 256, base_high |-> base[1] \div 256,
     access_type |-> access_type, limit_low |-> limit[2],
     flags |-> (limit[1] % 16) + ((flags * 16) % 256)]

All == <<65535, 65535>>     \* 0xFFFFFFFF
Zero32 == <<0, 0>>

code_desc_flags == GDT_SEGMENT_PRESENT_FLAG + GDT_CODE_OR_DATA_DESCRIPTOR_FLAG
                   + GDT_CODE_EXECUTE_READ_SEG_TYPE
data_desc_flags == GDT_SEGMENT_PRESENT_FLAG + GDT_CODE_OR_DATA_DESCRIPTOR_FLAG
                   + GDT_DATA_READ_WRITE_SEG_TYPE

Flat(access_type) ==
    set_segment_descriptor(Zero32, All, access_type, GDT_GRANULARITY_FLAG + GDT_DB_FLAG)

\* The table gdt_init fills, with the TSS at the address `tss'.
gdt_entries(tss) ==
    <<set_segment_descriptor(Zero32, Zero32, 0, 0),
      Flat(code_desc_flags),
      Flat(data_desc_flags),
      Flat(code_desc_flags + GDT_DPL3_FLAG),
      Flat(data_desc_flags + GDT_DPL3_FLAG),
      set_segment_descriptor(tss, <<0, TssSize - 1>>,
          GDT_SEGMENT_PRESENT_FLAG + GDT_CODE_EXECUTE_ONLY_ACCESSED, 0)>>

\* The temporary table of gdt.inc, which is written out byte by byte.
tmp_gdt ==
    LET flat(access_type) ==
            [base_low |-> 0, base_middle |-> 0, base_high |-> 0,
             access_type |-> access_type, limit_low |-> 65535, flags |-> 207]
    IN  <<set_segment_descriptor(Zero32, Zero32, 0, 0), flat(154), flat(146)>>

\* What the CPU reads at a selector.  The limit is in pages if the descriptor
\* says so, and then counts the last page whole.
Descriptor(table, selector) ==
    LET d == table[selector \div 8 + 1]
        units == d.limit_low + 65536 * (d.flags % 16)
    IN  [base |-> <<d.base_middle + 256 * d.base_high, d.base_low>>,
         limit |-> IF d.flags \div 128 = 1 THEN <<units \div 16, (units % 16) * 4096 + 4095>>
                   ELSE <<units \div 65536, units % 65536>>,
         bits |-> IF (d.flags \div 64) % 2 = 1 THEN 32 ELSE 16,
         present |-> d.access_type \div 128 = 1,
         dpl |-> (d.access_type \div 32) % 4,
         type |-> IF (d.access_type \div 16) % 2 = 0
                  THEN IF d.access_type % 16 = 9 THEN "tss" ELSE "system"
                  ELSE IF (d.access_type \div 8) % 2 = 1 THEN "code" ELSE "data"]

\* A segment of the whole address space.
Whole(type, dpl) ==
    [base |-> Zero32, limit |-> All, bits |-> 32, present |-> TRUE, dpl |-> dpl,
     type |-> type]
=============================================================================
