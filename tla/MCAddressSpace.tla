--------------------------- MODULE MCAddressSpace ---------------------------
\* AddressSpace for TLC: pages of two bytes, tables of two entries, and user
\* addresses 2 .. 15 of which 12 .. 15 are the stack area.  The functions that
\* copy and clear them, and the rest of the string library, are checked for
\* themselves.
EXTENDS AddressSpace, LibString

Seg(va, filesz, memsz, flags, offset) ==
    [va |-> va, filesz |-> filesz, memsz |-> memsz, flags |-> flags, offset |-> offset]
Elf(segments) == [magic |-> TRUE, segments |-> segments]
Text == {"READ", "EXEC"}
Data == {"READ", "WRITE"}

\* Text and data below one page table, not in order of address, and an empty
\* segment inside a page,
Small == Elf(<<Seg(6, 1, 2, Data, 3), Seg(9, 0, 0, Data, 0), Seg(4, 2, 2, Text, 1)>>)
\* a bss that goes on behind further page tables, as in user/testbss.c,
TestBss == Elf(<<Seg(2, 1, 2, Text, 1), Seg(4, 1, 6, Data, 2)>>)
\* an unaligned segment that spans two page tables,
Unaligned == Elf(<<Seg(3, 2, 4, Data, 1)>>)
\* two segments on one page; a segment below another one that reaches into it;
\* one that reaches into the stack; one below USERBASE; sizes that do not fit;
\* a file that is not ELF.
Overlap == Elf(<<Seg(4, 1, 1, Text, 1), Seg(5, 1, 1, Data, 2)>>)
Lower == Elf(<<Seg(6, 1, 1, Text, 1), Seg(4, 1, 4, Data, 2)>>)
InStack == Elf(<<Seg(14, 1, 1, Data, 1)>>)
Low == Elf(<<Seg(0, 1, 1, Text, 1)>>)
Sizes == Elf(<<Seg(4, 1, 1, Text, 1), Seg(6, 2, 1, Data, 1)>>)
NoElf == [magic |-> FALSE, segments |-> <<>>]

AllPrograms == {Small, TestBss, Unaligned, Overlap, Lower, InStack,
                Low, Sizes, NoElf}

\* Text and data, data and what is behind it, the guard page of the stack, past the
\* top, and no bytes.
SomeChecks == {<<4, 8>>, <<6, 10>>, <<12, 14>>, <<14, 18>>, <<6, 6>>}

\* The kernel copies and compares with libs/string.c from its first step on
\* (check_boot_pgdir() does), so this holds while it boots.  memmove(), memcpy(),
\* strcpy() and strncpy() leave the bytes that were there, however the areas
\* overlap where that is allowed; the comparisons find the first difference and
\* never look behind the end of a string or the n-th byte; strtol() reads back
\* what printnum() prints, in every base and with the prefixes (but not "0X").
LibraryExact == pc = "boot" => CopyFacts /\ CompareFacts /\ NumberFacts
=============================================================================
