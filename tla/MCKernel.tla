------------------------------ MODULE MCKernel ------------------------------
(* Executables for model checking Kernel, with Sec = 4 units to a section.   *)
(* They are linked at LoadPage, as the repository's README asks for          *)
(* (0x10000000).                                                             *)
EXTENDS KernelInv

Base == LoadPage * Sec

Seg(addr, size) == [op |-> "COPY", addr |-> addr, size |-> size, off |-> 0]
Note            == [op |-> "OTHER", addr |-> 0, size |-> 0, off |-> 0]
Bss(addr, size) == [op |-> "ZERO", addr |-> addr, size |-> size, off |-> 0]

Exe(phdrs, bss, data) ==
    [n_data |-> 1, n_alloc |-> 1, exec |-> TRUE, symtab |-> TRUE, phdrs |-> phdrs,
     bss |-> bss, data |-> data, text |-> {Base}]

\* text and data in one section, .bss in the rest of it
Small == Exe(<<Seg(Base, 1)>>, <<Bss(Base + 1, 1)>>, {})
\* .bss ends exactly at a section boundary, as does the text segment
Full == Exe(<<Seg(Base, 4)>>, <<Bss(Base + 4, 4)>>, {Base + 2})
\* a file of two sections of the load window, .bss across a boundary
Large == [Exe(<<Seg(Base, 3)>>, <<Bss(Base + 3, 2)>>, {})
             EXCEPT !.n_data = 5, !.n_alloc = 5]
\* loads that fail at each point where elf_load returns NULL
NotElf   == [Small EXCEPT !.exec = FALSE]
BadPhdr  == Exe(<<Seg(Base, 1), Note>>, <<>>, {})
Stripped == [Full EXCEPT !.symtab = FALSE]
NoText   == [Full EXCEPT !.text = {}]
\* neither .data nor .bss: heap_start stays 0
NoHeap   == Exe(<<Seg(Base, 1)>>, <<>>, {})
\* more segments than instr_lst holds
Many     == Exe(<<Seg(Base, 1), Seg(Base + 1, 1), Seg(Base + 2, 1)>>, <<>>, {})
TooMany  == Exe(<<Seg(Base, 1), Seg(Base + 1, 1), Seg(Base + 2, 1), Seg(Base + 3, 1)>>,
                <<>>, {})
\* an empty file still takes a cluster
EmptyFile == [NotElf EXCEPT !.n_data = 0]
\* a segment that starts in the middle of a section nothing else occupies
MidSection == [Exe(<<Seg(Base + 2, 1)>>, <<Bss(Base + 3, 1)>>, {})
                  EXCEPT !.text = {Base + 2}]

\* a .text section outside every PT_LOAD segment
StrayText == [Small EXCEPT !.text = {Base + 4}]

\* .rodata after .data and no .bss: the segment ends above .data
RoTail == Exe(<<Seg(Base, 3)>>, <<>>, {Base + 2})

WellLinked == {Small, Full, Large, NotElf, BadPhdr, Stripped, NoText, NoHeap}
AllFiles   == WellLinked \cup {Many, TooMany, EmptyFile, MidSection, StrayText, RoTail}
JustEmpty  == {EmptyFile}

\* Uninitialised memory: zeros, or something that looks like sections.
Ram == {EmptyTable, [v \in VirtPages |-> Section(2)]}
=============================================================================
