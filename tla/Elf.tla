--------------------------------- MODULE Elf ---------------------------------
(* pi-side/kernel/elf.c: what elf_load decides from an executable's headers. *)
(* A file is the record of the facts its headers carry:                      *)
(*   n_data, n_alloc  bytes of the file, bytes of its clusters (pi_file_t)   *)
(*   exec             the magic is right and e_type is ET_EXEC               *)
(*   phdrs            program headers in order: op is "COPY" for PT_LOAD,    *)
(*                    "OTHER" for any other type; size is p_filesz           *)
(*   symtab           a symbol table with at least one symbol is present     *)
(*   bss              .bss sections, op "ZERO"                               *)
(*   data             ends of the .data and .data1 sections                  *)
(*   text             the address of the .text section, if there is one      *)
EXTENDS Integers, Sequences, FiniteSets

CONSTANTS EhdrSize    \* sizeof(Elf32_Ehdr)

ASSUME EhdrAssumption == EhdrSize \in Nat /\ EhdrSize > 0

LoadInstr == [op : {"COPY", "ZERO", "OTHER"}, addr : Nat, size : Nat, off : Nat]

ElfFile == [n_data : Nat, n_alloc : Nat, exec : BOOLEAN, symtab : BOOLEAN,
            phdrs : Seq(LoadInstr), bss : Seq(LoadInstr),
            data : SUBSET Nat, text : SUBSET Nat]

NoFile == [n_data |-> 0, n_alloc |-> 0, exec |-> FALSE, symtab |-> FALSE,
           phdrs |-> <<>>, bss |-> <<>>, data |-> {}, text |-> {}]

\* The header tests that come before anything is mapped.
HeaderOK(f) == f.n_data >= EhdrSize /\ f.exec

\* What elf_load maps memory for and emits an instruction for, in order: the
\* loop over the program headers, then init_bss_sections.
LoadInstrs(f) == f.phdrs \o f.bss

\* elf_load returns NULL when it is about to handle item i: an unsupported
\* program header, no symbol table after the last one, or, after the last
\* .bss section, no .text section.
Rejects(f, i) ==
    \/ i \in DOMAIN f.phdrs /\ f.phdrs[i].op # "COPY"
    \/ i > Len(f.phdrs) /\ ~f.symtab
    \/ i > Len(LoadInstrs(f)) /\ f.text = {}

\* get_heap_address: the end of the last data or bss section, 0 if none (as a
\* set of one element).
HeapEnds(f) == f.data \cup {f.bss[i].addr + f.bss[i].size : i \in DOMAIN f.bss}
MFirstSection(f) ==
    IF HeapEnds(f) = {} THEN {0}
    ELSE {e \in HeapEnds(f) : \A d \in HeapEnds(f) : d >= e}
get_heap_address(f) ==
    IF HeapEnds(f) = {} THEN {0}
    ELSE {e \in HeapEnds(f) : \A d \in HeapEnds(f) : d <= e}
==============================================================================
