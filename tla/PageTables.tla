----------------------------- MODULE PageTables -----------------------------
(* The translation tables of pi-side/kernel/vm.c as values, and the pure     *)
(* part of every function that edits them.  A table maps the sections of a   *)
(* virtual address space to first-level descriptors (fld_t); the global map  *)
(* paddr_to_asid_map records which ASID owns each physical section.          *)
(* Addresses are abstract units, Sec of them per 1 MiB section, so that      *)
(* section boundaries, "one unit short" and "one unit over" all exist.       *)
(* Operators whose names begin with M and a capital are faulty variants of   *)
(* the definition that follows them: they test the properties.               *)
EXTENDS Integers

CONSTANTS
    NPhys,         \* N_PHYS_PAGES: sections of SDRAM
    NVirt,         \* N_VIRT_PAGES: sections of a virtual address space
    Sec,           \* address units in one section
    GlobalPages    \* sections mmu_map_kernel_sections maps one to one

ASSUME SizeAssumption ==
    /\ NPhys \in Nat /\ NPhys > 1
    /\ NVirt \in Nat /\ NVirt >= NPhys
    /\ Sec \in Nat /\ Sec > 0

ASSUME GlobalAssumption == GlobalPages \subseteq 0 .. NVirt - 1

Frames    == 0 .. NPhys - 1
VirtPages == 0 .. NVirt - 1
AddrSpace == NVirt * Sec              \* 2^32
Addr      == 0 .. AddrSpace - 1

\* tag is 0b10 for a section and 0 for a translation fault
Entry == [tag : {0, 2}, nG : {0, 1}, sec : VirtPages]
Table == [VirtPages -> Entry]

Fault         == [tag |-> 0, nG |-> 0, sec |-> 0]
Section(s)    == [tag |-> 2, nG |-> 1, sec |-> s]
GlobalSec(s)  == [tag |-> 2, nG |-> 0, sec |-> s]

\* A section that belongs to one address space (the test of mmu_unmap).
Private(pte) == pte.tag # 0 /\ pte.nG # 0

\* addr >> 20 on 32-bit unsigned arithmetic: addr may be -1 or reach 2^32.
MPageOf(addr) == addr \div Sec
PageOf(addr) == (addr \div Sec) % NVirt

\* The sections that an access to size units from addr touches.
Touched(addr, size) == {PageOf(a) : a \in addr .. addr + size - 1}

-----------------------------------------------------------------------------
\* mmu_init
EmptyTable == [v \in VirtPages |-> Fault]

\* mmu_map_kernel_sections
mmu_map_kernel_sections(t) ==
    [v \in VirtPages |-> IF v \in GlobalPages THEN GlobalSec(v) ELSE t[v]]

\* find_available_page: its loop takes the first free section from 1 up, and
\* answers 0 when there is none.
MFreeNotChild(ppm) == {p \in Frames : p > 0 /\ ppm[p] # 2}
FreeFrames(ppm) == {p \in Frames : p > 0 /\ ppm[p] = 0}

find_available_page(ppm, p) ==
    p \in FreeFrames(ppm) /\ \A q \in FreeFrames(ppm) : p <= q

\* The first and the last section that mmu_map_to_mem maps for addr and size:
\* the section that holds addr - 1 is taken to be mapped already.
FirstPage(addr) == PageOf(addr - 1) + 1
MLastPage(addr, size) == PageOf(addr + size) - 1
LastPage(addr, size) == PageOf(addr + size - 1)

\* mmu_unmap: what the global map becomes when table t is given up.
MUnmapOwned(ppm, t) ==
    [p \in Frames |-> IF \E v \in VirtPages : Private(t[v]) /\ t[v].sec = p /\ ppm[p] = 2
                      THEN 0 ELSE ppm[p]]
MUnmapNothing(ppm, t) == ppm
mmu_unmap(ppm, t) ==
    [p \in Frames |-> IF \E v \in VirtPages : Private(t[v]) /\ t[v].sec = p
                      THEN 0 ELSE ppm[p]]
=============================================================================
