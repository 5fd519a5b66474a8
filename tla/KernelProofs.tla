---------------------------- MODULE KernelProofs ----------------------------
(* Proofs about Kernel, for every layout, every set of executables and every *)
(* amount of memory.                                                         *)
EXTENDS KernelInv, TLAPS
-----------------------------------------------------------------------------
(* Section arithmetic *)

\* A quotient is determined by the interval its dividend lies in.
LEMMA DivUnique ==
    ASSUME NEW a \in Int, NEW q \in Int, NEW d \in Nat, d > 0,
           q * d <= a, a < (q + 1) * d
    PROVE  a \div d = q
  OBVIOUS

\* Division by a positive number is monotone.
LEMMA DivMono ==
    ASSUME NEW a \in Int, NEW b \in Int, NEW d \in Nat, d > 0, a <= b
    PROVE  a \div d <= b \div d
  OBVIOUS

\* A section number is a section of the address space.
LEMMA PageOfType ==
    ASSUME NEW a \in Int
    PROVE  PageOf(a) \in VirtPages
  BY SizeAssumption DEF PageOf, VirtPages

\* What mmu_map_to_mem computes from its arguments.
LEMMA PageRange ==
    ASSUME NEW addr \in Nat, NEW size \in Nat
    PROVE  FirstPage(addr) \in Nat /\ LastPage(addr, size) \in VirtPages
  <1>1. PageOf(addr - 1) \in VirtPages /\ PageOf(addr + size - 1) \in VirtPages
    BY PageOfType
  <1>2. PageOf(addr - 1) \in Nat
    BY <1>1, SizeAssumption DEF VirtPages
  <1>3. QED
    BY <1>1, <1>2 DEF FirstPage, LastPage

LEMMA AddrSpaceType == AddrSpace \in Nat /\ AddrSpace > 0
  BY SizeAssumption DEF AddrSpace

\* The facts about a file, and about the idle NoFile, that the proofs use.
LEMMA FileType ==
    ASSUME NEW f \in Files \cup {NoFile}
    PROVE  /\ f.n_data \in Nat /\ f.n_alloc \in Nat
           /\ f.n_data <= f.n_alloc
           /\ LoadAddr + f.n_alloc <= AddrSpace
           /\ LoadInstrs(f) \in Seq(LoadInstr)
           /\ \A h \in get_heap_address(f) : h \in Nat
  <1>1. NoFile \in ElfFile
    BY DEF NoFile, ElfFile
  <1>2. f \in ElfFile
    BY <1>1, InputAssumption
  <1>3. /\ f.n_data \in Nat /\ f.n_alloc \in Nat
        /\ f.phdrs \in Seq(LoadInstr) /\ f.bss \in Seq(LoadInstr)
        /\ f.data \in SUBSET Nat
    BY <1>2 DEF ElfFile
  <1>4. LoadInstrs(f) \in Seq(LoadInstr)
    BY <1>3 DEF LoadInstrs
  <1>5. \A h \in HeapEnds(f) : h \in Nat
    <2>1. \A i \in DOMAIN f.bss : f.bss[i].addr + f.bss[i].size \in Nat
      <3>1. \A i \in DOMAIN f.bss : f.bss[i] \in LoadInstr
        BY <1>3
      <3>2. QED
        BY <3>1 DEF LoadInstr
    <2>2. QED
      BY <1>3, <2>1 DEF HeapEnds
  <1>6. \A h \in get_heap_address(f) : h \in Nat
    BY <1>5 DEF get_heap_address
  <1>7. f.n_data <= f.n_alloc /\ LoadAddr + f.n_alloc <= AddrSpace
    <2>1. CASE f \in Files
      BY <2>1, WindowAssumption
    <2>2. CASE f = NoFile
      <3>1. LoadPage * Sec <= NVirt * Sec
        BY SizeAssumption, LayoutAssumption DEF VirtPages
      <3>2. QED
        BY <2>2, <3>1, SizeAssumption, LayoutAssumption
           DEF NoFile, LoadAddr, AddrSpace, VirtPages
    <2>3. QED
      BY <2>1, <2>2
  <1>8. QED
    BY <1>3, <1>4, <1>6, <1>7

\* mmu_map_to_mem starts a load window at its first section.
LEMMA FirstLoadPage == FirstPage(LoadAddr) = LoadPage
  <1>1. LoadPage \in Nat /\ LoadPage > 0 /\ LoadPage < NVirt /\ Sec \in Nat /\ Sec > 0
        /\ NVirt \in Nat
    BY SizeAssumption, LayoutAssumption DEF VirtPages
  <1>2. (LoadPage * Sec - 1) \div Sec = LoadPage - 1
    <2>1. (LoadPage - 1) * Sec <= LoadPage * Sec - 1 /\ LoadPage * Sec - 1 < (LoadPage - 1 + 1) * Sec
      BY <1>1
    <2>2. QED
      BY <1>1, <2>1, DivUnique
  <1>3. (LoadPage - 1) % NVirt = LoadPage - 1
    BY <1>1
  <1>4. QED
    BY <1>1, <1>2, <1>3 DEF FirstPage, PageOf, LoadAddr

\* Below the end of the address space, sections grow with addresses.
LEMMA PageOfMono ==
    ASSUME NEW a \in Nat, NEW b \in Nat, a <= b, b < AddrSpace
    PROVE  PageOf(a) <= PageOf(b)
  <1>1. a \div Sec <= b \div Sec
    BY SizeAssumption, DivMono
  <1>2. b \div Sec < NVirt
    BY SizeAssumption DEF AddrSpace
  <1>3. a \div Sec >= 0
    BY SizeAssumption
  <1>4. a \div Sec \in Int /\ b \div Sec \in Int
    BY SizeAssumption
  <1>5. (a \div Sec) % NVirt = a \div Sec /\ (b \div Sec) % NVirt = b \div Sec
    BY <1>1, <1>2, <1>3, <1>4, SizeAssumption
  <1>6. QED
    BY <1>1, <1>5 DEF PageOf

\* The sections shared with the child are among the sections just mapped.
LEMMA SharedAreLoaded ==
    ASSUME NEW f \in Files \cup {NoFile}
    PROVE  /\ LoadEnd(f.n_data) <= LoadEnd(f.n_alloc)
           /\ LoadEnd(f.n_alloc) \in VirtPages /\ LoadEnd(f.n_data) \in VirtPages
  <1>1. LoadAddr \in Nat /\ LoadAddr > 0
    BY SizeAssumption, LayoutAssumption DEF LoadAddr, VirtPages
  <1>2. /\ f.n_data \in Nat /\ f.n_alloc \in Nat /\ f.n_data <= f.n_alloc
        /\ LoadAddr + f.n_alloc <= AddrSpace
    BY FileType
  <1>3. /\ LoadAddr + f.n_data - 1 \in Nat /\ LoadAddr + f.n_alloc - 1 \in Nat
        /\ LoadAddr + f.n_data - 1 <= LoadAddr + f.n_alloc - 1
        /\ LoadAddr + f.n_alloc - 1 < AddrSpace
    BY <1>1, <1>2, AddrSpaceType
  <1>4. QED
    BY <1>3, PageOfMono, PageOfType DEF LoadEnd, LastPage
-----------------------------------------------------------------------------
(* Type correctness *)

LEMMA SectionType ==
    /\ Frames \subseteq VirtPages
    /\ Fault \in Entry
    /\ \A s \in VirtPages : Section(s) \in Entry /\ GlobalSec(s) \in Entry
  BY SizeAssumption DEF Frames, VirtPages, Fault, Entry, Section, GlobalSec

\* What boot and exec_file put in a table, or in the global map, has its type.
LEMMA TableType ==
    /\ BootTable \in Table
    /\ \A t \in Table : FreshTable(t) \in Table
    /\ BootMap \in [Frames -> Ids \cup {0}]
  <1>1. EmptyTable \in Table
    BY SectionType DEF EmptyTable, Table
  <1>2. mmu_map_kernel_sections(EmptyTable) \in Table
    BY <1>1, SectionType DEF mmu_map_kernel_sections, Table
  <1>3. BootTable \in Table
    BY <1>2, SectionType, LayoutAssumption DEF BootTable, Table
  <1>4. BootMap \in [Frames -> Ids \cup {0}]
    BY DEF BootMap, Ids
  <1>5. QED
    BY <1>2, <1>3, <1>4 DEF FreshTable

LEMMA ShareType == TypeOK => ShareWindow \in Table
  <1> SUFFICES ASSUME TypeOK PROVE ShareWindow \in Table
    OBVIOUS
  <1>1. tt[KernelId] \in Table /\ tt[ChildId] \in Table
    BY DEF TypeOK, Ids
  <1>2. LoadEnd(file.n_data) \in VirtPages
    BY SharedAreLoaded DEF TypeOK
  <1>3. ASSUME NEW v \in VirtPages, v \in SharedPages
        PROVE  v - ProcLoadPage + LoadPage \in VirtPages
    BY <1>2, <1>3, SizeAssumption, LayoutAssumption DEF SharedPages, VirtPages
  <1>4. ASSUME NEW v \in VirtPages, v \in SharedPages
        PROVE  Section(tt[KernelId][v - ProcLoadPage + LoadPage].sec) \in Entry
    BY <1>1, <1>3, <1>4, SectionType DEF Table, Entry
  <1>5. QED
    BY <1>1, <1>4 DEF ShareWindow, Table

LEMMA TypeInit == Init => TypeOK
  <1> SUFFICES ASSUME Init PROVE TypeOK
    OBVIOUS
  <1>1. tt \in [Ids -> Table]
    BY LayoutAssumption DEF Init
  <1>2. 0 \in VirtPages
    BY SizeAssumption DEF VirtPages
  <1>3. paddr_to_asid_map \in [Frames -> Ids \cup {0}]
    BY DEF Init
  <1>4. QED
    BY <1>1, <1>2, <1>3 DEF Init, TypeOK, PcValues, Ids, KernelId, ChildId,
       NoReq, NoSw, NoKm

LEMMA TypeNext == TypeOK /\ CallsMatch /\ [Next]_vars => TypeOK'
  <1> SUFFICES ASSUME TypeOK, CallsMatch, [Next]_vars PROVE TypeOK'
    OBVIOUS
  <1> USE DEF TypeOK, PcValues, Ids, KernelId, ChildId, mem, mmu, proc, call
  <1>f. /\ file.n_alloc \in Nat
        /\ LoadInstrs(file) \in Seq(LoadInstr)
        /\ \A h \in get_heap_address(file) : h \in Nat
    BY FileType
  <1>n. NoReq \in [pt : Ids, page : Nat, last : VirtPages, sync : {0, 1},
                   ret : {"none", "sbrk_mapped", "copy", "elf_instr"}]
    BY SizeAssumption DEF NoReq, VirtPages
  <1>0. CASE UNCHANGED vars
    BY <1>0 DEF vars
  <1>1. CASE VmEnable
    BY <1>1, TableType, SizeAssumption, LayoutAssumption, InputAssumption
       DEF VmEnable, kmalloc, VirtPages
  <1>2. CASE Reboot
    BY <1>2, <1>n DEF Reboot, NoSw, NoKm
  <1>3. CASE MapSection
    <2>1. PICK p \in Frames :
            /\ paddr_to_asid_map' = [paddr_to_asid_map EXCEPT ![p] = req.pt]
            /\ tt' = [tt EXCEPT ![req.pt][req.page] = Section(p)]
      BY <1>3 DEF MapSection
    <2>2. req.pt \in Ids /\ req.page \in Nat /\ req.last \in VirtPages
      OBVIOUS
    <2>3. req.page \in VirtPages
      BY <1>3, <2>2, SizeAssumption DEF MapSection, VirtPages
    <2>4. paddr_to_asid_map' \in [Frames -> Ids \cup {0}]
      BY <2>1, <2>2
    <2>5. tt' \in [Ids -> Table]
      <3>1. [tt[req.pt] EXCEPT ![req.page] = Section(p)] \in Table
        BY <2>2, <2>3, SectionType DEF Table
      <3>2. QED
        BY <2>1, <2>2, <3>1
    <2>6. tlb' \subseteq [asid : Ids \cup {0}, va : VirtPages, pte : Entry]
      BY <1>3 DEF MapSection, mmu_sync
    <2>7. req' \in [pt : Ids, page : Nat, last : VirtPages, sync : {0, 1},
                    ret : {"none", "sbrk_mapped", "copy", "elf_instr"}]
      BY <1>3, <2>2 DEF MapSection
    <2>8. QED
      BY <1>3, <2>4, <2>5, <2>6, <2>7 DEF MapSection
  <1>4. CASE OutOfMemory
    BY <1>4 DEF OutOfMemory, Panic
  <1>5. CASE MapDone
    BY <1>5, <1>n DEF MapDone, CallsMatch
  <1>6. CASE SetTtbr
    BY <1>6 DEF SetTtbr
  <1>7. CASE SetAsid
    BY <1>7 DEF SetAsid, NoSw, CallsMatch
  <1>8. CASE SbrkMap
    BY <1>8, PageRange DEF SbrkMap, StartMap
  <1>9. CASE SbrkMapped
    BY <1>9 DEF SbrkMapped, set_procid_ttbr0
  <1>10. CASE SbrkZero
    BY <1>10, AddrSpaceType DEF SbrkZero
  <1>11. CASE SbrkAbort
    BY <1>11 DEF SbrkAbort, Panic
  <1>12. CASE KmallocGrow
    BY <1>12, SizeAssumption DEF KmallocGrow, kernel_sbrk, set_procid_ttbr0, Growth, roundup
  <1>13. CASE KmallocTake
    BY <1>13 DEF KmallocTake, NoKm, CallsMatch
  <1>14. CASE ExecBegin
    BY <1>14, <1>f, TableType DEF ExecBegin, kmalloc
  <1>15. CASE ExecLoad
    <2>1. LoadAddr \in Nat
      BY SizeAssumption, LayoutAssumption DEF LoadAddr, VirtPages
    <2>2. FirstPage(LoadAddr) \in Nat /\ LastPage(LoadAddr, file.n_alloc) \in VirtPages
      BY <2>1, <1>f, PageRange
    <2>3. QED
      BY <1>15, <2>2 DEF ExecLoad, StartMap
  <1>16. CASE ExecShare
    <2>1. ShareWindow \in Table
      BY ShareType
    <2>2. tt' \in [Ids -> Table]
      BY <1>16, <2>1 DEF ExecShare
    <2>3. QED
      BY <1>16, <2>2 DEF ExecShare
  <1>17. CASE ElfMap
    <2>1. step \in 1 .. Len(LoadInstrs(file))
      BY <1>17, <1>f DEF ElfMap, AtEnd, CallsMatch
    <2>2. Instr.addr \in Nat /\ Instr.size \in Nat
      <3>1. Instr \in LoadInstr
        BY <2>1, <1>f DEF Instr
      <3>2. QED
        BY <3>1 DEF LoadInstr
    <2>3. FirstPage(Instr.addr) \in Nat /\ LastPage(Instr.addr, Instr.size) \in VirtPages
      BY <2>2, PageRange
    <2>4. QED
      BY <1>17, <2>3 DEF ElfMap, StartMap
  <1>18. CASE ElfInstr
    BY <1>18 DEF ElfInstr
  <1>19. CASE ElfNoRoom
    BY <1>19 DEF ElfNoRoom, Panic
  <1>20. CASE ElfFail
    BY <1>20 DEF ElfFail
  <1>21. CASE ElfDone
    BY <1>21, <1>f DEF ElfDone, set_procid_ttbr0
  <1>22. CASE ExecInstr
    BY <1>22 DEF ExecInstr
  <1>23. CASE ExecInstrAbort
    BY <1>23 DEF ExecInstrAbort, Panic
  <1>24. CASE ExecNoHeap
    BY <1>24 DEF ExecNoHeap, set_procid_ttbr0
  <1>25. CASE ExecJump
    BY <1>25 DEF ExecJump, Panic
  <1>26. CASE ExecFlush
    BY <1>26 DEF ExecFlush, mmu_inv_asid
  <1>27. CASE ExecUnmap
    BY <1>27 DEF ExecUnmap, mmu_unmap
  <1>28. CASE \E sz \in AllocSizes : ShellRead(sz)
    BY <1>28, InputAssumption DEF ShellRead, kmalloc
  <1>29. CASE \E f \in Files : do_run(f)
    BY <1>29, InputAssumption DEF do_run, kmalloc
  <1>30. CASE ShellReboot
    BY <1>30 DEF ShellReboot
  <1>31. CASE \E n \in Incrs : ChildSbrk(n)
    BY <1>31, InputAssumption DEF ChildSbrk, kernel_sbrk, set_procid_ttbr0
  <1>32. CASE ChildReturn
    BY <1>32 DEF ChildReturn, set_procid_ttbr0
  <1>33. CASE \E v \in VirtPages : TlbFill(v)
    BY <1>33 DEF TlbFill, TlbEntry, Table
  <1>34. CASE TlbEvict
    BY <1>34 DEF TlbEvict
  <1>35. QED
    BY <1>0, <1>1, <1>2, <1>3, <1>4, <1>5, <1>6, <1>7, <1>8, <1>9, <1>10, <1>11,
       <1>12, <1>13, <1>14, <1>15, <1>16, <1>17, <1>18, <1>19, <1>20, <1>21, <1>22,
       <1>23, <1>24, <1>25, <1>26, <1>27, <1>28, <1>29, <1>30, <1>31, <1>32, <1>33,
       <1>34 DEF Next, KernelStep, ShellStep

LEMMA CallsInit == Init => CallsMatch
  BY DEF Init, CallsMatch, KernelPoints, KmallocPoints, NoKm

LEMMA CallsNext == TypeOK /\ CallsMatch /\ [Next]_vars => CallsMatch'
  <1> SUFFICES ASSUME TypeOK, CallsMatch, [Next]_vars PROVE CallsMatch'
    OBVIOUS
  <1> USE DEF CallsMatch, KernelPoints, KmallocPoints, Ids, KernelId, ChildId,
              mem, mmu, proc, call
  <1>t. current_proc \in Ids /\ step \in Nat
    BY DEF TypeOK
  <1>0. CASE UNCHANGED vars
    BY <1>0 DEF vars
  <1>1. CASE VmEnable
    BY <1>1 DEF VmEnable, kmalloc
  <1>2. CASE Reboot
    BY <1>2 DEF Reboot, NoSw, NoKm
  <1>3. CASE MapSection
    <2>1. req'.ret = req.ret /\ req'.pt = req.pt
      BY <1>3 DEF MapSection, TypeOK
    <2>2. QED
      BY <1>3, <2>1 DEF MapSection
  <1>4. CASE OutOfMemory
    BY <1>4 DEF OutOfMemory, Panic
  <1>5. CASE MapDone
    BY <1>5, <1>t DEF MapDone, NoReq
  <1>6. CASE SetTtbr
    BY <1>6 DEF SetTtbr
  <1>7. CASE SetAsid
    BY <1>7, <1>t DEF SetAsid, NoSw
  <1>8. CASE SbrkMap
    BY <1>8, <1>t DEF SbrkMap, StartMap
  <1>9. CASE SbrkMapped
    BY <1>9, <1>t DEF SbrkMapped, set_procid_ttbr0
  <1>10. CASE SbrkZero
    BY <1>10, <1>t DEF SbrkZero
  <1>11. CASE SbrkAbort
    BY <1>11 DEF SbrkAbort, Panic
  <1>12. CASE KmallocGrow
    BY <1>12 DEF KmallocGrow, kernel_sbrk, set_procid_ttbr0
  <1>13. CASE KmallocTake
    BY <1>13 DEF KmallocTake, NoKm, TypeOK
  <1>14. CASE ExecBegin
    BY <1>14 DEF ExecBegin, kmalloc
  <1>15. CASE ExecLoad
    BY <1>15 DEF ExecLoad, StartMap
  <1>16. CASE ExecShare
    BY <1>16 DEF ExecShare
  <1>17. CASE ElfMap
    BY <1>17 DEF ElfMap, StartMap
  <1>18. CASE ElfInstr
    BY <1>18, <1>t DEF ElfInstr
  <1>19. CASE ElfNoRoom
    BY <1>19 DEF ElfNoRoom, Panic
  <1>20. CASE ElfFail
    BY <1>20 DEF ElfFail
  <1>21. CASE ElfDone
    BY <1>21 DEF ElfDone, set_procid_ttbr0
  <1>22. CASE ExecInstr
    BY <1>22 DEF ExecInstr
  <1>23. CASE ExecInstrAbort
    BY <1>23 DEF ExecInstrAbort, Panic
  <1>24. CASE ExecNoHeap
    BY <1>24 DEF ExecNoHeap, set_procid_ttbr0
  <1>25. CASE ExecJump
    BY <1>25 DEF ExecJump, Panic
  <1>26. CASE ExecFlush
    BY <1>26 DEF ExecFlush
  <1>27. CASE ExecUnmap
    BY <1>27 DEF ExecUnmap
  <1>28. CASE \E sz \in AllocSizes : ShellRead(sz)
    BY <1>28 DEF ShellRead, kmalloc
  <1>29. CASE \E f \in Files : do_run(f)
    BY <1>29 DEF do_run, kmalloc
  <1>30. CASE ShellReboot
    BY <1>30 DEF ShellReboot
  <1>31. CASE \E n \in Incrs : ChildSbrk(n)
    BY <1>31 DEF ChildSbrk, kernel_sbrk, set_procid_ttbr0
  <1>32. CASE ChildReturn
    BY <1>32 DEF ChildReturn, set_procid_ttbr0
  <1>33. CASE \E v \in VirtPages : TlbFill(v)
    BY <1>33 DEF TlbFill
  <1>34. CASE TlbEvict
    BY <1>34 DEF TlbEvict
  <1>35. QED
    BY <1>0, <1>1, <1>2, <1>3, <1>4, <1>5, <1>6, <1>7, <1>8, <1>9, <1>10, <1>11,
       <1>12, <1>13, <1>14, <1>15, <1>16, <1>17, <1>18, <1>19, <1>20, <1>21, <1>22,
       <1>23, <1>24, <1>25, <1>26, <1>27, <1>28, <1>29, <1>30, <1>31, <1>32, <1>33,
       <1>34 DEF Next, KernelStep, ShellStep

\* Every variable of the kernel keeps its type, whatever the layout and the
\* executables are: no return lands outside the control points, no section
\* number leaves the address space, no frame is owned by an unknown ASID.
\* TypeOK is inductive only together with CallsMatch.
THEOREM TypeCorrect == Spec => [](TypeOK /\ CallsMatch)
  <1>1. Init => TypeOK /\ CallsMatch
    BY TypeInit, CallsInit
  <1>2. TypeOK /\ CallsMatch /\ [Next]_vars => TypeOK' /\ CallsMatch'
    BY TypeNext, CallsNext
  <1>3. QED
    BY <1>1, <1>2, PTL DEF Spec
-----------------------------------------------------------------------------
(* Isolation *)

MemSound == KernelSound /\ WindowSound /\ ChildSound

\* A step that writes neither a table nor the global map keeps them sound if
\* it claims no more of the load window and of the child than was known.
LEMMA QuietStep ==
    ASSUME MemSound, UNCHANGED mem,
           \A v \in VirtPages : Loaded(v)' => Loaded(v),
           pc' = "map" /\ req'.ret = "copy" =>
               req'.page >= LoadPage /\ req'.last = LoadEnd(file'.n_alloc),
           ChildFresh' => ChildFresh,
           ChildLive' => ChildLive
    PROVE  MemSound'
  <1>1. KernelSound'
    BY DEF MemSound, KernelSound, KSec, Private, mem
  <1>2. WindowSound'
    BY DEF MemSound, WindowSound, KSec, Private, mem
  <1>3. ChildSound'
    BY DEF MemSound, ChildSound, KSec, Private, mem
  <1>4. QED
    BY <1>1, <1>2, <1>3 DEF MemSound

LEMMA IsolationInit == Init => IsolationInv
  BY CallsInit DEF Init, IsolationInv

\* The steps that write no table.
LEMMA IsolationQuiet ==
    ASSUME TypeOK, CallsMatch, MemSound, pc # "off",
           \/ UNCHANGED vars
           \/ Reboot
           \/ OutOfMemory
           \/ MapDone
           \/ SetTtbr
           \/ SetAsid
           \/ SbrkMap
           \/ SbrkMapped
           \/ SbrkZero
           \/ SbrkAbort
           \/ KmallocGrow
           \/ KmallocTake
           \/ ExecLoad
           \/ ElfMap
           \/ ElfInstr
           \/ ElfNoRoom
           \/ ElfFail
           \/ ElfDone
           \/ ExecInstr
           \/ ExecInstrAbort
           \/ ExecNoHeap
           \/ ExecJump
           \/ ExecFlush
           \/ \E sz \in AllocSizes : ShellRead(sz)
           \/ \E f \in Files : do_run(f)
           \/ ShellReboot
           \/ \E n \in Incrs : ChildSbrk(n)
           \/ ChildReturn
           \/ \E v \in VirtPages : TlbFill(v)
           \/ TlbEvict
    PROVE  MemSound'
  <1> USE DEF CallsMatch, KernelPoints, KmallocPoints, Ids, KernelId, ChildId,
              Loaded, ChildFresh, ChildLive, mem, mmu, proc, call
  <1>t. /\ current_proc \in Ids /\ req.page \in Nat /\ req.last \in VirtPages
        /\ file \in Files \cup {NoFile}
    BY DEF TypeOK
  <1>w. WindowSound
    BY DEF MemSound
  <1>0. CASE UNCHANGED vars
    BY <1>0, <1>w, QuietStep DEF vars, WindowSound
  <1>1. CASE Reboot
    BY <1>1, <1>t, <1>w, QuietStep DEF Reboot, NoReq, NoKm, WindowSound
  <1>2. CASE OutOfMemory
    BY <1>2, <1>t, <1>w, QuietStep DEF OutOfMemory, Panic, WindowSound
  <1>3. CASE MapDone
    <2>1. /\ pc = "map" /\ pc' = req.ret /\ req.page > req.last
          /\ UNCHANGED <<mem, file, km, current_proc>>
      BY <1>3 DEF MapDone
    <2>2. ASSUME NEW v \in VirtPages, Loaded(v)' PROVE Loaded(v)
      <3>1. req.ret = "copy" /\ v \in LoadPage .. LoadEnd(file.n_alloc)
        BY <2>1, <2>2
      <3>2. v <= req.page - 1
        BY <2>1, <3>1, <1>t, <1>w, LayoutAssumption, SizeAssumption
           DEF WindowSound, VirtPages
      <3>3. QED
        BY <2>1, <3>1, <3>2, <1>t, LayoutAssumption, SizeAssumption DEF VirtPages
    <2>3. pc' # "map"
      BY <2>1
    <2>4. (ChildFresh' => ChildFresh) /\ (ChildLive' => ChildLive)
      BY <2>1, <1>t
    <2>5. QED
      BY <2>1, <2>2, <2>3, <2>4, QuietStep
  <1>4. CASE SetTtbr
    BY <1>4, <1>t, <1>w, QuietStep DEF SetTtbr, WindowSound
  <1>5. CASE SetAsid
    BY <1>5, <1>t, <1>w, QuietStep DEF SetAsid, WindowSound
  <1>6. CASE SbrkMap
    BY <1>6, <1>t, <1>w, QuietStep DEF SbrkMap, StartMap, WindowSound
  <1>7. CASE SbrkMapped
    BY <1>7, <1>t, <1>w, QuietStep DEF SbrkMapped, set_procid_ttbr0, WindowSound
  <1>8. CASE SbrkZero
    BY <1>8, <1>t, <1>w, QuietStep DEF SbrkZero, WindowSound
  <1>9. CASE SbrkAbort
    BY <1>9, <1>t, <1>w, QuietStep DEF SbrkAbort, Panic, WindowSound
  <1>10. CASE KmallocGrow
    BY <1>10, <1>t, <1>w, QuietStep DEF KmallocGrow, kernel_sbrk, set_procid_ttbr0, WindowSound
  <1>11. CASE KmallocTake
    <2>1. km.ret \in {"shell", "exec", "load"}
      BY <1>11 DEF KmallocTake, TypeOK
    <2>2. QED
      BY <1>11, <2>1, QuietStep DEF KmallocTake, NoKm
  <1>12. CASE ExecLoad
    <2>1. /\ pc' = "map" /\ req'.ret = "copy" /\ req'.page = LoadPage
          /\ req'.last = LoadEnd(file.n_alloc) /\ req'.pt = KernelId
      BY <1>12, FirstLoadPage DEF ExecLoad, StartMap, LoadEnd
    <2>2. \A v \in VirtPages : ~Loaded(v)'
      BY <2>1, LayoutAssumption, SizeAssumption DEF VirtPages
    <2>3. LoadPage >= LoadPage
      BY LayoutAssumption, SizeAssumption DEF VirtPages
    <2>4. pc = "load" /\ UNCHANGED <<mem, km, file>>
      BY <1>12 DEF ExecLoad
    <2>5. ~ChildLive'
      BY <2>1
    <2>6. QED
      BY <2>1, <2>2, <2>3, <2>4, <2>5, QuietStep
  <1>13. CASE ElfMap
    BY <1>13, <1>t, <1>w, QuietStep DEF ElfMap, StartMap, WindowSound
  <1>14. CASE ElfInstr
    BY <1>14, <1>t, <1>w, QuietStep DEF ElfInstr, WindowSound
  <1>15. CASE ElfNoRoom
    BY <1>15, <1>t, <1>w, QuietStep DEF ElfNoRoom, Panic, WindowSound
  <1>16. CASE ElfFail
    BY <1>16, <1>t, <1>w, QuietStep DEF ElfFail, WindowSound
  <1>17. CASE ElfDone
    BY <1>17, <1>t, <1>w, QuietStep DEF ElfDone, set_procid_ttbr0, WindowSound
  <1>18. CASE ExecInstr
    BY <1>18, <1>t, <1>w, QuietStep DEF ExecInstr, WindowSound
  <1>19. CASE ExecInstrAbort
    BY <1>19, <1>t, <1>w, QuietStep DEF ExecInstrAbort, Panic, WindowSound
  <1>20. CASE ExecNoHeap
    BY <1>20, <1>t, <1>w, QuietStep DEF ExecNoHeap, set_procid_ttbr0, WindowSound
  <1>21. CASE ExecJump
    BY <1>21, <1>t, <1>w, QuietStep DEF ExecJump, Panic, WindowSound
  <1>22. CASE ExecFlush
    BY <1>22, <1>t, <1>w, QuietStep DEF ExecFlush, WindowSound
  <1>23. CASE \E sz \in AllocSizes : ShellRead(sz)
    BY <1>23, <1>t, <1>w, QuietStep DEF ShellRead, kmalloc, WindowSound
  <1>24. CASE \E f \in Files : do_run(f)
    BY <1>24, <1>t, <1>w, QuietStep DEF do_run, kmalloc, WindowSound
  <1>25. CASE ShellReboot
    BY <1>25, <1>t, <1>w, QuietStep DEF ShellReboot, WindowSound
  <1>26. CASE \E n \in Incrs : ChildSbrk(n)
    BY <1>26, <1>t, <1>w, QuietStep DEF ChildSbrk, kernel_sbrk, set_procid_ttbr0, WindowSound
  <1>27. CASE ChildReturn
    BY <1>27, <1>t, <1>w, QuietStep DEF ChildReturn, set_procid_ttbr0, WindowSound
  <1>28. CASE \E v \in VirtPages : TlbFill(v)
    BY <1>28, <1>t, <1>w, QuietStep DEF TlbFill, WindowSound
  <1>29. CASE TlbEvict
    BY <1>29, <1>t, <1>w, QuietStep DEF TlbEvict, WindowSound
  <1>30. QED
    BY <1>0, <1>1, <1>2, <1>3, <1>4, <1>5, <1>6, <1>7, <1>8, <1>9, <1>10, <1>11,
       <1>12, <1>13, <1>14, <1>15, <1>16, <1>17, <1>18, <1>19, <1>20, <1>21,
       <1>22, <1>23, <1>24, <1>25, <1>26, <1>27, <1>28, <1>29

\* vm_enable: only the translation tables' own sections are mapped privately.
LEMMA IsolationBoot == TypeOK /\ VmEnable => MemSound'
  <1> SUFFICES ASSUME TypeOK, VmEnable PROVE MemSound'
    OBVIOUS
  <1> USE DEF KernelId, ChildId, Ids
  <1>1. /\ tt'[KernelId] = BootTable /\ paddr_to_asid_map' = BootMap
        /\ pc' = "kmalloc" /\ km'.ret = "shell" /\ current_proc' = KernelId
    BY DEF VmEnable, kmalloc, TypeOK
  <1>2. ASSUME NEW v \in VirtPages, Private(BootTable[v])
        PROVE  v \in TTPages /\ BootTable[v].sec = v
    BY <1>2 DEF BootTable, mmu_map_kernel_sections, EmptyTable, Private, Section,
       GlobalSec, Fault
  <1>3. \A p \in TTPages : p \in Frames /\ BootMap[p] = KernelId
    BY LayoutAssumption DEF BootMap
  <1>4. KernelSound'
    BY <1>1, <1>2, <1>3 DEF KernelSound, KSec, Private
  <1>5. WindowSound' /\ ChildSound'
    BY <1>1 DEF WindowSound, ChildSound, Loaded, ChildFresh, ChildLive
  <1>6. QED
    BY <1>4, <1>5 DEF MemSound

\* exec_file clears the child's table: nothing of the kernel's changes.
LEMMA IsolationBegin == TypeOK /\ CallsMatch /\ MemSound /\ ExecBegin => MemSound'
  <1> SUFFICES ASSUME TypeOK, CallsMatch, MemSound, ExecBegin PROVE MemSound'
    OBVIOUS
  <1> USE DEF KernelId, ChildId, Ids
  <1>1. /\ tt'[KernelId] = tt[KernelId] /\ tt'[ChildId] = mmu_map_kernel_sections(EmptyTable)
        /\ paddr_to_asid_map' = paddr_to_asid_map
        /\ pc' = "kmalloc"
    BY DEF ExecBegin, kmalloc, TypeOK, FreshTable
  <1>2. \A v \in VirtPages : ~Private(mmu_map_kernel_sections(EmptyTable)[v])
    BY DEF mmu_map_kernel_sections, EmptyTable, Private, GlobalSec, Fault
  <1>3. KernelSound'
    BY <1>1 DEF MemSound, KernelSound, KSec, Private
  <1>4. WindowSound'
    BY <1>1 DEF WindowSound, Loaded
  <1>5. ChildSound'
    BY <1>1, <1>2 DEF ChildSound, ChildLive, Private
  <1>6. QED
    BY <1>3, <1>4, <1>5 DEF MemSound

\* Sharing the load window: the child receives the frames just mapped there,
\* which are different from each other and from the kernel's own.
LEMMA IsolationShare == TypeOK /\ CallsMatch /\ MemSound /\ ExecShare => MemSound'
  <1> SUFFICES ASSUME TypeOK, CallsMatch, MemSound, ExecShare PROVE MemSound'
    OBVIOUS
  <1> USE DEF KernelId, ChildId, Ids
  <1>1. /\ tt'[KernelId] = tt[KernelId] /\ tt'[ChildId] = ShareWindow
        /\ paddr_to_asid_map' = paddr_to_asid_map
        /\ pc = "copy" /\ pc' \in {"elf", "unmap"} /\ UNCHANGED <<km, req, file, current_proc>>
    BY DEF ExecShare, TypeOK, call, proc
  <1>2. km.ret # "load"
    BY <1>1 DEF CallsMatch, KmallocPoints
  <1>3. KernelSound'
    BY <1>1 DEF MemSound, KernelSound, KSec, Private
  <1>4. WindowSound'
    BY <1>1 DEF WindowSound, Loaded
  <1>5. ASSUME NEW v \in VirtPages, Private(ShareWindow[v])
        PROVE  /\ v - ProcLoadPage + LoadPage \in VirtPages
               /\ Loaded(v - ProcLoadPage + LoadPage)
               /\ ShareWindow[v].sec = tt[KernelId][v - ProcLoadPage + LoadPage].sec
    <2>1. v \in SharedPages
      <3>1. ~Private(tt[ChildId][v])
        BY <1>1 DEF MemSound, ChildSound, ChildFresh
      <3>2. QED
        BY <1>5, <3>1 DEF ShareWindow
    <2>2. /\ LoadEnd(file.n_data) <= LoadEnd(file.n_alloc)
          /\ LoadEnd(file.n_alloc) \in VirtPages /\ LoadEnd(file.n_data) \in VirtPages
      BY SharedAreLoaded DEF TypeOK
    <2>3. PICK u \in LoadPage .. LoadEnd(file.n_data) : v = ProcLoadPage + (u - LoadPage)
      BY <2>1 DEF SharedPages
    <2>4. /\ v - ProcLoadPage + LoadPage = u
          /\ u \in LoadPage .. LoadEnd(file.n_alloc) /\ u \in VirtPages
      BY <2>2, <2>3, SizeAssumption, LayoutAssumption DEF VirtPages
    <2>5. QED
      BY <1>1, <2>1, <2>4 DEF Loaded, ShareWindow, Section
  <1>6. ASSUME NEW v \in VirtPages, Private(tt'[ChildId][v])
        PROVE  /\ tt'[ChildId][v].sec \in Frames
               /\ paddr_to_asid_map'[tt'[ChildId][v].sec] # 0
               /\ \A u \in VirtPages : KSec(u)' => tt'[KernelId][u].sec # tt'[ChildId][v].sec
               /\ \A u \in VirtPages : Private(tt'[ChildId][u]) /\ u # v =>
                    tt'[ChildId][u].sec # tt'[ChildId][v].sec
    <2> DEFINE w(x) == x - ProcLoadPage + LoadPage
    <2>1. /\ w(v) \in VirtPages /\ Loaded(w(v))
          /\ tt'[ChildId][v].sec = tt[KernelId][w(v)].sec
      BY <1>1, <1>5, <1>6
    <2>2. /\ tt[KernelId][w(v)].sec \in Frames
          /\ paddr_to_asid_map[tt[KernelId][w(v)].sec] = KernelId
          /\ \A u \in VirtPages : (KSec(u) \/ Loaded(u)) /\ u # w(v) =>
               tt[KernelId][u].sec # tt[KernelId][w(v)].sec
      BY <2>1 DEF MemSound, WindowSound
    <2>3. ASSUME NEW u \in VirtPages, KSec(u)'
          PROVE  tt'[KernelId][u].sec # tt'[ChildId][v].sec
      <3>1. KSec(u)
        BY <1>1, <2>3 DEF KSec, Private
      <3>2. u # w(v)
        BY <1>1, <2>1, <3>1, LayoutAssumption, SizeAssumption DEF KSec, Loaded, VirtPages
      <3>3. QED
        BY <1>1, <2>1, <2>2, <3>1, <3>2
    <2>4. ASSUME NEW u \in VirtPages, Private(tt'[ChildId][u]), u # v
          PROVE  tt'[ChildId][u].sec # tt'[ChildId][v].sec
      <3>1. /\ w(u) \in VirtPages /\ Loaded(w(u))
            /\ tt'[ChildId][u].sec = tt[KernelId][w(u)].sec
        BY <1>1, <1>5, <2>4
      <3>2. w(u) # w(v)
        BY <2>4, LayoutAssumption, SizeAssumption DEF VirtPages
      <3>3. QED
        BY <2>1, <2>2, <3>1, <3>2
    <2>5. QED
      BY <1>1, <2>1, <2>2, <2>3, <2>4
  <1>7. ChildSound'
    BY <1>1, <1>2, <1>6 DEF ChildSound, ChildFresh
  <1>8. QED
    BY <1>3, <1>4, <1>7 DEF MemSound

\* mmu_unmap: no frame of the kernel's own sections is freed.
LEMMA IsolationUnmap == TypeOK /\ CallsMatch /\ MemSound /\ ExecUnmap => MemSound'
  <1> SUFFICES ASSUME TypeOK, CallsMatch, MemSound, ExecUnmap PROVE MemSound'
    OBVIOUS
  <1> USE DEF KernelId, ChildId, Ids
  <1>1. /\ tt' = tt /\ paddr_to_asid_map' = mmu_unmap(paddr_to_asid_map, tt[ChildId])
        /\ pc = "unmap" /\ pc' = "shell" /\ UNCHANGED km
    BY DEF ExecUnmap, call
  <1>2. km.ret # "load"
    BY <1>1 DEF CallsMatch, KmallocPoints
  <1>3. ASSUME NEW v \in VirtPages, KSec(v)
        PROVE  paddr_to_asid_map'[tt[KernelId][v].sec] = paddr_to_asid_map[tt[KernelId][v].sec]
    <2>1. tt[KernelId][v].sec \in Frames
      BY <1>3 DEF MemSound, KernelSound
    <2>2. \A u \in VirtPages : Private(tt[ChildId][u]) => tt[ChildId][u].sec # tt[KernelId][v].sec
      BY <1>1, <1>3 DEF MemSound, ChildSound, ChildLive
    <2>3. QED
      BY <1>1, <2>1, <2>2 DEF mmu_unmap
  <1>4. KernelSound'
    BY <1>1, <1>3 DEF MemSound, KernelSound, KSec, Private
  <1>5. WindowSound' /\ ChildSound'
    BY <1>1, <1>2 DEF WindowSound, ChildSound, Loaded, ChildFresh, ChildLive
  <1>6. QED
    BY <1>4, <1>5 DEF MemSound

\* mmu_map_section with a frame that was free: no table entry in use refers to
\* it, so the new entry shares memory with none.
LEMMA IsolationMap == TypeOK /\ CallsMatch /\ MemSound /\ MapSection => MemSound'
  <1> SUFFICES ASSUME TypeOK, CallsMatch, MemSound, MapSection PROVE MemSound'
    OBVIOUS
  <1> USE DEF KernelId, ChildId, Ids
  <1>1. PICK p \in Frames :
          /\ paddr_to_asid_map[p] = 0
          /\ paddr_to_asid_map' = [paddr_to_asid_map EXCEPT ![p] = req.pt]
          /\ tt' = [tt EXCEPT ![req.pt][req.page] = Section(p)]
    BY DEF MapSection, find_available_page, FreeFrames
  <1>2. /\ req.pt \in Ids /\ req.page \in Nat /\ req.last \in VirtPages
        /\ tt \in [Ids -> Table] /\ paddr_to_asid_map \in [Frames -> Ids \cup {0}]
    BY DEF TypeOK
  <1>3. req.page \in VirtPages
    BY <1>2, SizeAssumption DEF MapSection, VirtPages
  <1>4. /\ pc = "map" /\ pc' = "map" /\ UNCHANGED <<km, file, current_proc>>
        /\ req'.ret = req.ret /\ req'.pt = req.pt /\ req'.last = req.last
        /\ req'.page = req.page + 1
    BY DEF MapSection, TypeOK, proc
  <1>5. /\ \A q \in Frames : q # p => paddr_to_asid_map'[q] = paddr_to_asid_map[q]
        /\ paddr_to_asid_map'[p] = req.pt
    BY <1>1, <1>2
  <1>6. /\ \A i \in Ids, v \in VirtPages :
             (i # req.pt \/ v # req.page) => tt'[i][v] = tt[i][v]
        /\ tt'[req.pt][req.page] = Section(p)
    BY <1>1, <1>2, <1>3 DEF Table
  <1>7. Private(Section(p)) /\ Section(p).sec = p
    BY DEF Private, Section
  <1>8. \A v \in VirtPages : KSec(v) => tt[KernelId][v].sec # p
    BY <1>1 DEF MemSound, KernelSound
  <1>9. \A v \in VirtPages : Loaded(v) => tt[KernelId][v].sec # p
    BY <1>1 DEF MemSound, WindowSound
  <1>10. CASE req.pt = KernelId
    <2>1. tt'[ChildId] = tt[ChildId]
      BY <1>1, <1>2, <1>10
    <2>2. ASSUME NEW v \in VirtPages, KSec(v)', v # req.page
          PROVE  KSec(v) /\ tt'[KernelId][v] = tt[KernelId][v]
      BY <1>6, <2>2 DEF KSec, Private
    <2>3. KernelSound'
      <3>1. ASSUME NEW v \in VirtPages, KSec(v)'
            PROVE  /\ tt'[KernelId][v].sec \in Frames
                   /\ paddr_to_asid_map'[tt'[KernelId][v].sec] = KernelId
        BY <1>5, <1>6, <1>7, <1>8, <1>10, <2>2, <3>1 DEF MemSound, KernelSound
      <3>2. ASSUME NEW u \in VirtPages, NEW v \in VirtPages, KSec(u)', KSec(v)', u # v
            PROVE  tt'[KernelId][u].sec # tt'[KernelId][v].sec
        BY <1>6, <1>7, <1>8, <1>10, <2>2, <3>2 DEF MemSound, KernelSound
      <3>3. QED
        BY <3>1, <3>2 DEF KernelSound
    <2>4. WindowSound'
      <3>1. CASE req.ret # "copy"
        BY <1>4, <3>1 DEF WindowSound, Loaded
      <3>2. CASE req.ret = "copy"
        <4>1. req.page >= LoadPage /\ req.last = LoadEnd(file.n_alloc)
          BY <1>4, <3>2 DEF MemSound, WindowSound
        <4>2. \A v \in VirtPages : Loaded(v)' <=> (v >= LoadPage /\ v <= req.page)
          BY <1>2, <1>4, <3>2, LayoutAssumption, SizeAssumption DEF Loaded, VirtPages
        <4>3. \A v \in VirtPages : Loaded(v) <=> (v >= LoadPage /\ v < req.page)
          BY <1>2, <1>4, <3>2, LayoutAssumption, SizeAssumption DEF Loaded, VirtPages
        <4>4. \A v \in VirtPages : Loaded(v)' => Loaded(v) \/ v = req.page
          BY <1>3, <4>2, <4>3, LayoutAssumption, SizeAssumption DEF VirtPages
        <4>5. \A v \in VirtPages : KSec(v)' => KSec(v) /\ v # req.page
          BY <1>3, <2>2, <4>1, LayoutAssumption, SizeAssumption DEF KSec, VirtPages
        <4>6. ASSUME NEW v \in VirtPages, Loaded(v)'
              PROVE  /\ Private(tt'[KernelId][v])
                     /\ tt'[KernelId][v].sec \in Frames
                     /\ paddr_to_asid_map'[tt'[KernelId][v].sec] = KernelId
          BY <1>5, <1>6, <1>7, <1>9, <1>10, <4>4, <4>6 DEF MemSound, WindowSound
        <4>7. ASSUME NEW v \in VirtPages, NEW u \in VirtPages, Loaded(v)',
                     KSec(u)' \/ Loaded(u)', u # v
              PROVE  tt'[KernelId][u].sec # tt'[KernelId][v].sec
          <5>1. CASE v = req.page
            BY <1>6, <1>7, <1>8, <1>9, <1>10, <4>4, <4>5, <4>7, <5>1
          <5>2. CASE v # req.page
            <6>1. Loaded(v) /\ tt'[KernelId][v] = tt[KernelId][v]
              BY <1>6, <4>4, <4>7, <5>2
            <6>2. CASE u = req.page
              BY <1>6, <1>7, <1>9, <1>10, <6>1, <6>2
            <6>3. CASE u # req.page
              <7>1. (KSec(u) \/ Loaded(u)) /\ tt'[KernelId][u] = tt[KernelId][u]
                BY <1>6, <4>4, <4>5, <4>7, <6>3
              <7>2. QED
                BY <4>7, <6>1, <7>1 DEF MemSound, WindowSound
            <6>4. QED
              BY <6>2, <6>3
          <5>3. QED
            BY <5>1, <5>2
        <4>8. req'.page >= LoadPage /\ req'.last = LoadEnd(file'.n_alloc)
          BY <1>2, <1>4, <4>1, LayoutAssumption, SizeAssumption DEF VirtPages
        <4>9. QED
          BY <4>6, <4>7, <4>8 DEF WindowSound
      <3>3. QED
        BY <3>1, <3>2
    <2>5. ChildSound'
      <3>1. ~ChildLive'
        BY <1>4, <1>10 DEF ChildLive
      <3>2. ChildFresh' => ChildFresh
        BY <1>4 DEF ChildFresh
      <3>3. QED
        BY <2>1, <3>1, <3>2 DEF MemSound, ChildSound, Private
    <2>6. QED
      BY <2>3, <2>4, <2>5 DEF MemSound
  <1>11. CASE req.pt = ChildId
    <2>1. tt'[KernelId] = tt[KernelId]
      BY <1>1, <1>2, <1>11
    <2>2. req.ret # "copy" /\ km.ret # "load"
      BY <1>4, <1>11 DEF CallsMatch
    <2>3. ChildLive
      BY <1>4, <1>11 DEF ChildLive
    <2>4. KernelSound'
      BY <1>5, <1>8, <2>1 DEF MemSound, KernelSound, KSec, Private
    <2>5. WindowSound'
      BY <1>4, <2>2 DEF WindowSound, Loaded
    <2>6. \A v \in VirtPages : Private(tt[ChildId][v]) => tt[ChildId][v].sec # p
      BY <1>1, <2>3 DEF MemSound, ChildSound
    <2>7. ASSUME NEW v \in VirtPages, Private(tt'[ChildId][v])
          PROVE  /\ tt'[ChildId][v].sec \in Frames
                 /\ paddr_to_asid_map'[tt'[ChildId][v].sec] # 0
                 /\ \A u \in VirtPages : KSec(u)' => tt'[KernelId][u].sec # tt'[ChildId][v].sec
      <3>1. \A u \in VirtPages : KSec(u)' => KSec(u) /\ tt'[KernelId][u] = tt[KernelId][u]
        BY <2>1 DEF KSec, Private
      <3>2. CASE v = req.page
        BY <1>5, <1>6, <1>7, <1>8, <1>11, <3>1, <3>2
      <3>3. CASE v # req.page
        <4>1. tt'[ChildId][v] = tt[ChildId][v]
          BY <1>6, <3>3
        <4>2. QED
          BY <1>5, <2>3, <2>6, <2>7, <3>1, <4>1 DEF MemSound, ChildSound
      <3>4. QED
        BY <3>2, <3>3
    <2>8. ASSUME NEW v \in VirtPages, NEW u \in VirtPages, u # v,
                 Private(tt'[ChildId][v]), Private(tt'[ChildId][u])
          PROVE  tt'[ChildId][u].sec # tt'[ChildId][v].sec
      BY <1>6, <1>7, <1>11, <2>3, <2>6, <2>8 DEF MemSound, ChildSound
    <2>9. ChildSound'
      BY <1>4, <2>2, <2>7, <2>8 DEF ChildSound, ChildFresh
    <2>10. QED
      BY <2>4, <2>5, <2>9 DEF MemSound
  <1>12. QED
    BY <1>2, <1>10, <1>11

LEMMA IsolationNext == TypeOK /\ IsolationInv /\ [Next]_vars => IsolationInv'
  <1> SUFFICES ASSUME TypeOK, IsolationInv, [Next]_vars PROVE IsolationInv'
    OBVIOUS
  <1>1. CallsMatch'
    BY CallsNext DEF IsolationInv
  <1>2. CASE pc = "off"
    <2>1. UNCHANGED vars \/ VmEnable
      BY <1>2 DEF Next, KernelStep, ShellStep, Reboot, MapSection, OutOfMemory, MapDone,
         SetTtbr, SetAsid, SbrkMap, SbrkMapped, SbrkZero, SbrkAbort, KmallocGrow,
         KmallocTake, ExecBegin, ExecLoad, ExecShare, ElfMap, ElfInstr, ElfNoRoom,
         ElfFail, ElfDone, ExecInstr, ExecInstrAbort, ExecNoHeap, ExecJump, ExecFlush,
         ExecUnmap, ShellRead, do_run, ShellReboot, ChildSbrk, ChildReturn, TlbFill,
         TlbEvict, MmuOn
    <2>2. CASE UNCHANGED vars
      BY <1>1, <1>2, <2>2 DEF vars, IsolationInv
    <2>3. CASE VmEnable
      BY <1>1, <2>3, IsolationBoot DEF IsolationInv, MemSound
    <2>4. QED
      BY <2>1, <2>2, <2>3
  <1>3. CASE pc # "off"
    <2>1. CallsMatch /\ MemSound
      BY <1>3 DEF IsolationInv, MemSound
    <2>2. MemSound'
      <3>1. CASE VmEnable
        BY <1>3, <3>1 DEF VmEnable
      <3>2. CASE MapSection
        BY <2>1, <3>2, IsolationMap
      <3>3. CASE ExecBegin
        BY <2>1, <3>3, IsolationBegin
      <3>4. CASE ExecShare
        BY <2>1, <3>4, IsolationShare
      <3>5. CASE ExecUnmap
        BY <2>1, <3>5, IsolationUnmap
      <3>6. CASE ~(VmEnable \/ MapSection \/ ExecBegin \/ ExecShare \/ ExecUnmap)
        BY <1>3, <2>1, <3>6, IsolationQuiet DEF Next, KernelStep, ShellStep
      <3>7. QED
        BY <3>1, <3>2, <3>3, <3>4, <3>5, <3>6
    <2>3. QED
      BY <1>1, <2>2 DEF IsolationInv, MemSound
  <1>4. QED
    BY <1>2, <1>3

LEMMA IsolationImplied == IsolationInv => Isolation
  BY DEF IsolationInv, KernelSound, ChildSound, KSec, Isolation, KernelFrames,
     KernelPages, ChildFrames, Pages, Injective

\* No two sections in use share physical memory, except the load window that
\* is meant to be shared: for every layout, every amount of SDRAM, every set
\* of executables (well formed or not) and every sequence of commands,
\* reboots and sbrk calls.
THEOREM IsolationCorrect == Spec => []Isolation
  <1>1. Init => TypeOK /\ IsolationInv
    BY TypeInit, IsolationInit
  <1>2. TypeOK /\ IsolationInv /\ [Next]_vars => TypeOK' /\ IsolationInv'
    BY TypeNext, IsolationNext DEF IsolationInv
  <1>3. IsolationInv => Isolation
    BY IsolationImplied
  <1>4. QED
    BY <1>1, <1>2, <1>3, PTL DEF Spec

\* A physical section never passes from one address space to another without
\* being freed first, and only the end of a run frees one; a reboot starts over.
THEOREM FreedBeforeReuseCorrect == Spec => FreedBeforeReuse
  <1>1. TypeOK /\ [Next]_vars => [OwnerStep]_vars
    <2> SUFFICES ASSUME TypeOK, Next PROVE OwnerStep
      OBVIOUS
    <2>1. CASE VmEnable
      BY <2>1 DEF VmEnable, OwnerStep
    <2>2. CASE MapSection
      BY <2>2 DEF MapSection, OwnerStep, find_available_page, FreeFrames, TypeOK
    <2>3. CASE ExecUnmap
      BY <2>3 DEF ExecUnmap, OwnerStep, mmu_unmap
    <2>4. CASE ~(VmEnable \/ MapSection \/ ExecUnmap)
      <3>1. UNCHANGED paddr_to_asid_map
        BY <2>4 DEF Next, KernelStep, ShellStep, Reboot, OutOfMemory, MapDone,
           SetTtbr, SetAsid, SbrkMap, SbrkMapped, SbrkZero, SbrkAbort, KmallocGrow,
           KmallocTake, ExecBegin, ExecLoad, ExecShare, ElfMap, ElfInstr, ElfNoRoom,
           ElfFail, ElfDone, ExecInstr, ExecInstrAbort, ExecNoHeap, ExecJump, ExecFlush,
           ShellRead, do_run, ShellReboot, ChildSbrk, ChildReturn, TlbFill, TlbEvict, mem
      <3>2. QED
        BY <3>1 DEF OwnerStep
    <2>5. QED
      BY <2>1, <2>2, <2>3, <2>4
  <1>2. Spec => []TypeOK
    BY TypeCorrect, PTL
  <1>3. QED
    BY <1>1, <1>2, PTL DEF Spec, FreedBeforeReuse
-----------------------------------------------------------------------------
(* The TLB: what it holds agrees with the active table, for every TLB. *)

\* The tables that boot and exec_file build have no other global entries.
LEMMA BuiltClean ==
    /\ Clean(BootTable)
    /\ \A t : Clean(FreshTable(t))
  <1>1. ASSUME NEW v \in VirtPages
        PROVE  /\ v \in GlobalPages => mmu_map_kernel_sections(EmptyTable)[v] = GlobalSec(v)
               /\ v \notin GlobalPages => mmu_map_kernel_sections(EmptyTable)[v] = Fault
    BY DEF mmu_map_kernel_sections, EmptyTable
  <1>2. Fault.tag = 0 /\ \A s : Section(s).nG = 1
    BY DEF Fault, Section
  <1>3. \A t : Clean(FreshTable(t))
    BY <1>1, <1>2 DEF Clean, FreshTable
  <1>4. Clean(BootTable)
    BY <1>1, <1>2 DEF Clean, BootTable
  <1>5. QED
    BY <1>3, <1>4

\* Mapping a section into a table adds no global entry.
LEMMA MapClean ==
    ASSUME NEW t \in Table, Clean(t), NEW u \in VirtPages, NEW p
    PROVE  Clean([t EXCEPT ![u] = Section(p)])
  BY DEF Clean, Table, Section

LEMMA ShareClean ==
    ASSUME Clean(tt[ChildId])
    PROVE  Clean(ShareWindow)
  BY DEF Clean, ShareWindow, Section
-----------------------------------------------------------------------------
(* Every step keeps the invariant *)

LEMMA TLBInit == Init => TLBInv
  BY DEF Init, TLBInv, MmuOn

\* A step that writes no table and fills no entry.
LEMMA TLBQuiet ==
    ASSUME TablesClean, EntriesSound, UNCHANGED tt, tlb' \subseteq tlb,
           ChildFresh' \/ ChildLive' => ChildFresh \/ ChildLive,
           ChildCached => ChildCached'
    PROVE  TablesClean' /\ EntriesSound'
  <1>1. TablesClean'
    BY DEF TablesClean, Clean
  <1>2. EntriesSound'
    BY DEF EntriesSound
  <1>3. QED
    BY <1>1, <1>2

LEMMA TLBNextQuiet ==
    ASSUME TypeOK, CallsMatch, TLBInv, MmuOn,
           \/ UNCHANGED vars
           \/ OutOfMemory
           \/ MapDone
           \/ SetTtbr
           \/ SetAsid
           \/ SbrkMap
           \/ SbrkMapped
           \/ SbrkZero
           \/ SbrkAbort
           \/ KmallocGrow
           \/ KmallocTake
           \/ ExecLoad
           \/ ElfMap
           \/ ElfInstr
           \/ ElfNoRoom
           \/ ElfFail
           \/ ElfDone
           \/ ExecInstr
           \/ ExecInstrAbort
           \/ ExecNoHeap
           \/ ExecJump
           \/ ExecUnmap
           \/ \E sz \in AllocSizes : ShellRead(sz)
           \/ \E f \in Files : do_run(f)
           \/ ShellReboot
           \/ \E n \in Incrs : ChildSbrk(n)
           \/ ChildReturn
           \/ TlbEvict
    PROVE  TLBInv'
  <1> USE DEF CallsMatch, KernelPoints, KmallocPoints, Ids, KernelId, ChildId,
              ChildFresh, ChildLive, ChildCached, SwitchSound, RunningId, SyncedMaps,
              mem, mmu, proc, call
  <1>i. SwitchSound /\ TablesClean /\ EntriesSound /\ SyncedMaps
    BY DEF TLBInv
  <1>t. current_proc \in Ids
    BY DEF TypeOK
  <1>p. pc' \in {"off", "panic"} => TLBInv'
    BY DEF TLBInv, MmuOn
  <1>q. ASSUME TablesClean', EntriesSound', SwitchSound', SyncedMaps' PROVE TLBInv'
    BY <1>q DEF TLBInv
  <1>0. CASE UNCHANGED vars
    BY <1>0, <1>i, <1>q, TLBQuiet DEF vars
  <1>1. CASE OutOfMemory
    BY <1>1, <1>p DEF OutOfMemory, Panic
  <1>2. CASE MapDone
    BY <1>2, <1>i, <1>t, <1>q, TLBQuiet DEF MapDone
  <1>3. CASE SetTtbr
    BY <1>3, <1>i, <1>t, <1>q, TLBQuiet DEF SetTtbr
  <1>4. CASE SetAsid
    BY <1>4, <1>i, <1>t, <1>q, TLBQuiet DEF SetAsid, MmuOn
  <1>5. CASE SbrkMap
    BY <1>5, <1>i, <1>t, <1>q, TLBQuiet DEF SbrkMap, StartMap
  <1>6. CASE SbrkMapped
    BY <1>6, <1>i, <1>t, <1>q, TLBQuiet DEF SbrkMapped, set_procid_ttbr0
  <1>7. CASE SbrkZero
    BY <1>7, <1>i, <1>t, <1>q, TLBQuiet DEF SbrkZero
  <1>8. CASE SbrkAbort
    BY <1>8, <1>p DEF SbrkAbort, Panic
  <1>9. CASE KmallocGrow
    BY <1>9, <1>i, <1>t, <1>q, TLBQuiet DEF KmallocGrow, kernel_sbrk, set_procid_ttbr0
  <1>10. CASE KmallocTake
    <2>1. km.ret \in {"shell", "exec", "load"}
      BY <1>10 DEF KmallocTake, TypeOK
    <2>2. QED
      BY <1>10, <2>1, <1>i, <1>t, <1>q, TLBQuiet DEF KmallocTake, NoKm
  <1>11. CASE ExecLoad
    BY <1>11, <1>i, <1>t, <1>q, TLBQuiet DEF ExecLoad, StartMap
  <1>12. CASE ElfMap
    BY <1>12, <1>i, <1>t, <1>q, TLBQuiet DEF ElfMap, StartMap
  <1>13. CASE ElfInstr
    BY <1>13, <1>i, <1>t, <1>q, TLBQuiet DEF ElfInstr
  <1>14. CASE ElfNoRoom
    BY <1>14, <1>p DEF ElfNoRoom, Panic
  <1>15. CASE ElfFail
    BY <1>15, <1>i, <1>t, <1>q, TLBQuiet DEF ElfFail
  <1>16. CASE ElfDone
    BY <1>16, <1>i, <1>t, <1>q, TLBQuiet DEF ElfDone, set_procid_ttbr0
  <1>17. CASE ExecInstr
    BY <1>17, <1>i, <1>t, <1>q, TLBQuiet DEF ExecInstr
  <1>18. CASE ExecInstrAbort
    BY <1>18, <1>p DEF ExecInstrAbort, Panic
  <1>19. CASE ExecNoHeap
    BY <1>19, <1>i, <1>t, <1>q, TLBQuiet DEF ExecNoHeap, set_procid_ttbr0
  <1>20. CASE ExecJump
    BY <1>20, <1>p, <1>i, <1>t, <1>q, TLBQuiet DEF ExecJump, Panic
  <1>21. CASE ExecUnmap
    BY <1>21, <1>i, <1>t, <1>q, TLBQuiet DEF ExecUnmap
  <1>22. CASE \E sz \in AllocSizes : ShellRead(sz)
    BY <1>22, <1>i, <1>t, <1>q, TLBQuiet DEF ShellRead, kmalloc
  <1>23. CASE \E f \in Files : do_run(f)
    BY <1>23, <1>i, <1>t, <1>q, TLBQuiet DEF do_run, kmalloc
  <1>24. CASE ShellReboot
    BY <1>24, <1>p DEF ShellReboot
  <1>25. CASE \E n \in Incrs : ChildSbrk(n)
    BY <1>25, <1>i, <1>t, <1>q, TLBQuiet DEF ChildSbrk, kernel_sbrk, set_procid_ttbr0
  <1>26. CASE ChildReturn
    BY <1>26, <1>i, <1>t, <1>q, TLBQuiet DEF ChildReturn, set_procid_ttbr0
  <1>27. CASE TlbEvict
    BY <1>27, <1>i, <1>t, <1>q, TLBQuiet DEF TlbEvict
  <1>28. QED
    BY <1>0, <1>1, <1>2, <1>3, <1>4, <1>5, <1>6, <1>7, <1>8, <1>9, <1>10, <1>11,
       <1>12, <1>13, <1>14, <1>15, <1>16, <1>17, <1>18, <1>19, <1>20, <1>21, <1>22,
       <1>23, <1>24, <1>25, <1>26, <1>27

\* vm_enable starts with an empty TLB and a table of its own making.
LEMMA TLBEnable == VmEnable /\ TypeOK => TLBInv'
  <1> SUFFICES ASSUME VmEnable, TypeOK PROVE TLBInv'
    OBVIOUS
  <1>1. tt'[KernelId] = BootTable
    BY DEF VmEnable, TypeOK, Ids
  <1>2. /\ pc' = "kmalloc" /\ tlb' = {} /\ asid' = KernelId /\ ttbr' = KernelId
        /\ km'.ret = "shell" /\ UNCHANGED req
    BY DEF VmEnable, kmalloc
  <1>3. Clean(tt'[KernelId])
    BY <1>1, BuiltClean
  <1>4. TablesClean'
    BY <1>2, <1>3 DEF TablesClean, Clean, ChildFresh, ChildLive
  <1>5. QED
    BY <1>2, <1>4 DEF TLBInv, SwitchSound, RunningId, EntriesSound, SyncedMaps

\* A walk of the active table.
LEMMA TLBFill ==
    ASSUME TypeOK, CallsMatch, TLBInv, NEW v \in VirtPages, TlbFill(v)
    PROVE  TLBInv'
  <1> USE DEF KernelId, ChildId, Ids
  <1>1. /\ MmuOn /\ SwitchSound /\ TablesClean /\ EntriesSound /\ SyncedMaps
        /\ ttbr \in Ids /\ tt \in [Ids -> Table]
    BY DEF TLBInv, TlbFill, TypeOK
  <1>2. /\ UNCHANGED <<pc, tt, asid, ttbr, current_proc, sw, req, km>>
        /\ tt[ttbr][v].tag # 0 /\ tlb' = tlb \cup {TlbEntry(v)}
    BY DEF TlbFill, mem, proc, call
  <1>3. SwitchSound' /\ SyncedMaps'
    BY <1>1, <1>2 DEF SwitchSound, RunningId, SyncedMaps
  <1>4. TablesClean'
    BY <1>1, <1>2 DEF TablesClean, Clean, ChildFresh, ChildLive
  <1>5. ChildCached' <=> ChildCached
    BY <1>2 DEF ChildCached
  <1>6. ttbr = ChildId => ChildLive
    BY <1>1 DEF SwitchSound, RunningId, ChildLive
  <1>7. Clean(tt[ttbr])
    BY <1>1, <1>6 DEF TablesClean
  <1>8. tt[ttbr][v].nG = 0 => v \in GlobalPages /\ tt[ttbr][v] = GlobalSec(v)
    BY <1>2, <1>7 DEF Clean
  <1>9. asid # 0 => asid = ttbr /\ (asid = ChildId => ChildCached)
    BY <1>1 DEF SwitchSound, RunningId, ChildCached
  <1>10. LET e == TlbEntry(v)
         IN  /\ e.va = v /\ e.pte = tt[ttbr][v]
             /\ tt[ttbr][v].nG # 0 => e.asid = asid
    BY DEF TlbEntry
  <1>11. EntriesSound'
    <2>1. ASSUME NEW e \in tlb'
          PROVE  /\ e.pte.nG = 0 => e.va \in GlobalPages /\ e.pte = GlobalSec(e.va)
                 /\ e.pte.nG # 0 /\ e.asid = KernelId => e.pte = tt[KernelId][e.va]
                 /\ e.pte.nG # 0 /\ e.asid = ChildId => ChildCached /\ e.pte = tt[ChildId][e.va]
      <3>1. CASE e \in tlb
        BY <1>1, <3>1 DEF EntriesSound
      <3>2. CASE e = TlbEntry(v)
        BY <1>8, <1>9, <1>10, <3>2
      <3>3. QED
        BY <1>2, <2>1, <3>1, <3>2
    <2>2. QED
      BY <1>2, <1>5, <2>1 DEF EntriesSound
  <1>12. QED
    BY <1>3, <1>4, <1>11 DEF TLBInv

\* mmu_map_section, with the invalidation that follows it or, from elf_load,
\* while no entry of a child exists.
LEMMA TLBMap == TypeOK /\ CallsMatch /\ TLBInv /\ MapSection => TLBInv'
  <1> SUFFICES ASSUME TypeOK, CallsMatch, TLBInv, MapSection PROVE TLBInv'
    OBVIOUS
  <1> USE DEF KernelId, ChildId, Ids
  <1>1. SwitchSound /\ TablesClean /\ EntriesSound /\ SyncedMaps
    BY DEF TLBInv, MapSection, MmuOn
  <1>2. PICK p \in Frames : tt' = [tt EXCEPT ![req.pt][req.page] = Section(p)]
    BY DEF MapSection
  <1>3. /\ req.pt \in Ids /\ req.page \in Nat /\ req.last \in VirtPages
        /\ tt \in [Ids -> Table] /\ req.sync \in {0, 1}
        /\ tlb \subseteq [asid : Ids \cup {0}, va : VirtPages, pte : Entry]
    BY DEF TypeOK
  <1>4. req.page \in VirtPages
    BY <1>3, SizeAssumption DEF MapSection, VirtPages
  <1>5. /\ pc = "map" /\ pc' = "map" /\ UNCHANGED <<asid, ttbr, km, current_proc, sw>>
        /\ req'.ret = req.ret /\ req'.pt = req.pt /\ req'.sync = req.sync
    BY DEF MapSection, TypeOK, proc
  <1>6. /\ tt'[req.pt] = [tt[req.pt] EXCEPT ![req.page] = Section(p)]
        /\ \A i \in Ids : i # req.pt => tt'[i] = tt[i]
    BY <1>2, <1>3
  <1>7. SwitchSound' /\ SyncedMaps'
    BY <1>1, <1>5 DEF SwitchSound, RunningId, SyncedMaps
  <1>8. /\ ChildFresh' <=> ChildFresh
        /\ ChildLive' <=> ChildLive
        /\ ChildCached' <=> ChildCached
    BY <1>5 DEF ChildFresh, ChildLive, ChildCached
  <1>9. TablesClean'
    <2>1. tt[req.pt] \in Table
      BY <1>3
    <2>2. Clean(tt[req.pt]) => Clean(tt'[req.pt])
      BY <1>4, <1>6, <2>1, MapClean
    <2>3. Clean(tt'[KernelId])
      BY <1>1, <1>3, <1>6, <2>2 DEF TablesClean
    <2>4. ChildFresh \/ ChildLive => Clean(tt'[ChildId])
      BY <1>1, <1>3, <1>6, <2>2 DEF TablesClean
    <2>5. QED
      BY <1>8, <2>3, <2>4 DEF TablesClean, Clean
  <1>10. ASSUME NEW i \in Ids, NEW u \in VirtPages, i # req.pt \/ u # req.page
         PROVE  tt'[i][u] = tt[i][u]
    BY <1>3, <1>4, <1>6, <1>10 DEF Table
  <1>11. tlb' \subseteq tlb
    BY DEF MapSection, mmu_sync
  <1>12. \A e \in tlb' : /\ e.pte.nG # 0 /\ e.asid = req.pt
                         /\ e.asid = ChildId => ChildCached
                         => e.va # req.page
    <2>1. CASE req.sync = 1
      BY <2>1 DEF MapSection, mmu_sync
    <2>2. CASE req.sync # 1
      <3>1. req.ret = "elf_instr" /\ req.pt = ChildId /\ current_proc = KernelId
        BY <1>1, <1>5, <2>2 DEF SyncedMaps, CallsMatch
      <3>2. ~ChildCached
        BY <1>5, <3>1 DEF ChildCached
      <3>3. QED
        BY <3>1, <3>2
    <2>3. QED
      BY <2>1, <2>2
  <1>13. EntriesSound'
    <2>1. ASSUME NEW e \in tlb'
          PROVE  /\ e.pte.nG = 0 => e.va \in GlobalPages /\ e.pte = GlobalSec(e.va)
                 /\ e.pte.nG # 0 /\ e.asid = KernelId => e.pte = tt'[KernelId][e.va]
                 /\ e.pte.nG # 0 /\ e.asid = ChildId => ChildCached /\ e.pte = tt'[ChildId][e.va]
      <3>1. e \in tlb /\ e.va \in VirtPages
        BY <1>3, <1>11, <2>1
      <3>2. /\ e.pte.nG = 0 => e.va \in GlobalPages /\ e.pte = GlobalSec(e.va)
            /\ e.pte.nG # 0 /\ e.asid = KernelId => e.pte = tt[KernelId][e.va]
            /\ e.pte.nG # 0 /\ e.asid = ChildId => ChildCached /\ e.pte = tt[ChildId][e.va]
        BY <1>1, <3>1 DEF EntriesSound
      <3>3. ASSUME e.pte.nG # 0, e.asid \in Ids
            PROVE  tt'[e.asid][e.va] = tt[e.asid][e.va]
        BY <1>10, <1>12, <2>1, <3>1, <3>2, <3>3
      <3>4. QED
        BY <3>2, <3>3
    <2>2. QED
      BY <1>8, <2>1 DEF EntriesSound
  <1>14. QED
    BY <1>7, <1>9, <1>13 DEF TLBInv

\* exec_file writes the child's table only while none of its entries is cached.
LEMMA TLBExec == TypeOK /\ CallsMatch /\ TLBInv /\ (ExecBegin \/ ExecShare) => TLBInv'
  <1> SUFFICES ASSUME TypeOK, CallsMatch, TLBInv, ExecBegin \/ ExecShare PROVE TLBInv'
    OBVIOUS
  <1> USE DEF KernelId, ChildId, Ids
  <1>1. SwitchSound /\ TablesClean /\ EntriesSound /\ SyncedMaps
    BY DEF TLBInv, ExecBegin, ExecShare, MmuOn
  <1>2. /\ pc \in {"exec", "copy"} /\ pc' \in {"kmalloc", "elf", "unmap"}
        /\ UNCHANGED <<asid, ttbr, tlb, current_proc>>
    BY DEF ExecBegin, ExecShare, kmalloc, mmu, proc
  <1>3. tt'[KernelId] = tt[KernelId] /\ Clean(tt'[ChildId])
    <2>1. CASE ExecBegin
      <3>1. tt'[ChildId] = FreshTable(tt[ChildId]) /\ tt'[KernelId] = tt[KernelId]
        BY <2>1 DEF ExecBegin, TypeOK
      <3>2. QED
        BY <3>1, BuiltClean
    <2>2. CASE ExecShare
      <3>1. tt'[ChildId] = ShareWindow /\ tt'[KernelId] = tt[KernelId]
        BY <2>2 DEF ExecShare, TypeOK
      <3>2. Clean(tt[ChildId])
        BY <1>1, <2>2 DEF ExecShare, TablesClean, ChildFresh
      <3>3. QED
        BY <3>1, <3>2, ShareClean
    <2>3. QED
      BY <2>1, <2>2
  <1>4. TablesClean'
    BY <1>1, <1>3 DEF TablesClean, Clean
  <1>5. SwitchSound' /\ SyncedMaps'
    BY <1>1, <1>2 DEF SwitchSound, RunningId, SyncedMaps
  <1>6. ~ChildCached
    BY <1>2 DEF ChildCached
  <1>7. EntriesSound'
    BY <1>1, <1>2, <1>3, <1>6 DEF EntriesSound
  <1>8. QED
    BY <1>4, <1>5, <1>7 DEF TLBInv

\* mmu_inv_asid leaves no entry of the child for the next process with its ASID.
LEMMA TLBFlush == TypeOK /\ CallsMatch /\ TLBInv /\ ExecFlush => TLBInv'
  <1> SUFFICES ASSUME TypeOK, CallsMatch, TLBInv, ExecFlush PROVE TLBInv'
    OBVIOUS
  <1> USE DEF KernelId, ChildId, Ids
  <1>1. SwitchSound /\ TablesClean /\ EntriesSound /\ SyncedMaps
    BY DEF TLBInv, ExecFlush, MmuOn
  <1>2. /\ pc = "inv" /\ pc' = "unmap"
        /\ UNCHANGED <<tt, asid, ttbr, current_proc, sw, req, km>>
    BY DEF ExecFlush, mem, proc, call
  <1>3. SwitchSound' /\ SyncedMaps'
    BY <1>1, <1>2 DEF SwitchSound, RunningId, SyncedMaps
  <1>4. TablesClean'
    BY <1>1, <1>2 DEF TablesClean, Clean, ChildLive
  <1>5. \A e \in tlb' : e \in tlb /\ ~(e.asid = ChildId /\ e.pte.nG # 0)
    BY DEF ExecFlush, mmu_inv_asid
  <1>6. EntriesSound'
    BY <1>1, <1>2, <1>5 DEF EntriesSound
  <1>7. QED
    BY <1>3, <1>4, <1>6 DEF TLBInv

\* With the MMU off only vm_enable and the reboot of a panic can happen.
LEMMA OffSteps ==
    ASSUME [Next]_vars, ~MmuOn, ~VmEnable, ~Reboot
    PROVE  UNCHANGED vars
  BY DEF MmuOn, Next, KernelStep, ShellStep, MapSection, OutOfMemory, MapDone,
     SetTtbr, SetAsid, SbrkMap, SbrkMapped, SbrkZero, SbrkAbort, KmallocGrow,
     KmallocTake, ExecBegin, ExecLoad, ExecShare, ElfMap, ElfInstr, ElfNoRoom,
     ElfFail, ElfDone, ExecInstr, ExecInstrAbort, ExecNoHeap, ExecJump, ExecFlush,
     ExecUnmap, ShellRead, do_run, ShellReboot, ChildSbrk, ChildReturn, TlbFill,
     TlbEvict

LEMMA TLBNext == TypeOK /\ CallsMatch /\ TLBInv /\ [Next]_vars => TLBInv'
  <1> SUFFICES ASSUME TypeOK, CallsMatch, TLBInv, [Next]_vars PROVE TLBInv'
    OBVIOUS
  <1>1. CASE VmEnable
    BY <1>1, TLBEnable
  <1>2. CASE Reboot
    BY <1>2 DEF Reboot, TLBInv, MmuOn
  <1>3. CASE MapSection
    BY <1>3, TLBMap
  <1>4. CASE ExecBegin \/ ExecShare
    BY <1>4, TLBExec
  <1>5. CASE ExecFlush
    BY <1>5, TLBFlush
  <1>6. CASE \E v \in VirtPages : TlbFill(v)
    BY <1>6, TLBFill
  <1>7. CASE ~MmuOn /\ ~(VmEnable \/ Reboot)
    <2>1. UNCHANGED vars
      BY <1>7, OffSteps
    <2>2. QED
      BY <1>7, <2>1 DEF vars, TLBInv, MmuOn
  <1>8. CASE /\ MmuOn
             /\ ~(VmEnable \/ Reboot \/ MapSection \/ ExecBegin \/ ExecShare \/ ExecFlush)
             /\ ~\E v \in VirtPages : TlbFill(v)
    BY <1>8, TLBNextQuiet DEF Next, KernelStep, ShellStep
  <1>9. QED
    BY <1>1, <1>2, <1>3, <1>4, <1>5, <1>6, <1>7, <1>8

\* With any number of entries, filled and dropped at any moment, the TLB never
\* answers with a translation that the active table does not hold: not for a
\* remapped load window, not for the next process that gets ASID 2, not for a
\* walk in the middle of set_procid_ttbr0.  The one exception is a global
\* section that a program's own mapping has taken over: nothing in exec_file
\* keeps a segment or a heap away from the sections of the peripherals.
THEOREM TLBCoherentCorrect == Spec => [](GlobalsKept => TLBCoherent)
  <1>1. Init => TypeOK /\ CallsMatch /\ TLBInv
    BY TypeInit, CallsInit, TLBInit
  <1>2. TypeOK /\ CallsMatch /\ TLBInv /\ [Next]_vars => TypeOK' /\ CallsMatch' /\ TLBInv'
    BY TypeNext, CallsNext, TLBNext
  <1>3. TLBInv => (GlobalsKept => TLBCoherent)
    BY DEF TLBInv, GlobalsKept, TLBCoherent, SwitchSound, RunningId, EntriesSound,
       KernelId, ChildId
  <1>4. QED
    BY <1>1, <1>2, <1>3, PTL DEF Spec
=============================================================================
