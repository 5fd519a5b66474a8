--------------------------- MODULE KernelLoadProofs --------------------------
(* Proofs about what a child gets and gives back, and about where the kernel *)
(* edits its tables, for every layout and every set of executables.          *)
EXTENDS KernelProofs
-----------------------------------------------------------------------------
(* The end of a run frees all the child had *)

\* A step that changes neither tables nor owners keeps the invariant if the
\* child does not die.
LEMMA ReclaimQuiet ==
    ASSUME ReclaimInv, UNCHANGED mem, MmuOn' => MmuOn, MmuOn' /\ ChildLive => ChildLive'
    PROVE  ReclaimInv'
  BY DEF ReclaimInv, mem

LEMMA ReclaimNextQuiet ==
    ASSUME TypeOK, CallsMatch, ReclaimInv, MmuOn,
           \/ UNCHANGED vars
           \/ OutOfMemory
           \/ MapDone
           \/ SetTtbr
           \/ SetAsid
           \/ SbrkMap
           \/ SbrkMapped
           \/ SbrkZero
           \/ SbrkAbort
           \/ KmallocGrow
           \/ KmallocTake
           \/ ExecLoad
           \/ ElfMap
           \/ ElfInstr
           \/ ElfNoRoom
           \/ ElfFail
           \/ ElfDone
           \/ ExecInstr
           \/ ExecInstrAbort
           \/ ExecNoHeap
           \/ ExecJump
           \/ ExecFlush
           \/ \E sz \in AllocSizes : ShellRead(sz)
           \/ \E f \in Files : do_run(f)
           \/ ShellReboot
           \/ \E n \in Incrs : ChildSbrk(n)
           \/ ChildReturn
           \/ \E v \in VirtPages : TlbFill(v)
           \/ TlbEvict
    PROVE  ReclaimInv'
  <1> USE DEF CallsMatch, KernelPoints, KmallocPoints, Ids, KernelId, ChildId,
              ChildLive, MmuOn, mem, mmu, proc, call
  <1>t. current_proc \in Ids
    BY DEF TypeOK
  <1>0. CASE UNCHANGED vars
    BY <1>0, ReclaimQuiet DEF vars
  <1>1. CASE OutOfMemory
    BY <1>1, <1>t, ReclaimQuiet DEF OutOfMemory, Panic
  <1>2. CASE MapDone
    BY <1>2, <1>t, ReclaimQuiet DEF MapDone
  <1>3. CASE SetTtbr
    BY <1>3, <1>t, ReclaimQuiet DEF SetTtbr
  <1>4. CASE SetAsid
    BY <1>4, <1>t, ReclaimQuiet DEF SetAsid
  <1>5. CASE SbrkMap
    BY <1>5, <1>t, ReclaimQuiet DEF SbrkMap, StartMap
  <1>6. CASE SbrkMapped
    BY <1>6, <1>t, ReclaimQuiet DEF SbrkMapped, set_procid_ttbr0
  <1>7. CASE SbrkZero
    BY <1>7, <1>t, ReclaimQuiet DEF SbrkZero
  <1>8. CASE SbrkAbort
    BY <1>8, <1>t, ReclaimQuiet DEF SbrkAbort, Panic
  <1>9. CASE KmallocGrow
    BY <1>9, <1>t, ReclaimQuiet DEF KmallocGrow, kernel_sbrk, set_procid_ttbr0
  <1>10. CASE KmallocTake
    BY <1>10, <1>t, ReclaimQuiet DEF KmallocTake, NoKm
  <1>11. CASE ExecLoad
    BY <1>11, <1>t, ReclaimQuiet DEF ExecLoad, StartMap
  <1>12. CASE ElfMap
    BY <1>12, <1>t, ReclaimQuiet DEF ElfMap, StartMap
  <1>13. CASE ElfInstr
    BY <1>13, <1>t, ReclaimQuiet DEF ElfInstr
  <1>14. CASE ElfNoRoom
    BY <1>14, <1>t, ReclaimQuiet DEF ElfNoRoom, Panic
  <1>15. CASE ElfFail
    BY <1>15, <1>t, ReclaimQuiet DEF ElfFail
  <1>16. CASE ElfDone
    BY <1>16, <1>t, ReclaimQuiet DEF ElfDone, set_procid_ttbr0
  <1>17. CASE ExecInstr
    BY <1>17, <1>t, ReclaimQuiet DEF ExecInstr
  <1>18. CASE ExecInstrAbort
    BY <1>18, <1>t, ReclaimQuiet DEF ExecInstrAbort, Panic
  <1>19. CASE ExecNoHeap
    BY <1>19, <1>t, ReclaimQuiet DEF ExecNoHeap, set_procid_ttbr0
  <1>20. CASE ExecJump
    BY <1>20, <1>t, ReclaimQuiet DEF ExecJump, Panic
  <1>21. CASE ExecFlush
    BY <1>21, <1>t, ReclaimQuiet DEF ExecFlush
  <1>22. CASE \E sz \in AllocSizes : ShellRead(sz)
    BY <1>22, <1>t, ReclaimQuiet DEF ShellRead, kmalloc
  <1>23. CASE \E f \in Files : do_run(f)
    BY <1>23, <1>t, ReclaimQuiet DEF do_run, kmalloc
  <1>24. CASE ShellReboot
    BY <1>24, <1>t, ReclaimQuiet DEF ShellReboot
  <1>25. CASE \E n \in Incrs : ChildSbrk(n)
    BY <1>25, <1>t, ReclaimQuiet DEF ChildSbrk, kernel_sbrk, set_procid_ttbr0
  <1>26. CASE ChildReturn
    BY <1>26, <1>t, ReclaimQuiet DEF ChildReturn, set_procid_ttbr0
  <1>27. CASE \E v \in VirtPages : TlbFill(v)
    BY <1>27, <1>t, ReclaimQuiet DEF TlbFill
  <1>28. CASE TlbEvict
    BY <1>28, <1>t, ReclaimQuiet DEF TlbEvict
  <1>29. QED
    BY <1>0, <1>1, <1>2, <1>3, <1>4, <1>5, <1>6, <1>7, <1>8, <1>9, <1>10, <1>11,
       <1>12, <1>13, <1>14, <1>15, <1>16, <1>17, <1>18, <1>19, <1>20, <1>21, <1>22,
       <1>23, <1>24, <1>25, <1>26, <1>27, <1>28

\* A frame that mmu_map_section takes for the child is in the child's table;
\* none that was there before is lost.
LEMMA ReclaimMap ==
    ASSUME TypeOK, CallsMatch, ReclaimInv, SectionsFresh, MapSection
    PROVE  ReclaimInv'
  <1>1. PICK p \in Frames :
             /\ paddr_to_asid_map[p] = 0
             /\ paddr_to_asid_map' = [paddr_to_asid_map EXCEPT ![p] = req.pt]
             /\ tt' = [tt EXCEPT ![req.pt][req.page] = Section(p)]
    BY DEF MapSection, find_available_page, FreeFrames
  <1>2. /\ pc = "map" /\ pc' = "map" /\ req.page <= req.last /\ req'.pt = req.pt
        /\ UNCHANGED current_proc
    BY DEF MapSection, proc, TypeOK
  <1>3. /\ req.page \in VirtPages /\ req.pt \in Ids /\ tt \in [Ids -> Table]
        /\ paddr_to_asid_map \in [Frames -> Ids \cup {0}] /\ ChildId \in Ids
    BY <1>2, SizeAssumption DEF TypeOK, VirtPages, Ids
  <1>4. MmuOn /\ (ChildLive <=> req.pt = ChildId) /\ (ChildLive' <=> req.pt = ChildId)
    BY <1>2 DEF MmuOn, ChildLive
  <1>5. CASE req.pt = ChildId
    <2>1. /\ tt'[ChildId] = [tt[ChildId] EXCEPT ![req.page] = Section(p)]
          /\ tt[ChildId] \in [VirtPages -> Entry]
      BY <1>1, <1>3, <1>5 DEF Table
    <2>2. /\ tt'[ChildId][req.page] = Section(p)
          /\ \A v \in VirtPages : v # req.page => tt'[ChildId][v] = tt[ChildId][v]
      BY <1>3, <2>1
    <2>3. Private(Section(p)) /\ Section(p).sec = p
      BY DEF Private, Section
    <2>4. ASSUME NEW q \in Frames, paddr_to_asid_map'[q] = ChildId
          PROVE  \E v \in VirtPages : Private(tt'[ChildId][v]) /\ tt'[ChildId][v].sec = q
      <3>1. CASE q = p
        BY <1>3, <2>2, <2>3, <3>1
      <3>2. CASE q # p
        <4>1. paddr_to_asid_map[q] = ChildId
          BY <1>1, <1>3, <2>4, <3>2
        <4>2. PICK v \in VirtPages : Private(tt[ChildId][v]) /\ tt[ChildId][v].sec = q
          BY <1>4, <4>1 DEF ReclaimInv
        <4>3. v # req.page
          BY <1>2, <1>5, <4>1, <4>2 DEF SectionsFresh
        <4>4. QED
          BY <2>2, <4>2, <4>3
      <3>3. QED
        BY <3>1, <3>2
    <2>5. QED
      BY <1>4, <1>5, <2>4 DEF ReclaimInv
  <1>6. CASE req.pt # ChildId
    <2>1. \A q \in Frames : paddr_to_asid_map'[q] = ChildId => paddr_to_asid_map[q] = ChildId
      BY <1>1, <1>3, <1>6
    <2>2. QED
      BY <1>4, <1>6, <2>1 DEF ReclaimInv
  <1>7. QED
    BY <1>5, <1>6

LEMMA ReclaimNext ==
    ASSUME TypeOK, CallsMatch, ReclaimInv, SectionsFresh, [Next]_vars
    PROVE  ReclaimInv'
  <1>1. CASE VmEnable
    <2>1. \A p \in Frames : paddr_to_asid_map'[p] # ChildId
      BY <1>1 DEF VmEnable, BootMap, KernelId, ChildId
    <2>2. QED
      BY <2>1 DEF ReclaimInv
  <1>2. CASE Reboot
    BY <1>2 DEF Reboot, ReclaimInv, MmuOn
  <1>3. CASE MapSection
    BY <1>3, ReclaimMap
  <1>4. CASE ExecBegin \/ ExecShare
    <2>1. /\ pc \in {"exec", "copy"} /\ UNCHANGED paddr_to_asid_map
      BY <1>4 DEF ExecBegin, ExecShare
    <2>2. MmuOn /\ ~ChildLive
      BY <2>1 DEF MmuOn, ChildLive
    <2>3. \A p \in Frames : paddr_to_asid_map[p] # ChildId
      BY <2>2 DEF ReclaimInv
    <2>4. QED
      BY <2>1, <2>3 DEF ReclaimInv
  <1>5. CASE ExecUnmap
    <2>1. /\ pc = "unmap"
          /\ paddr_to_asid_map' = mmu_unmap(paddr_to_asid_map, tt[ChildId])
      BY <1>5 DEF ExecUnmap
    <2>2. \A p \in Frames : paddr_to_asid_map'[p] # ChildId
      BY <2>1 DEF ReclaimInv, MmuOn, mmu_unmap, ChildId
    <2>3. QED
      BY <2>2 DEF ReclaimInv
  <1>6. CASE ~MmuOn /\ ~(VmEnable \/ Reboot)
    <2>1. UNCHANGED vars
      BY <1>6, OffSteps
    <2>2. QED
      BY <1>6, <2>1 DEF vars, ReclaimInv, MmuOn
  <1>7. CASE /\ MmuOn
             /\ ~(VmEnable \/ Reboot \/ MapSection \/ ExecBegin \/ ExecShare \/ ExecUnmap)
    BY <1>7, ReclaimNextQuiet DEF Next, KernelStep, ShellStep
  <1>8. QED
    BY <1>1, <1>2, <1>3, <1>4, <1>5, <1>6, <1>7

\* Back at the prompt no frame is a child's any more, whether it ran, was
\* rejected after any number of mapped sections or never started: for every
\* amount of memory, every layout and every file.  The hypothesis is what
\* mmu_map_section leaves to its callers: mapping a section that the child
\* already owns would lose the frame behind it.
THEOREM ChildReclaimedCorrect == Spec /\ []SectionsFresh => []ChildReclaimed
  <1>1. Init => TypeOK /\ CallsMatch /\ ReclaimInv
    <2>1. Init => ReclaimInv
      BY DEF Init, ReclaimInv, MmuOn
    <2>2. QED
      BY <2>1, TypeInit, CallsInit
  <1>2. TypeOK /\ CallsMatch /\ ReclaimInv /\ SectionsFresh /\ [Next]_vars
          => TypeOK' /\ CallsMatch' /\ ReclaimInv'
    BY TypeNext, CallsNext, ReclaimNext
  <1>3. ReclaimInv => ChildReclaimed
    BY DEF ReclaimInv, ChildReclaimed, MmuOn, ChildLive
  <1>4. QED
    BY <1>1, <1>2, <1>3, PTL DEF Spec
-----------------------------------------------------------------------------
(* The tables are mapped where they are edited *)

\* The kernel's heap is mapped from its first section up.
LEMMA FirstHeapPage ==
    ASSUME NEW addr \in Nat, HeapPage > 0, HeapPage * Sec <= addr, addr < AddrSpace
    PROVE  FirstPage(addr) >= HeapPage
  <1>1. /\ HeapPage \in Nat /\ HeapPage < NVirt /\ NVirt \in Nat /\ Sec \in Nat /\ Sec > 0
    BY SizeAssumption, LayoutAssumption DEF VirtPages
  <1>2. HeapPage * Sec \in Nat /\ HeapPage * Sec >= Sec
    <2>1. (HeapPage - 1) * Sec >= 0
      BY <1>1
    <2>2. QED
      BY <1>1, <2>1
  <1>3. PageOf(HeapPage * Sec - 1) = HeapPage - 1
    <2>1. /\ (HeapPage - 1) * Sec <= HeapPage * Sec - 1
          /\ HeapPage * Sec - 1 < (HeapPage - 1 + 1) * Sec
      BY <1>1
    <2>2. (HeapPage * Sec - 1) \div Sec = HeapPage - 1
      BY <1>1, <1>2, <2>1, DivUnique
    <2>3. (HeapPage - 1) % NVirt = HeapPage - 1
      BY <1>1
    <2>4. QED
      BY <2>2, <2>3 DEF PageOf
  <1>4. /\ HeapPage * Sec - 1 \in Nat /\ addr - 1 \in Nat
        /\ HeapPage * Sec - 1 <= addr - 1 /\ addr - 1 < AddrSpace
    BY <1>1, <1>2, AddrSpaceType
  <1>5. PageOf(HeapPage * Sec - 1) <= PageOf(addr - 1) /\ PageOf(addr - 1) \in Int
    <2>1. PageOf(addr - 1) \in VirtPages
      BY <1>4, PageOfType
    <2>2. QED
      BY <1>4, <2>1, PageOfMono, SizeAssumption DEF VirtPages
  <1>6. QED
    BY <1>1, <1>3, <1>5 DEF FirstPage

\* A step that leaves the kernel's table and break alone and starts no mapping.
LEMMA TablesQuiet ==
    ASSUME TablesInv, MmuOn' => MmuOn, UNCHANGED tt,
           heap_end'[KernelId] = heap_end[KernelId],
           pc' = "map" => UNCHANGED <<pc, req>> \/ req'.pt # KernelId
    PROVE  TablesInv'
  BY DEF TablesInv

LEMMA TablesNextQuiet ==
    ASSUME TypeOK, CallsMatch, TablesInv, MmuOn,
           \/ UNCHANGED vars
           \/ OutOfMemory
           \/ MapDone
           \/ SetTtbr
           \/ SetAsid
           \/ SbrkMapped
           \/ SbrkAbort
           \/ KmallocGrow
           \/ KmallocTake
           \/ ElfMap
           \/ ElfInstr
           \/ ElfNoRoom
           \/ ElfFail
           \/ ElfDone
           \/ ExecInstr
           \/ ExecInstrAbort
           \/ ExecNoHeap
           \/ ExecJump
           \/ ExecFlush
           \/ \E sz \in AllocSizes : ShellRead(sz)
           \/ \E f \in Files : do_run(f)
           \/ ShellReboot
           \/ \E n \in Incrs : ChildSbrk(n)
           \/ ChildReturn
           \/ \E v \in VirtPages : TlbFill(v)
           \/ TlbEvict
    PROVE  TablesInv'
  <1> USE DEF CallsMatch, KernelPoints, KmallocPoints, Ids, KernelId, ChildId,
              MmuOn, mem, mmu, proc, call
  <1>t. /\ heap_end \in [Ids -> Nat] /\ current_proc \in Ids
        /\ req.ret \in {"none", "sbrk_mapped", "copy", "elf_instr"}
        /\ sw.ret \in {"none", "instr", "sbrk_map", "sbrk_zero", "inv"}
        /\ km.ret \in {"none", "shell", "exec", "load"}
    BY DEF TypeOK
  <1>0. CASE UNCHANGED vars
    BY <1>0, TablesQuiet DEF vars
  <1>1. CASE OutOfMemory
    BY <1>1, <1>t, TablesQuiet DEF OutOfMemory, Panic
  <1>2. CASE MapDone
    BY <1>2, <1>t, TablesQuiet DEF MapDone
  <1>3. CASE SetTtbr
    BY <1>3, <1>t, TablesQuiet DEF SetTtbr
  <1>4. CASE SetAsid
    BY <1>4, <1>t, TablesQuiet DEF SetAsid
  <1>5. CASE SbrkMapped
    BY <1>5, <1>t, TablesQuiet DEF SbrkMapped, set_procid_ttbr0
  <1>6. CASE SbrkAbort
    BY <1>6, <1>t, TablesQuiet DEF SbrkAbort, Panic
  <1>7. CASE KmallocGrow
    BY <1>7, <1>t, TablesQuiet DEF KmallocGrow, kernel_sbrk, set_procid_ttbr0
  <1>8. CASE KmallocTake
    BY <1>8, <1>t, TablesQuiet DEF KmallocTake, NoKm
  <1>9. CASE ElfMap
    BY <1>9, <1>t, TablesQuiet DEF ElfMap, StartMap
  <1>10. CASE ElfInstr
    BY <1>10, <1>t, TablesQuiet DEF ElfInstr
  <1>11. CASE ElfNoRoom
    BY <1>11, <1>t, TablesQuiet DEF ElfNoRoom, Panic
  <1>12. CASE ElfFail
    BY <1>12, <1>t, TablesQuiet DEF ElfFail
  <1>13. CASE ElfDone
    BY <1>13, <1>t, TablesQuiet DEF ElfDone, set_procid_ttbr0
  <1>14. CASE ExecInstr
    BY <1>14, <1>t, TablesQuiet DEF ExecInstr
  <1>15. CASE ExecInstrAbort
    BY <1>15, <1>t, TablesQuiet DEF ExecInstrAbort, Panic
  <1>16. CASE ExecNoHeap
    BY <1>16, <1>t, TablesQuiet DEF ExecNoHeap, set_procid_ttbr0
  <1>17. CASE ExecJump
    BY <1>17, <1>t, TablesQuiet DEF ExecJump, Panic
  <1>18. CASE ExecFlush
    BY <1>18, <1>t, TablesQuiet DEF ExecFlush
  <1>19. CASE \E sz \in AllocSizes : ShellRead(sz)
    BY <1>19, <1>t, TablesQuiet DEF ShellRead, kmalloc
  <1>20. CASE \E f \in Files : do_run(f)
    BY <1>20, <1>t, TablesQuiet DEF do_run, kmalloc
  <1>21. CASE ShellReboot
    BY <1>21, <1>t, TablesQuiet DEF ShellReboot
  <1>22. CASE \E n \in Incrs : ChildSbrk(n)
    BY <1>22, <1>t, TablesQuiet DEF ChildSbrk, kernel_sbrk, set_procid_ttbr0
  <1>23. CASE ChildReturn
    BY <1>23, <1>t, TablesQuiet DEF ChildReturn, set_procid_ttbr0
  <1>24. CASE \E v \in VirtPages : TlbFill(v)
    BY <1>24, <1>t, TablesQuiet DEF TlbFill
  <1>25. CASE TlbEvict
    BY <1>25, <1>t, TablesQuiet DEF TlbEvict
  <1>26. QED
    BY <1>0, <1>1, <1>2, <1>3, <1>4, <1>5, <1>6, <1>7, <1>8, <1>9, <1>10, <1>11,
       <1>12, <1>13, <1>14, <1>15, <1>16, <1>17, <1>18, <1>19, <1>20, <1>21, <1>22,
       <1>23, <1>24, <1>25

\* The steps that start a mapping for the kernel or move its break.
LEMMA TablesHeap ==
    ASSUME TypeOK, CallsMatch, TablesInv, TablesLow, BreakKept,
           SbrkMap \/ SbrkZero \/ ExecLoad
    PROVE  TablesInv'
  <1>t. /\ heap_end \in [Ids -> Nat] /\ current_proc \in Ids /\ KernelId \in Ids
        /\ incr \in Nat /\ TTPages \subseteq Nat /\ HeapPage \in Nat /\ LoadPage \in Nat
    BY LayoutAssumption, SizeAssumption DEF TypeOK, Ids, Frames, VirtPages
  <1>1. CASE SbrkMap
    <2>1. /\ pc = "sbrk_map" /\ pc' = "map" /\ UNCHANGED <<tt, heap_end>>
          /\ req'.pt = current_proc /\ req'.page = FirstPage(heap_end[current_proc])
      BY <1>1 DEF SbrkMap, StartMap, mem, proc
    <2>2. MmuOn
      BY <2>1 DEF MmuOn
    <2>3. ASSUME req'.pt = KernelId, NEW v \in TTPages PROVE v < req'.page
      <3>1. HeapPage > 0 /\ v < HeapPage
        BY <1>t DEF TablesLow
      <3>2. /\ heap_end[KernelId] \in Nat /\ HeapPage * Sec <= heap_end[KernelId]
            /\ heap_end[KernelId] < AddrSpace
        BY <1>t, <2>2 DEF BreakKept, TablesInv
      <3>3. FirstPage(heap_end[KernelId]) >= HeapPage /\ FirstPage(heap_end[KernelId]) \in Nat
        BY <3>1, <3>2, FirstHeapPage, PageRange, <1>t
      <3>4. QED
        BY <2>1, <2>3, <3>1, <3>3, <1>t
    <2>4. QED
      BY <2>1, <2>2, <2>3 DEF TablesInv
  <1>2. CASE SbrkZero
    <2>1. /\ pc = "sbrk_zero" /\ pc' # "map" /\ UNCHANGED tt
          /\ heap_end' = [heap_end EXCEPT ![current_proc] =
                            (heap_end[current_proc] + incr) % AddrSpace]
      BY <1>2 DEF SbrkZero, mem
    <2>2. heap_end[KernelId] < AddrSpace /\ MmuOn
      BY <2>1 DEF TablesInv, MmuOn
    <2>3. heap_end[current_proc] + incr \in Nat
      BY <1>t
    <2>4. (heap_end[current_proc] + incr) % AddrSpace < AddrSpace
      BY <2>3, AddrSpaceType
    <2>5. heap_end'[KernelId] < AddrSpace
      BY <1>t, <2>1, <2>2, <2>4
    <2>6. QED
      BY <2>1, <2>2, <2>5 DEF TablesInv
  <1>3. CASE ExecLoad
    <2>1. /\ pc = "load" /\ pc' = "map" /\ UNCHANGED <<tt, heap_end>>
          /\ req'.page = LoadPage
      BY <1>3, FirstLoadPage DEF ExecLoad, StartMap, mem, proc
    <2>2. MmuOn
      BY <2>1 DEF MmuOn
    <2>3. QED
      BY <2>1, <2>2 DEF TablesInv, TablesLow
  <1>4. QED
    BY <1>1, <1>2, <1>3

LEMMA TablesMap ==
    ASSUME TypeOK, TablesInv, MapSection
    PROVE  TablesInv'
  <1>1. PICK p : tt' = [tt EXCEPT ![req.pt][req.page] = Section(p)]
    BY DEF MapSection
  <1>2. /\ pc = "map" /\ pc' = "map" /\ UNCHANGED heap_end
        /\ req'.pt = req.pt /\ req'.page = req.page + 1
    BY DEF MapSection, proc, TypeOK
  <1>3. /\ tt \in [Ids -> [VirtPages -> Entry]] /\ req.page \in Nat /\ KernelId \in Ids
        /\ TTPages \subseteq VirtPages /\ TTPages \subseteq Nat
    BY LayoutAssumption, SizeAssumption DEF TypeOK, Table, Ids, Frames, VirtPages
  <1>4. MmuOn
    BY <1>2 DEF MmuOn
  <1>5. \A v \in TTPages : tt'[KernelId][v] = tt[KernelId][v]
    <2>1. CASE req.pt = KernelId
      BY <1>1, <1>2, <1>3, <1>4, <2>1 DEF TablesInv
    <2>2. CASE req.pt # KernelId
      BY <1>1, <1>3, <2>2
    <2>3. QED
      BY <2>1, <2>2
  <1>6. req.pt = KernelId => \A v \in TTPages : v < req'.page
    <2> SUFFICES ASSUME req.pt = KernelId, NEW v \in TTPages PROVE v < req'.page
      OBVIOUS
    <2>1. v < req.page /\ v \in Nat
      BY <1>2, <1>3, <1>4 DEF TablesInv
    <2>2. QED
      BY <1>2, <1>3, <2>1
  <1>7. QED
    BY <1>2, <1>4, <1>5, <1>6 DEF TablesInv

LEMMA TablesNext ==
    ASSUME TypeOK, CallsMatch, TablesInv, TablesLow, BreakKept, [Next]_vars
    PROVE  TablesInv'
  <1>1. CASE VmEnable
    <2>1. /\ tt' = [tt EXCEPT ![KernelId] = BootTable] /\ pc' = "kmalloc"
          /\ heap_end' = [heap_end EXCEPT ![KernelId] = HeapPage * Sec]
      BY <1>1 DEF VmEnable, kmalloc
    <2>2. tt'[KernelId] = BootTable /\ heap_end'[KernelId] = HeapPage * Sec
      BY <2>1 DEF TypeOK, Ids
    <2>3. \A v \in TTPages : BootTable[v] = Section(v)
      BY LayoutAssumption, SizeAssumption DEF BootTable, Frames, VirtPages
    <2>4. HeapPage * Sec < AddrSpace
      <3>1. HeapPage \in Nat /\ HeapPage < NVirt /\ NVirt \in Nat /\ Sec \in Nat /\ Sec > 0
        BY SizeAssumption, LayoutAssumption DEF VirtPages
      <3>2. (NVirt - HeapPage) * Sec > 0
        BY <3>1
      <3>3. QED
        BY <3>1, <3>2 DEF AddrSpace
    <2>5. QED
      BY <2>1, <2>2, <2>3, <2>4 DEF TablesInv
  <1>2. CASE Reboot
    BY <1>2 DEF Reboot, TablesInv, MmuOn
  <1>3. CASE MapSection
    BY <1>3, TablesMap
  <1>4. CASE SbrkMap \/ SbrkZero \/ ExecLoad
    BY <1>4, TablesHeap
  <1>5. CASE ExecBegin \/ ExecShare
    <2>1. /\ pc \in {"exec", "copy"} /\ pc' # "map"
          /\ tt'[KernelId] = tt[KernelId] /\ heap_end'[KernelId] = heap_end[KernelId]
      BY <1>5 DEF ExecBegin, ExecShare, kmalloc, proc, TypeOK, Ids, KernelId, ChildId
    <2>2. QED
      BY <2>1 DEF TablesInv, MmuOn
  <1>6. CASE ExecUnmap
    BY <1>6, TablesQuiet DEF ExecUnmap, MmuOn, proc
  <1>7. CASE ~MmuOn /\ ~(VmEnable \/ Reboot)
    <2>1. UNCHANGED vars
      BY <1>7, OffSteps
    <2>2. QED
      BY <1>7, <2>1 DEF vars, TablesInv, MmuOn
  <1>8. CASE /\ MmuOn
             /\ ~(VmEnable \/ Reboot \/ MapSection \/ SbrkMap \/ SbrkZero \/ ExecLoad)
             /\ ~(ExecBegin \/ ExecShare \/ ExecUnmap)
    BY <1>8, TablesNextQuiet DEF Next, KernelStep, ShellStep
  <1>9. QED
    BY <1>1, <1>2, <1>3, <1>4, <1>5, <1>6, <1>7, <1>8

\* Whenever mmu_init, mmu_map_section or mmu_unmap touches a table, the sections
\* that hold the tables are mapped one to one in the active table: the right
\* table is active (sbrk has switched away from the child's), and neither the
\* heap nor the load window has been mapped over them.  Layouts put the tables
\* below both, and the kernel's break must not wrap around the address space,
\* which kmalloc does not rule out.
THEOREM TablesReachableCorrect ==
    ASSUME TablesLow
    PROVE  Spec /\ []BreakKept => []TablesReachable
  <1>1. Init => TypeOK /\ CallsMatch /\ TLBInv /\ TablesInv
    <2>1. Init => TablesInv
      BY DEF Init, TablesInv, MmuOn
    <2>2. QED
      BY <2>1, TypeInit, CallsInit, TLBInit
  <1>2. TypeOK /\ CallsMatch /\ TLBInv /\ TablesInv /\ BreakKept /\ [Next]_vars
          => TypeOK' /\ CallsMatch' /\ TLBInv' /\ TablesInv'
    BY TypeNext, CallsNext, TLBNext, TablesNext
  <1>3. TLBInv /\ TablesInv => TablesReachable
    <2> SUFFICES ASSUME TLBInv, TablesInv, pc \in {"exec", "map", "copy", "unmap"}
                 PROVE  \A v \in TTPages : tt[ttbr][v] = Section(v)
      BY DEF TablesReachable
    <2>1. MmuOn
      BY DEF MmuOn
    <2>2. ttbr = KernelId
      BY <2>1 DEF TLBInv, SwitchSound, RunningId
    <2>3. QED
      BY <2>1, <2>2 DEF TablesInv
  <1>4. QED
    BY <1>1, <1>2, <1>3, PTL DEF Spec
-----------------------------------------------------------------------------
(* Every segment has memory of the child's own *)

\* What is said of the instructions of a file can be said of numbers.
LEMMA InstrType ==
    ASSUME NEW f \in Files \cup {NoFile}, NEW i \in DOMAIN LoadInstrs(f)
    PROVE  /\ i \in Nat /\ 1 <= i /\ i <= Len(LoadInstrs(f)) /\ f \in Files
           /\ LoadInstrs(f)[i].addr \in Nat /\ LoadInstrs(f)[i].size \in Nat
  <1>1. LoadInstrs(f) \in Seq(LoadInstr)
    BY FileType
  <1>2. i \in 1 .. Len(LoadInstrs(f)) /\ LoadInstrs(f)[i] \in LoadInstr
    BY <1>1
  <1>3. LoadInstrs(NoFile) = <<>>
    BY DEF LoadInstrs, NoFile
  <1>4. f # NoFile
    BY <1>2, <1>3
  <1>5. QED
    BY <1>1, <1>2, <1>4 DEF LoadInstr

\* A step outside elf_load.
LEMMA LoadIdle ==
    ASSUME \A i : ~InstrDone(i)', ~(pc' = "map" /\ req'.ret = "elf_instr")
    PROVE  LoadInv'
  BY DEF LoadInv

\* A step that writes no table and finishes no mapping.
LEMMA LoadQuiet ==
    ASSUME LoadInv, UNCHANGED <<mem, file>>, \A i : InstrDone(i)' => InstrDone(i),
           pc' = "map" /\ req'.ret = "elf_instr" => UNCHANGED <<pc, req, step>>
    PROVE  LoadInv'
  BY DEF LoadInv, mem, Owned, Private, Instr, InstrPages

LEMMA LoadNextQuiet ==
    ASSUME TypeOK, CallsMatch, LoadInv,
           \/ UNCHANGED vars
           \/ OutOfMemory
           \/ SetTtbr
           \/ SetAsid
           \/ SbrkMap
           \/ SbrkMapped
           \/ SbrkZero
           \/ SbrkAbort
           \/ KmallocGrow
           \/ KmallocTake
           \/ ExecLoad
           \/ ElfNoRoom
           \/ ElfFail
           \/ ExecInstr
           \/ ExecInstrAbort
           \/ ExecNoHeap
           \/ ExecJump
           \/ ExecFlush
           \/ \E sz \in AllocSizes : ShellRead(sz)
           \/ ShellReboot
           \/ \E n \in Incrs : ChildSbrk(n)
           \/ ChildReturn
           \/ \E v \in VirtPages : TlbFill(v)
           \/ TlbEvict
    PROVE  LoadInv'
  <1> USE DEF CallsMatch, KernelPoints, KmallocPoints, Ids, KernelId, ChildId,
              InstrDone, mem, mmu, proc, call
  <1>t. /\ current_proc \in Ids
        /\ req.ret \in {"none", "sbrk_mapped", "copy", "elf_instr"}
        /\ sw.ret \in {"none", "instr", "sbrk_map", "sbrk_zero", "inv"}
        /\ km.ret \in {"none", "shell", "exec", "load"}
    BY DEF TypeOK
  <1>0. CASE UNCHANGED vars
    BY <1>0, LoadQuiet DEF vars
  <1>1. CASE OutOfMemory
    BY <1>1, <1>t, LoadQuiet DEF OutOfMemory, Panic
  <1>2. CASE SetTtbr
    BY <1>2, <1>t, LoadQuiet DEF SetTtbr
  <1>3. CASE SetAsid
    BY <1>3, <1>t, LoadQuiet DEF SetAsid
  <1>4. CASE SbrkMap
    BY <1>4, <1>t, LoadQuiet DEF SbrkMap, StartMap
  <1>5. CASE SbrkMapped
    BY <1>5, <1>t, LoadQuiet DEF SbrkMapped, set_procid_ttbr0
  <1>6. CASE SbrkZero
    BY <1>6, <1>t, LoadQuiet DEF SbrkZero
  <1>7. CASE SbrkAbort
    BY <1>7, <1>t, LoadQuiet DEF SbrkAbort, Panic
  <1>8. CASE KmallocGrow
    BY <1>8, <1>t, LoadQuiet DEF KmallocGrow, kernel_sbrk, set_procid_ttbr0
  <1>9. CASE KmallocTake
    BY <1>9, <1>t, LoadQuiet DEF KmallocTake, NoKm
  <1>10. CASE ExecLoad
    BY <1>10, <1>t, LoadQuiet DEF ExecLoad, StartMap
  <1>11. CASE ElfNoRoom
    BY <1>11, <1>t, LoadQuiet DEF ElfNoRoom, Panic
  <1>12. CASE ElfFail
    BY <1>12, <1>t, LoadQuiet DEF ElfFail
  <1>13. CASE ExecInstr
    BY <1>13, <1>t, LoadQuiet DEF ExecInstr
  <1>14. CASE ExecInstrAbort
    BY <1>14, <1>t, LoadQuiet DEF ExecInstrAbort, Panic
  <1>15. CASE ExecNoHeap
    BY <1>15, <1>t, LoadQuiet DEF ExecNoHeap, set_procid_ttbr0
  <1>16. CASE ExecJump
    BY <1>16, <1>t, LoadQuiet DEF ExecJump, Panic
  <1>17. CASE ExecFlush
    BY <1>17, <1>t, LoadQuiet DEF ExecFlush
  <1>18. CASE \E sz \in AllocSizes : ShellRead(sz)
    BY <1>18, <1>t, LoadQuiet DEF ShellRead, kmalloc
  <1>19. CASE ShellReboot
    BY <1>19, <1>t, LoadQuiet DEF ShellReboot
  <1>20. CASE \E n \in Incrs : ChildSbrk(n)
    BY <1>20, <1>t, LoadQuiet DEF ChildSbrk, kernel_sbrk, set_procid_ttbr0
  <1>21. CASE ChildReturn
    BY <1>21, <1>t, LoadQuiet DEF ChildReturn, set_procid_ttbr0
  <1>22. CASE \E v \in VirtPages : TlbFill(v)
    BY <1>22, <1>t, LoadQuiet DEF TlbFill
  <1>23. CASE TlbEvict
    BY <1>23, <1>t, LoadQuiet DEF TlbEvict
  <1>24. QED
    BY <1>0, <1>1, <1>2, <1>3, <1>4, <1>5, <1>6, <1>7, <1>8, <1>9, <1>10, <1>11,
       <1>12, <1>13, <1>14, <1>15, <1>16, <1>17, <1>18, <1>19, <1>20, <1>21, <1>22,
       <1>23

\* The steps of elf_load.
LEMMA LoadElf ==
    ASSUME TypeOK, CallsMatch, LoadInv, MapDone \/ ElfMap \/ ElfInstr \/ ElfDone
    PROVE  LoadInv'
  <1>t. /\ file \in Files \cup {NoFile} /\ step \in Nat /\ req.page \in Nat
        /\ req.last \in VirtPages
        /\ req.ret \in {"none", "sbrk_mapped", "copy", "elf_instr"}
    BY DEF TypeOK
  <1>d. DOMAIN LoadInstrs(file) = 1 .. Len(LoadInstrs(file)) /\ Len(LoadInstrs(file)) \in Nat
    BY <1>t, FileType
  <1>1. CASE MapDone
    <2>1. /\ pc = "map" /\ req.page > req.last /\ pc' = req.ret
          /\ UNCHANGED <<tt, paddr_to_asid_map, file, step>>
      BY <1>1 DEF MapDone, mem
    <2>2. CASE req.ret = "elf_instr"
      <3>1. /\ step \in DOMAIN LoadInstrs(file) /\ req.last = LastPage(Instr.addr, Instr.size)
            /\ \A v \in VirtPages : v \in FirstPage(Instr.addr) .. req.page - 1 => Owned(v)
        BY <2>1, <2>2 DEF LoadInv
      <3>2. FirstPage(Instr.addr) \in Nat
        BY <1>t, <3>1, InstrType, PageRange DEF Instr
      <3>3. \A v \in VirtPages : v \in InstrPages(file, step) => Owned(v)
        <4>1. ASSUME NEW v \in VirtPages, v \in InstrPages(file, step)
              PROVE  v \in FirstPage(Instr.addr) .. req.page - 1
          BY <1>t, <2>1, <3>1, <3>2, <4>1, SizeAssumption DEF InstrPages, Instr, VirtPages
        <4>2. QED
          BY <3>1, <4>1
      <3>4. \A i \in DOMAIN LoadInstrs(file) : InstrDone(i)' => i = step \/ InstrDone(i)
        BY <1>t, <1>d, <2>1, <2>2 DEF InstrDone
      <3>5. \A v : Owned(v)' = Owned(v)
        BY <2>1 DEF Owned
      <3>6. pc' # "map" /\ \A i : InstrPages(file', i) = InstrPages(file, i)
        BY <2>1, <2>2
      <3>7. ASSUME NEW i \in DOMAIN LoadInstrs(file)', InstrDone(i)', NEW v \in VirtPages,
                   v \in InstrPages(file', i)
            PROVE  Owned(v)'
        BY <2>1, <3>3, <3>4, <3>5, <3>6, <3>7 DEF LoadInv
      <3>8. QED
        BY <3>6, <3>7 DEF LoadInv
    <2>3. CASE req.ret # "elf_instr"
      BY <1>t, <2>1, <2>3, LoadIdle DEF InstrDone
    <2>4. QED
      BY <2>2, <2>3
  <1>2. CASE ElfMap
    <2>1. /\ pc = "elf" /\ ~AtEnd /\ pc' = "map" /\ UNCHANGED <<mem, file, step>>
          /\ req' = [pt |-> ChildId, page |-> FirstPage(Instr.addr),
                     last |-> LastPage(Instr.addr, Instr.size), sync |-> 0,
                     ret |-> "elf_instr"]
      BY <1>2 DEF ElfMap, StartMap
    <2>2. step \in DOMAIN LoadInstrs(file)
      BY <1>t, <1>d, <2>1 DEF AtEnd, CallsMatch
    <2>3. /\ req'.ret = "elf_instr" /\ req'.page = FirstPage(Instr.addr)
          /\ req'.last = LastPage(Instr.addr, Instr.size) /\ Instr' = Instr
      BY <2>1 DEF Instr
    <2>4. FirstPage(Instr.addr) \in Nat
      BY <1>t, <2>2, InstrType, PageRange DEF Instr
    <2>5. \A i \in DOMAIN LoadInstrs(file) : InstrDone(i)' => InstrDone(i)
      BY <2>1 DEF InstrDone
    <2>6. \A v : Owned(v)' = Owned(v)
      BY <2>1 DEF Owned, mem
    <2>7. req'.page >= FirstPage(Instr.addr)
          /\ \A v \in VirtPages : v \notin FirstPage(Instr.addr) .. req'.page - 1
      BY <2>3, <2>4, SizeAssumption DEF VirtPages
    <2>8. \A i \in DOMAIN LoadInstrs(file) : InstrDone(i)' =>
            \A v \in VirtPages : v \in InstrPages(file, i) => Owned(v)'
      BY <2>5, <2>6 DEF LoadInv
    <2>9. step' \in DOMAIN LoadInstrs(file)' /\ file' = file
      BY <2>1, <2>2
    <2>10. QED
      BY <2>3, <2>7, <2>8, <2>9 DEF LoadInv
  <1>3. CASE ElfInstr
    <2>1. /\ pc = "elf_instr" /\ pc' = "elf" /\ step' = step + 1 /\ UNCHANGED <<mem, file>>
      BY <1>3 DEF ElfInstr
    <2>2. \A i \in DOMAIN LoadInstrs(file) : InstrDone(i)' => InstrDone(i)
      BY <1>t, <1>d, <2>1 DEF InstrDone
    <2>3. \A v : Owned(v)' = Owned(v)
      BY <2>1 DEF Owned, mem
    <2>4. QED
      BY <2>1, <2>2, <2>3 DEF LoadInv
  <1>4. CASE ElfDone
    <2>1. /\ pc = "elf" /\ AtEnd /\ pc' = "ttbr" /\ UNCHANGED <<mem, file>>
      BY <1>4 DEF ElfDone, set_procid_ttbr0
    <2>2. \A i \in DOMAIN LoadInstrs(file) : InstrDone(i)
      BY <1>t, <1>d, <2>1 DEF InstrDone, AtEnd
    <2>3. \A v : Owned(v)' = Owned(v)
      BY <2>1 DEF Owned, mem
    <2>4. QED
      BY <2>1, <2>2, <2>3 DEF LoadInv
  <1>5. QED
    BY <1>1, <1>2, <1>3, <1>4

\* Mapping a section: it becomes the child's, and none of the child's is lost.
LEMMA LoadMap ==
    ASSUME TypeOK, CallsMatch, LoadInv, MapSection
    PROVE  LoadInv'
  <1>1. PICK p \in Frames :
             /\ paddr_to_asid_map[p] = 0
             /\ paddr_to_asid_map' = [paddr_to_asid_map EXCEPT ![p] = req.pt]
             /\ tt' = [tt EXCEPT ![req.pt][req.page] = Section(p)]
    BY DEF MapSection, find_available_page, FreeFrames
  <1>2. /\ pc = "map" /\ pc' = "map" /\ req.page <= req.last
        /\ req'.page = req.page + 1 /\ req'.last = req.last /\ req'.ret = req.ret
        /\ UNCHANGED <<file, step>>
    BY DEF MapSection, TypeOK
  <1>3. CASE req.ret = "elf_instr"
    <2>1. /\ req.pt = ChildId /\ req.page \in VirtPages /\ req.page \in Nat
          /\ tt \in [Ids -> [VirtPages -> Entry]] /\ ChildId \in Ids
          /\ paddr_to_asid_map \in [Frames -> Ids \cup {0}]
      BY <1>2, <1>3, SizeAssumption DEF CallsMatch, TypeOK, VirtPages, Ids, Table
    <2>2. /\ tt'[ChildId][req.page] = Section(p)
          /\ \A v \in VirtPages : v # req.page => tt'[ChildId][v] = tt[ChildId][v]
      BY <1>1, <2>1
    <2>3. ASSUME NEW u, u = req.page PROVE Owned(u)'
      <3>1. Private(Section(p)) /\ Section(p).sec = p
        BY DEF Private, Section
      <3>2. paddr_to_asid_map'[p] = ChildId
        BY <1>1, <2>1
      <3>3. QED
        BY <2>2, <2>3, <3>1, <3>2 DEF Owned
    <2>4. ASSUME NEW v \in VirtPages, Owned(v) PROVE Owned(v)'
      <3>1. CASE v = req.page
        BY <2>3, <3>1
      <3>2. CASE v # req.page
        <4>1. tt[ChildId][v].sec # p
          BY <1>1, <2>4 DEF Owned, ChildId
        <4>2. paddr_to_asid_map'[tt[ChildId][v].sec] = paddr_to_asid_map[tt[ChildId][v].sec]
          BY <1>1, <2>1, <4>1
        <4>3. QED
          BY <2>2, <2>4, <3>2, <4>2 DEF Owned
      <3>3. QED
        BY <3>1, <3>2
    <2>5. /\ step \in DOMAIN LoadInstrs(file)
          /\ req.page >= FirstPage(Instr.addr) /\ req.last = LastPage(Instr.addr, Instr.size)
          /\ \A v \in VirtPages : v \in FirstPage(Instr.addr) .. req.page - 1 => Owned(v)
      BY <1>2, <1>3 DEF LoadInv
    <2>6. FirstPage(Instr.addr) \in Nat /\ Instr' = Instr
      BY <1>2, <2>5, InstrType, PageRange DEF Instr, TypeOK
    <2>7. /\ req'.page >= FirstPage(Instr.addr)
          /\ \A v \in VirtPages : v \in FirstPage(Instr.addr) .. req'.page - 1 =>
               v = req.page \/ v \in FirstPage(Instr.addr) .. req.page - 1
      BY <1>2, <2>1, <2>5, <2>6, SizeAssumption DEF VirtPages
    <2>8. \A v \in VirtPages : v \in FirstPage(Instr.addr) .. req'.page - 1 => Owned(v)'
      BY <2>3, <2>4, <2>5, <2>7
    <2>9. \A i : InstrDone(i)' => InstrDone(i)
      BY <1>2 DEF InstrDone
    <2>10. \A i \in DOMAIN LoadInstrs(file) : InstrDone(i)' =>
             \A v \in VirtPages : v \in InstrPages(file, i) => Owned(v)'
      BY <2>4, <2>9 DEF LoadInv
    <2>11. QED
      BY <1>2, <2>5, <2>6, <2>7, <2>8, <2>10 DEF LoadInv
  <1>4. CASE req.ret # "elf_instr"
    BY <1>2, <1>4, LoadIdle DEF InstrDone
  <1>5. QED
    BY <1>3, <1>4

LEMMA LoadNext ==
    ASSUME TypeOK, CallsMatch, LoadInv, [Next]_vars
    PROVE  LoadInv'
  <1>1. CASE VmEnable
    BY <1>1, LoadIdle DEF VmEnable, kmalloc, InstrDone
  <1>2. CASE Reboot
    BY <1>2, LoadIdle DEF Reboot, InstrDone
  <1>3. CASE MapSection
    BY <1>3, LoadMap
  <1>4. CASE MapDone \/ ElfMap \/ ElfInstr \/ ElfDone
    BY <1>4, LoadElf
  <1>5. CASE ExecBegin
    BY <1>5, LoadIdle DEF ExecBegin, kmalloc, InstrDone
  <1>6. CASE ExecShare
    <2>1. step' = 1 /\ pc' \in {"elf", "unmap"} /\ UNCHANGED file
      BY <1>6 DEF ExecShare
    <2>2. ASSUME NEW i \in DOMAIN LoadInstrs(file) PROVE ~InstrDone(i)'
      <3>1. i \in Nat /\ 1 <= i
        BY InstrType DEF TypeOK
      <3>2. QED
        BY <2>1, <3>1 DEF InstrDone
    <2>3. QED
      BY <2>1, <2>2 DEF LoadInv
  <1>7. CASE ExecUnmap
    BY <1>7, LoadIdle DEF ExecUnmap, InstrDone
  <1>8. CASE \E f \in Files : do_run(f)
    BY <1>8, LoadIdle DEF do_run, kmalloc, InstrDone
  <1>9. CASE /\ ~(VmEnable \/ Reboot \/ MapSection \/ MapDone \/ ElfMap \/ ElfInstr)
             /\ ~(ElfDone \/ ExecBegin \/ ExecShare \/ ExecUnmap \/ \E f \in Files : do_run(f))
    BY <1>9, LoadNextQuiet DEF Next, KernelStep, ShellStep
  <1>10. QED
    BY <1>1, <1>2, <1>3, <1>4, <1>5, <1>6, <1>7, <1>8, <1>9

\* When exec_file starts to copy and to zero, every section of every segment
\* and .bss is mapped in the child, to a frame of the child's own: in every
\* layout and memory, for executables in which each of those sections is
\* mapped for some segment.  mmu_map_to_mem takes the section below a start
\* inside a section to be mapped; an executable that breaks this is not covered.
THEOREM SegmentsMappedCorrect ==
    ASSUME \A f \in Files : Covered(f)
    PROVE  Spec => []SegmentsMapped
  <1>1. Init => TypeOK /\ CallsMatch /\ LoadInv
    <2>1. Init => LoadInv
      BY DEF Init, LoadInv, InstrDone
    <2>2. QED
      BY <2>1, TypeInit, CallsInit
  <1>2. TypeOK /\ CallsMatch /\ LoadInv /\ [Next]_vars => TypeOK' /\ CallsMatch' /\ LoadInv'
    BY TypeNext, CallsNext, LoadNext
  <1>3. TypeOK /\ LoadInv => SegmentsMapped
    <2> SUFFICES ASSUME TypeOK, LoadInv, pc = "instr", NEW i \in DOMAIN LoadInstrs(file),
                        NEW v \in Touched(LoadInstrs(file)[i].addr, LoadInstrs(file)[i].size)
                 PROVE  Owned(v)
      BY DEF SegmentsMapped, Owned
    <2>1. /\ file \in Files /\ LoadInstrs(file)[i].addr \in Nat
          /\ LoadInstrs(file)[i].size \in Nat
      BY InstrType DEF TypeOK
    <2>2. v \in VirtPages
      BY <2>1, PageOfType DEF Touched
    <2>3. PICK j \in DOMAIN LoadInstrs(file) : v \in InstrPages(file, j)
      BY <2>1 DEF Covered
    <2>4. QED
      BY <2>2, <2>3 DEF LoadInv, InstrDone
  <1>4. QED
    BY <1>1, <1>2, <1>3, PTL DEF Spec
-----------------------------------------------------------------------------
(* The heap lies above the image *)

LEMMA HeapQuiet ==
    ASSUME HeapInv, UNCHANGED <<file, heap_start>>, MmuOn' => MmuOn,
           MmuOn' /\ current_proc' = ChildId => current_proc = ChildId,
           pc' \in {"ttbr", "asid"} /\ sw'.ret = "instr" =>
               pc \in {"ttbr", "asid"} /\ sw.ret = "instr",
           pc' = "instr" => pc = "instr" \/ (pc \in {"ttbr", "asid"} /\ sw.ret = "instr")
    PROVE  HeapInv'
  BY DEF HeapInv

LEMMA HeapNextQuiet ==
    ASSUME TypeOK, CallsMatch, HeapInv, MmuOn,
           \/ UNCHANGED vars
           \/ OutOfMemory
           \/ MapDone
           \/ SetTtbr
           \/ SetAsid
           \/ SbrkMap
           \/ SbrkMapped
           \/ SbrkZero
           \/ SbrkAbort
           \/ KmallocGrow
           \/ KmallocTake
           \/ ExecLoad
           \/ ElfMap
           \/ ElfInstr
           \/ ElfNoRoom
           \/ ElfFail
           \/ ExecInstr
           \/ ExecInstrAbort
           \/ ExecNoHeap
           \/ ExecFlush
           \/ \E sz \in AllocSizes : ShellRead(sz)
           \/ ShellReboot
           \/ \E n \in Incrs : ChildSbrk(n)
           \/ ChildReturn
           \/ \E v \in VirtPages : TlbFill(v)
           \/ TlbEvict
           \/ MapSection
           \/ ExecShare
    PROVE  HeapInv'
  <1> USE DEF CallsMatch, KernelPoints, KmallocPoints, Ids, KernelId, ChildId,
              MmuOn, mem, mmu, proc, call
  <1>t. /\ current_proc \in Ids
        /\ req.ret \in {"none", "sbrk_mapped", "copy", "elf_instr"}
        /\ sw.ret \in {"none", "instr", "sbrk_map", "sbrk_zero", "inv"}
        /\ km.ret \in {"none", "shell", "exec", "load"}
    BY DEF TypeOK
  <1>0. CASE UNCHANGED vars
    BY <1>0, HeapQuiet DEF vars
  <1>1. CASE OutOfMemory
    BY <1>1, <1>t, HeapQuiet DEF OutOfMemory, Panic
  <1>2. CASE MapDone
    BY <1>2, <1>t, HeapQuiet DEF MapDone
  <1>3. CASE SetTtbr
    BY <1>3, <1>t, HeapQuiet DEF SetTtbr
  <1>4. CASE SetAsid
    BY <1>4, <1>t, HeapQuiet DEF SetAsid
  <1>5. CASE SbrkMap
    BY <1>5, <1>t, HeapQuiet DEF SbrkMap, StartMap
  <1>6. CASE SbrkMapped
    BY <1>6, <1>t, HeapQuiet DEF SbrkMapped, set_procid_ttbr0
  <1>7. CASE SbrkZero
    BY <1>7, <1>t, HeapQuiet DEF SbrkZero
  <1>8. CASE SbrkAbort
    BY <1>8, <1>t, HeapQuiet DEF SbrkAbort, Panic
  <1>9. CASE KmallocGrow
    BY <1>9, <1>t, HeapQuiet DEF KmallocGrow, kernel_sbrk, set_procid_ttbr0
  <1>10. CASE KmallocTake
    BY <1>10, <1>t, HeapQuiet DEF KmallocTake, NoKm
  <1>11. CASE ExecLoad
    BY <1>11, <1>t, HeapQuiet DEF ExecLoad, StartMap
  <1>12. CASE ElfMap
    BY <1>12, <1>t, HeapQuiet DEF ElfMap, StartMap
  <1>13. CASE ElfInstr
    BY <1>13, <1>t, HeapQuiet DEF ElfInstr
  <1>14. CASE ElfNoRoom
    BY <1>14, <1>t, HeapQuiet DEF ElfNoRoom, Panic
  <1>15. CASE ElfFail
    BY <1>15, <1>t, HeapQuiet DEF ElfFail
  <1>16. CASE ExecInstr
    BY <1>16, <1>t, HeapQuiet DEF ExecInstr
  <1>17. CASE ExecInstrAbort
    BY <1>17, <1>t, HeapQuiet DEF ExecInstrAbort, Panic
  <1>18. CASE ExecNoHeap
    BY <1>18, <1>t, HeapQuiet DEF ExecNoHeap, set_procid_ttbr0
  <1>19. CASE ExecFlush
    BY <1>19, <1>t, HeapQuiet DEF ExecFlush
  <1>20. CASE \E sz \in AllocSizes : ShellRead(sz)
    BY <1>20, <1>t, HeapQuiet DEF ShellRead, kmalloc
  <1>21. CASE ShellReboot
    BY <1>21, <1>t, HeapQuiet DEF ShellReboot
  <1>22. CASE \E n \in Incrs : ChildSbrk(n)
    BY <1>22, <1>t, HeapQuiet DEF ChildSbrk, kernel_sbrk, set_procid_ttbr0
  <1>23. CASE ChildReturn
    BY <1>23, <1>t, HeapQuiet DEF ChildReturn, set_procid_ttbr0
  <1>24. CASE \E v \in VirtPages : TlbFill(v)
    BY <1>24, <1>t, HeapQuiet DEF TlbFill
  <1>25. CASE TlbEvict
    BY <1>25, <1>t, HeapQuiet DEF TlbEvict
  <1>26. CASE MapSection
    BY <1>26, <1>t, HeapQuiet DEF MapSection
  <1>27. CASE ExecShare
    BY <1>27, <1>t, HeapQuiet DEF ExecShare
  <1>28. QED
    BY <1>0, <1>1, <1>2, <1>3, <1>4, <1>5, <1>6, <1>7, <1>8, <1>9, <1>10, <1>11,
       <1>12, <1>13, <1>14, <1>15, <1>16, <1>17, <1>18, <1>19, <1>20, <1>21, <1>22,
       <1>23, <1>24, <1>25, <1>26, <1>27

LEMMA HeapNext ==
    ASSUME TypeOK, CallsMatch, HeapInv, [Next]_vars
    PROVE  HeapInv'
  <1> USE DEF CallsMatch, KernelPoints, KernelId, ChildId, MmuOn
  <1>1. CASE VmEnable
    BY <1>1 DEF VmEnable, kmalloc, HeapInv
  <1>2. CASE Reboot
    BY <1>2 DEF Reboot, HeapInv
  <1>3. CASE ExecBegin
    BY <1>3 DEF ExecBegin, kmalloc, HeapInv
  <1>4. CASE ElfDone
    BY <1>4 DEF ElfDone, set_procid_ttbr0, HeapInv
  <1>5. CASE ExecJump
    BY <1>5 DEF ExecJump, Panic, HeapInv
  <1>6. CASE ExecUnmap
    BY <1>6 DEF ExecUnmap, proc, HeapInv
  <1>7. CASE \E f \in Files : do_run(f)
    BY <1>7 DEF do_run, kmalloc, proc, HeapInv
  <1>8. CASE ~MmuOn /\ ~(VmEnable \/ Reboot)
    <2>1. UNCHANGED vars
      BY <1>8, OffSteps
    <2>2. QED
      BY <1>8, <2>1 DEF vars, HeapInv
  <1>9. CASE /\ MmuOn
             /\ ~(VmEnable \/ Reboot \/ ExecBegin \/ ElfDone \/ ExecJump \/ ExecUnmap)
             /\ ~\E f \in Files : do_run(f)
    BY <1>9, HeapNextQuiet DEF Next, KernelStep, ShellStep
  <1>10. QED
    BY <1>1, <1>2, <1>3, <1>4, <1>5, <1>6, <1>7, <1>8, <1>9

\* While a program runs, its heap starts above every segment and .bss that was
\* loaded, for all executables whose .data and .bss come last: no other run, no
\* failed load and no sbrk of the kernel or the program moves it, and a program
\* without a heap address never starts.
THEOREM HeapAboveImageCorrect ==
    ASSUME \A f \in Files : HeapLast(f)
    PROVE  Spec => []HeapAboveImage
  <1>1. Init => TypeOK /\ CallsMatch /\ HeapInv
    <2>1. Init => HeapInv
      BY DEF Init, HeapInv, MmuOn
    <2>2. QED
      BY <2>1, TypeInit, CallsInit
  <1>2. TypeOK /\ CallsMatch /\ HeapInv /\ [Next]_vars => TypeOK' /\ CallsMatch' /\ HeapInv'
    BY TypeNext, CallsNext, HeapNext
  <1>3. TypeOK /\ CallsMatch /\ HeapInv => HeapAboveImage
    <2> SUFFICES ASSUME TypeOK, CallsMatch, HeapInv, pc = "child",
                        NEW i \in DOMAIN LoadInstrs(file)
                 PROVE  LoadInstrs(file)[i].addr + LoadInstrs(file)[i].size <= heap_start
      BY DEF HeapAboveImage
    <2>1. file \in Files
      BY InstrType DEF TypeOK
    <2>2. heap_start \in get_heap_address(file) /\ heap_start # 0
      BY DEF HeapInv, CallsMatch, MmuOn
    <2>3. QED
      BY <2>1, <2>2 DEF HeapLast
  <1>4. QED
    BY <1>1, <1>2, <1>3, PTL DEF Spec
-----------------------------------------------------------------------------
(* The load window is given back *)

\* A step that writes neither tables nor owners and forgets no section.
LEMMA OrphanQuiet ==
    ASSUME OrphanInv, UNCHANGED mem, MmuOn' => MmuOn,
           \A v \in VirtPages : MmuOn' /\ Loaded(v) => Loaded(v)',
           MmuOn' /\ ChildLive => ChildLive',
           pc' = "map" /\ req'.ret = "copy" => req'.page <= req'.last + 1
    PROVE  OrphanInv'
  <1>1. \A v : KSec(v)' = KSec(v)
    BY DEF KSec, mem
  <1>2. QED
    BY <1>1 DEF OrphanInv, mem

LEMMA OrphanNextQuiet ==
    ASSUME TypeOK, CallsMatch, OrphanInv, MmuOn,
           \/ UNCHANGED vars
           \/ OutOfMemory
           \/ SetTtbr
           \/ SetAsid
           \/ SbrkMap
           \/ SbrkMapped
           \/ SbrkZero
           \/ SbrkAbort
           \/ KmallocGrow
           \/ KmallocTake
           \/ ElfMap
           \/ ElfInstr
           \/ ElfNoRoom
           \/ ElfFail
           \/ ElfDone
           \/ ExecInstr
           \/ ExecInstrAbort
           \/ ExecNoHeap
           \/ ExecJump
           \/ ExecFlush
           \/ \E sz \in AllocSizes : ShellRead(sz)
           \/ \E f \in Files : do_run(f)
           \/ ShellReboot
           \/ \E n \in Incrs : ChildSbrk(n)
           \/ ChildReturn
           \/ \E v \in VirtPages : TlbFill(v)
           \/ TlbEvict
    PROVE  OrphanInv'
  <1> USE DEF CallsMatch, KernelPoints, KmallocPoints, Ids, KernelId, ChildId,
              MmuOn, Loaded, ChildLive, mem, mmu, proc, call
  <1>t. /\ (pc = "map" /\ req.ret = "copy" => req.page <= req.last + 1)
        /\ current_proc \in Ids
        /\ req.ret \in {"none", "sbrk_mapped", "copy", "elf_instr"}
        /\ sw.ret \in {"none", "instr", "sbrk_map", "sbrk_zero", "inv"}
        /\ km.ret \in {"none", "shell", "exec", "load"}
    BY DEF TypeOK, OrphanInv
  <1>0. CASE UNCHANGED vars
    BY <1>0, <1>t, OrphanQuiet DEF vars
  <1>1. CASE OutOfMemory
    BY <1>1, <1>t, OrphanQuiet DEF OutOfMemory, Panic
  <1>2. CASE SetTtbr
    BY <1>2, <1>t, OrphanQuiet DEF SetTtbr
  <1>3. CASE SetAsid
    BY <1>3, <1>t, OrphanQuiet DEF SetAsid
  <1>4. CASE SbrkMap
    BY <1>4, <1>t, OrphanQuiet DEF SbrkMap, StartMap
  <1>5. CASE SbrkMapped
    BY <1>5, <1>t, OrphanQuiet DEF SbrkMapped, set_procid_ttbr0
  <1>6. CASE SbrkZero
    BY <1>6, <1>t, OrphanQuiet DEF SbrkZero
  <1>7. CASE SbrkAbort
    BY <1>7, <1>t, OrphanQuiet DEF SbrkAbort, Panic
  <1>8. CASE KmallocGrow
    BY <1>8, <1>t, OrphanQuiet DEF KmallocGrow, kernel_sbrk, set_procid_ttbr0
  <1>9. CASE KmallocTake
    BY <1>9, <1>t, OrphanQuiet DEF KmallocTake, NoKm
  <1>10. CASE ElfMap
    BY <1>10, <1>t, OrphanQuiet DEF ElfMap, StartMap
  <1>11. CASE ElfInstr
    BY <1>11, <1>t, OrphanQuiet DEF ElfInstr
  <1>12. CASE ElfNoRoom
    BY <1>12, <1>t, OrphanQuiet DEF ElfNoRoom, Panic
  <1>13. CASE ElfFail
    BY <1>13, <1>t, OrphanQuiet DEF ElfFail
  <1>14. CASE ElfDone
    BY <1>14, <1>t, OrphanQuiet DEF ElfDone, set_procid_ttbr0
  <1>15. CASE ExecInstr
    BY <1>15, <1>t, OrphanQuiet DEF ExecInstr
  <1>16. CASE ExecInstrAbort
    BY <1>16, <1>t, OrphanQuiet DEF ExecInstrAbort, Panic
  <1>17. CASE ExecNoHeap
    BY <1>17, <1>t, OrphanQuiet DEF ExecNoHeap, set_procid_ttbr0
  <1>18. CASE ExecJump
    BY <1>18, <1>t, OrphanQuiet DEF ExecJump, Panic
  <1>19. CASE ExecFlush
    BY <1>19, <1>t, OrphanQuiet DEF ExecFlush
  <1>20. CASE \E sz \in AllocSizes : ShellRead(sz)
    BY <1>20, <1>t, OrphanQuiet DEF ShellRead, kmalloc
  <1>21. CASE \E f \in Files : do_run(f)
    BY <1>21, <1>t, OrphanQuiet DEF do_run, kmalloc
  <1>22. CASE ShellReboot
    BY <1>22, <1>t, OrphanQuiet DEF ShellReboot
  <1>23. CASE \E n \in Incrs : ChildSbrk(n)
    BY <1>23, <1>t, OrphanQuiet DEF ChildSbrk, kernel_sbrk, set_procid_ttbr0
  <1>24. CASE ChildReturn
    BY <1>24, <1>t, OrphanQuiet DEF ChildReturn, set_procid_ttbr0
  <1>25. CASE \E v \in VirtPages : TlbFill(v)
    BY <1>25, <1>t, OrphanQuiet DEF TlbFill
  <1>26. CASE TlbEvict
    BY <1>26, <1>t, OrphanQuiet DEF TlbEvict
  <1>27. QED
    BY <1>0, <1>1, <1>2, <1>3, <1>4, <1>5, <1>6, <1>7, <1>8, <1>9, <1>10, <1>11,
       <1>12, <1>13, <1>14, <1>15, <1>16, <1>17, <1>18, <1>19, <1>20, <1>21, <1>22,
       <1>23, <1>24, <1>25, <1>26

\* The beginning and the end of the mapping of the window.
LEMMA OrphanWindow ==
    ASSUME TypeOK, CallsMatch, MemSound, OrphanInv, MapDone \/ ExecLoad
    PROVE  OrphanInv'
  <1>t. /\ file \in Files \cup {NoFile} /\ req.page \in Nat /\ req.last \in VirtPages
        /\ LoadPage \in Nat /\ NVirt \in Nat /\ VirtPages \subseteq Nat
        /\ req.ret \in {"none", "sbrk_mapped", "copy", "elf_instr"} /\ current_proc \in Ids
    BY SizeAssumption, LayoutAssumption DEF TypeOK, VirtPages
  <1>1. CASE MapDone
    <2>1. /\ pc = "map" /\ req.page > req.last /\ pc' = req.ret
          /\ UNCHANGED <<mem, file, current_proc>>
      BY <1>1 DEF MapDone, proc
    <2>2. MmuOn
      BY <2>1 DEF MmuOn
    <2>3. ASSUME NEW v \in VirtPages, Loaded(v) PROVE Loaded(v)'
      <3>1. req.ret = "copy" /\ v \in LoadPage .. req.page - 1
        BY <2>1, <2>3 DEF Loaded
      <3>2. req.last = LoadEnd(file.n_alloc) /\ req.page <= req.last + 1
        BY <2>1, <2>2, <3>1 DEF MemSound, WindowSound, OrphanInv
      <3>3. v \in LoadPage .. req.last
        <4>1. v \in Nat /\ req.last \in Nat /\ req.page \in Nat /\ LoadPage \in Nat
          BY <1>t
        <4>2. QED
          BY <3>1, <3>2, <4>1
      <3>4. QED
        BY <2>1, <3>1, <3>2, <3>3 DEF Loaded
    <2>4. ChildLive => ChildLive'
      BY <1>t, <2>1 DEF ChildLive, CallsMatch, Ids, KernelId, ChildId
    <2>5. QED
      BY <1>t, <2>1, <2>2, <2>3, <2>4, OrphanQuiet
  <1>2. CASE ExecLoad
    <2>1. /\ pc = "load" /\ pc' = "map" /\ req'.page = LoadPage
          /\ req'.last = LoadEnd(file.n_alloc) /\ UNCHANGED mem
      BY <1>2, FirstLoadPage DEF ExecLoad, StartMap, LoadEnd
    <2>2. MmuOn /\ ~ChildLive /\ \A v : ~Loaded(v)
      BY <2>1 DEF MmuOn, ChildLive, Loaded
    <2>3. LoadPage <= LoadEnd(file.n_alloc) + 1
      <3>1. /\ file.n_alloc \in Nat /\ LoadAddr + file.n_alloc <= AddrSpace
        BY <1>t, FileType
      <3>2. LoadAddr \in Nat /\ LoadAddr > 0
        BY SizeAssumption, LayoutAssumption DEF LoadAddr, VirtPages
      <3>3. PageOf(LoadAddr - 1) <= PageOf(LoadAddr + file.n_alloc - 1)
        BY <3>1, <3>2, PageOfMono, AddrSpaceType
      <3>4. PageOf(LoadAddr - 1) \in Int /\ LoadEnd(file.n_alloc) \in Int
        BY <1>t, <3>2, PageOfType, SharedAreLoaded, SizeAssumption DEF VirtPages
      <3>5. QED
        BY <3>3, <3>4, FirstLoadPage DEF FirstPage, LoadEnd, LastPage
    <2>4. QED
      BY <2>1, <2>2, <2>3, OrphanQuiet
  <1>3. QED
    BY <1>1, <1>2

\* A new section: what it replaces was no frame of the kernel's own.
LEMMA OrphanMap ==
    ASSUME TypeOK, CallsMatch, MemSound, OrphanInv, MapsFresh, MapSection
    PROVE  OrphanInv'
  <1>1. PICK p \in Frames :
             /\ paddr_to_asid_map[p] = 0
             /\ paddr_to_asid_map' = [paddr_to_asid_map EXCEPT ![p] = req.pt]
             /\ tt' = [tt EXCEPT ![req.pt][req.page] = Section(p)]
    BY DEF MapSection, find_available_page, FreeFrames
  <1>2. /\ pc = "map" /\ pc' = "map" /\ req.page <= req.last /\ req'.last = req.last
        /\ req'.page = req.page + 1 /\ req'.ret = req.ret /\ req'.pt = req.pt
        /\ UNCHANGED <<file, current_proc>>
    BY DEF MapSection, TypeOK, proc
  <1>3. /\ req.page \in VirtPages /\ req.page \in Nat /\ req.last \in Nat /\ req.pt \in Ids
        /\ tt \in [Ids -> [VirtPages -> Entry]] /\ ChildId \in Ids /\ KernelId \in Ids
        /\ paddr_to_asid_map \in [Frames -> Ids \cup {0}] /\ VirtPages \subseteq Nat
        /\ LoadPage \in Nat /\ KernelId # ChildId /\ Ids = {KernelId, ChildId}
    BY <1>2, SizeAssumption, LayoutAssumption
       DEF TypeOK, VirtPages, Ids, Table, KernelId, ChildId
  <1>4. /\ MmuOn /\ (ChildLive <=> req.pt = ChildId) /\ (ChildLive' <=> req.pt = ChildId)
    BY <1>2 DEF MmuOn, ChildLive
  <1>5. /\ tt'[req.pt][req.page] = Section(p)
        /\ \A i \in Ids : \A v \in VirtPages :
             i # req.pt \/ v # req.page => tt'[i][v] = tt[i][v]
    BY <1>1, <1>3
  <1>6. Private(Section(p)) /\ Section(p).sec = p
    BY DEF Private, Section
  <1>7. req.ret = "copy" => req.pt = KernelId /\ req.page >= LoadPage
    BY <1>2 DEF CallsMatch, MemSound, WindowSound, KernelId, ChildId
  <1>8. req'.ret = "copy" => req'.page <= req'.last + 1
    BY <1>2, <1>3
  <1>9. req.pt = KernelId /\ req.ret # "copy" =>
          ~Private(tt[KernelId][req.page]) /\ req.page < LoadPage
    BY <1>2 DEF MapsFresh
  <1>10. ASSUME NEW v \in VirtPages, KSec(v)
         PROVE  KSec(v)' /\ tt'[KernelId][v] = tt[KernelId][v]
    <2>1. req.pt # KernelId \/ v # req.page
      BY <1>3, <1>7, <1>9, <1>10 DEF KSec
    <2>2. tt'[KernelId][v] = tt[KernelId][v]
      BY <1>3, <1>5, <2>1
    <2>3. QED
      BY <1>10, <2>2 DEF KSec
  <1>11. ASSUME NEW v \in VirtPages, Loaded(v)
         PROVE  Loaded(v)' /\ tt'[KernelId][v] = tt[KernelId][v]
    <2>1. req.ret = "copy" /\ v \in LoadPage .. req.page - 1
      BY <1>2, <1>11 DEF Loaded
    <2>2. v # req.page /\ v \in LoadPage .. req'.page - 1
      BY <1>2, <1>3, <2>1
    <2>3. QED
      BY <1>2, <1>3, <1>5, <2>1, <2>2 DEF Loaded
  <1>12. ASSUME NEW v \in VirtPages, req.pt = ChildId, Private(tt[ChildId][v])
         PROVE  tt'[ChildId][v] = tt[ChildId][v]
    <2>1. v # req.page
      BY <1>2, <1>3, <1>7, <1>12 DEF MapsFresh
    <2>2. QED
      BY <1>3, <1>5, <2>1
  <1>13. ASSUME req.pt = KernelId
         PROVE  \/ \E v \in VirtPages : KSec(v)' /\ tt'[KernelId][v].sec = p
                \/ \E v \in VirtPages : Loaded(v)' /\ tt'[KernelId][v].sec = p
    <2>1. tt'[KernelId][req.page].sec = p /\ Private(tt'[KernelId][req.page])
      BY <1>5, <1>6, <1>13
    <2>2. CASE req.ret = "copy"
      <3>1. PICK u \in VirtPages : u = req.page
        BY <1>3
      <3>2. u \in LoadPage .. req'.page - 1
        BY <1>2, <1>3, <1>7, <2>2, <3>1
      <3>3. Loaded(u)' /\ tt'[KernelId][u].sec = p
        BY <1>2, <2>1, <2>2, <3>1, <3>2 DEF Loaded
      <3>4. QED
        BY <3>3
    <2>3. CASE req.ret # "copy"
      <3>1. PICK u \in VirtPages : u = req.page
        BY <1>3
      <3>2. KSec(u)' /\ tt'[KernelId][u].sec = p
        BY <1>9, <1>13, <2>1, <2>3, <3>1 DEF KSec
      <3>3. QED
        BY <3>2
    <2>4. QED
      BY <2>2, <2>3
  <1>14. ASSUME NEW q \in Frames, paddr_to_asid_map'[q] = KernelId
         PROVE  \/ \E v \in VirtPages : KSec(v)' /\ tt'[KernelId][v].sec = q
                \/ \E v \in VirtPages : Loaded(v)' /\ tt'[KernelId][v].sec = q
                \/ ChildLive' /\ \E v \in VirtPages : Private(tt'[ChildId][v])
                                                      /\ tt'[ChildId][v].sec = q
    <2>1. CASE q = p
      <3>1. req.pt = KernelId
        BY <1>1, <1>3, <1>14, <2>1
      <3>2. QED
        BY <1>13, <2>1, <3>1
    <2>2. CASE q # p
      <3>1. paddr_to_asid_map[q] = KernelId
        BY <1>1, <1>3, <1>14, <2>2
      <3>2. \/ \E v \in VirtPages : KSec(v) /\ tt[KernelId][v].sec = q
            \/ \E v \in VirtPages : Loaded(v) /\ tt[KernelId][v].sec = q
            \/ ChildLive /\ \E v \in VirtPages : Private(tt[ChildId][v])
                                                 /\ tt[ChildId][v].sec = q
        BY <1>4, <3>1 DEF OrphanInv
      <3>3. CASE \E v \in VirtPages : KSec(v) /\ tt[KernelId][v].sec = q
        BY <1>10, <3>3
      <3>4. CASE \E v \in VirtPages : Loaded(v) /\ tt[KernelId][v].sec = q
        BY <1>11, <3>4
      <3>5. CASE ChildLive /\ \E v \in VirtPages : Private(tt[ChildId][v])
                                                   /\ tt[ChildId][v].sec = q
        BY <1>4, <1>12, <3>5
      <3>6. QED
        BY <3>2, <3>3, <3>4, <3>5
    <2>3. QED
      BY <2>1, <2>2
  <1>15. QED
    BY <1>2, <1>8, <1>14 DEF OrphanInv

\* exec_file shares by n_data what was mapped by n_alloc.
LEMMA OrphanShare ==
    ASSUME TypeOK, OrphanInv, \A f \in Files : SameEnd(f), ExecShare
    PROVE  OrphanInv'
  <1>1. /\ pc = "copy" /\ pc' \in {"elf", "unmap"} /\ UNCHANGED <<file, paddr_to_asid_map>>
        /\ tt' = [tt EXCEPT ![ChildId] = ShareWindow]
    BY DEF ExecShare
  <1>2. /\ tt \in [Ids -> Table] /\ file \in Files \cup {NoFile}
        /\ ChildId \in Ids /\ KernelId \in Ids /\ KernelId # ChildId
    BY DEF TypeOK, Ids, KernelId, ChildId
  <1>3. tt'[ChildId] = ShareWindow /\ tt'[KernelId] = tt[KernelId]
    BY <1>1, <1>2
  <1>4. MmuOn /\ ~ChildLive /\ ChildLive' /\ \A v : KSec(v)' = KSec(v)
    BY <1>1, <1>3 DEF MmuOn, ChildLive, KSec
  <1>5. LoadEnd(file.n_data) = LoadEnd(file.n_alloc)
    BY <1>2 DEF SameEnd, NoFile
  <1>6. ASSUME NEW v \in VirtPages, Loaded(v)
        PROVE  \E u \in VirtPages : /\ Private(tt'[ChildId][u])
                                    /\ tt'[ChildId][u].sec = tt[KernelId][v].sec
    <2>1. v \in LoadPage .. LoadEnd(file.n_data)
      BY <1>1, <1>5, <1>6 DEF Loaded
    <2>2. PICK u : u = ProcLoadPage + (v - LoadPage)
      OBVIOUS
    <2>3. /\ LoadPage \in Nat /\ ProcLoadPage \in Nat /\ NVirt \in Nat /\ NVirt > 0
          /\ v \in Nat /\ Sec \in Nat /\ Sec > 0 /\ ProcLoadPage < NVirt
      BY SizeAssumption, LayoutAssumption DEF VirtPages
    <2>4. u \in VirtPages
      <3>1. CASE file \in Files
        <4>1. PICK a \in Nat : a = LoadAddr + file.n_alloc - 1
          <5>1. LoadAddr \in Nat /\ LoadAddr > 0 /\ file.n_alloc \in Nat
            BY <1>2, FileType, SizeAssumption, LayoutAssumption DEF LoadAddr, VirtPages
          <5>2. QED
            BY <5>1
        <4>2. (ProcLoadPage - LoadPage) * Sec + a < AddrSpace /\ a < AddrSpace
          <5>1. /\ (ProcLoadPage - LoadPage) * Sec + LoadAddr + file.n_alloc <= AddrSpace
                /\ LoadAddr + file.n_alloc <= AddrSpace
            BY <3>1, WindowAssumption
          <5>2. (ProcLoadPage - LoadPage) * Sec \in Int /\ LoadAddr \in Int /\ AddrSpace \in Int
                /\ file.n_alloc \in Int
            BY <1>2, <2>3, FileType, AddrSpaceType DEF LoadAddr
          <5>3. QED
            BY <4>1, <5>1, <5>2
        <4>3. v <= a \div Sec
          <5>1. v <= PageOf(a)
            BY <1>5, <2>1, <4>1 DEF LoadEnd, LastPage
          <5>2. a \div Sec < NVirt /\ a \div Sec >= 0 /\ a \div Sec \in Int
            BY <2>3, <4>2 DEF AddrSpace
          <5>3. PageOf(a) = a \div Sec
            BY <2>3, <5>2 DEF PageOf
          <5>4. QED
            BY <5>1, <5>3
        <4>4. v * Sec <= a
          <5>1. (a \div Sec) * Sec <= a /\ a \div Sec \in Int
            BY <2>3
          <5>2. v * Sec <= (a \div Sec) * Sec
            BY <2>3, <4>3, <5>1
          <5>3. QED
            BY <2>3, <5>1, <5>2
        <4>5. u * Sec < NVirt * Sec
          <5>1. u * Sec = (ProcLoadPage - LoadPage) * Sec + v * Sec
            BY <2>2, <2>3
          <5>2. QED
            BY <2>3, <4>2, <4>4, <5>1 DEF AddrSpace
        <4>6. u \in Nat /\ u < NVirt
          BY <2>1, <2>2, <2>3, <4>5
        <4>7. QED
          BY <2>3, <4>6 DEF VirtPages
      <3>2. CASE file = NoFile
        <4>1. LoadEnd(file.n_data) = LoadPage - 1
          <5>1. LoadPage * Sec \in Int
            BY <2>3
          <5>2. LoadAddr + 0 - 1 = LoadAddr - 1
            BY <5>1 DEF LoadAddr
          <5>3. PageOf(LoadAddr - 1) = LoadPage - 1
            <6>1. PageOf(LoadAddr - 1) \in VirtPages
              BY <5>1, PageOfType DEF LoadAddr
            <6>2. QED
              BY <6>1, <2>3, FirstLoadPage, SizeAssumption DEF FirstPage, VirtPages
          <5>4. QED
            BY <3>2, <5>2, <5>3 DEF NoFile, LoadEnd, LastPage
        <4>2. QED
          BY <2>1, <2>3, <4>1
      <3>3. QED
        BY <1>2, <3>1, <3>2
    <2>5. u \in SharedPages /\ u - ProcLoadPage + LoadPage = v
      BY <2>1, <2>2, <2>3 DEF SharedPages
    <2>6. ShareWindow[u] = Section(tt[KernelId][v].sec)
      BY <2>4, <2>5 DEF ShareWindow
    <2>7. QED
      BY <1>3, <2>4, <2>6 DEF Private, Section
  <1>7. ASSUME NEW q \in Frames, paddr_to_asid_map[q] = KernelId
        PROVE  \/ \E v \in VirtPages : KSec(v)' /\ tt'[KernelId][v].sec = q
               \/ \E v \in VirtPages : Private(tt'[ChildId][v]) /\ tt'[ChildId][v].sec = q
    BY <1>3, <1>4, <1>6, <1>7 DEF OrphanInv
  <1>8. QED
    BY <1>1, <1>4, <1>7 DEF OrphanInv

LEMMA OrphanNext ==
    ASSUME TypeOK, IsolationInv, OrphanInv, MapsFresh, TablesLow, \A f \in Files : SameEnd(f),
           [Next]_vars
    PROVE  OrphanInv'
  <1>c. CallsMatch /\ (pc # "off" => MemSound)
    BY DEF IsolationInv, MemSound
  <1>1. CASE VmEnable
    <2>1. /\ tt' = [tt EXCEPT ![KernelId] = BootTable] /\ pc' = "kmalloc"
          /\ paddr_to_asid_map' = BootMap
      BY <1>1 DEF VmEnable, kmalloc
    <2>2. tt'[KernelId] = BootTable
      BY <2>1 DEF TypeOK, Ids
    <2>3. ASSUME NEW p \in Frames, paddr_to_asid_map'[p] = KernelId
          PROVE  p \in VirtPages /\ KSec(p)' /\ tt'[KernelId][p].sec = p
      <3>1. p \in TTPages
        BY <2>1, <2>3 DEF BootMap, KernelId
      <3>2. p \in VirtPages /\ p < LoadPage
        BY <3>1, SizeAssumption DEF TablesLow, Frames, VirtPages
      <3>3. BootTable[p] = Section(p)
        BY <3>1, <3>2 DEF BootTable
      <3>4. QED
        BY <2>2, <3>2, <3>3 DEF KSec, Private, Section
    <2>4. QED
      BY <2>1, <2>3 DEF OrphanInv
  <1>2. CASE Reboot
    BY <1>2 DEF Reboot, OrphanInv, MmuOn
  <1>3. CASE MapSection
    BY <1>3, <1>c, OrphanMap DEF MapSection
  <1>4. CASE MapDone \/ ExecLoad
    BY <1>4, <1>c, OrphanWindow DEF MapDone, ExecLoad
  <1>5. CASE ExecBegin
    <2>1. /\ pc = "exec" /\ pc' = "kmalloc" /\ UNCHANGED paddr_to_asid_map
          /\ tt'[KernelId] = tt[KernelId]
      BY <1>5 DEF ExecBegin, kmalloc, TypeOK, Ids, KernelId, ChildId
    <2>2. MmuOn /\ ~ChildLive /\ (\A v : ~Loaded(v)) /\ \A v : KSec(v)' = KSec(v)
      BY <2>1 DEF MmuOn, ChildLive, Loaded, KSec
    <2>3. QED
      BY <2>1, <2>2 DEF OrphanInv
  <1>6. CASE ExecShare
    BY <1>6, OrphanShare
  <1>7. CASE ExecUnmap
    <2>1. /\ pc = "unmap" /\ pc' = "shell" /\ UNCHANGED tt
          /\ paddr_to_asid_map' = mmu_unmap(paddr_to_asid_map, tt[ChildId])
      BY <1>7 DEF ExecUnmap
    <2>2. MmuOn /\ (\A v : ~Loaded(v)) /\ \A v : KSec(v)' = KSec(v)
      BY <2>1 DEF MmuOn, Loaded, KSec
    <2>3. ASSUME NEW p \in Frames, paddr_to_asid_map'[p] = KernelId
          PROVE  /\ paddr_to_asid_map[p] = KernelId
                 /\ ~\E v \in VirtPages : Private(tt[ChildId][v]) /\ tt[ChildId][v].sec = p
      BY <2>1, <2>3 DEF mmu_unmap, KernelId
    <2>4. QED
      BY <2>1, <2>2, <2>3 DEF OrphanInv
  <1>8. CASE ~MmuOn /\ ~(VmEnable \/ Reboot)
    <2>1. UNCHANGED vars
      BY <1>8, OffSteps
    <2>2. QED
      BY <1>8, <2>1 DEF vars, OrphanInv, MmuOn
  <1>9. CASE /\ MmuOn
             /\ ~(VmEnable \/ Reboot \/ MapSection \/ MapDone \/ ExecLoad)
             /\ ~(ExecBegin \/ ExecShare \/ ExecUnmap)
    BY <1>9, <1>c, OrphanNextQuiet DEF Next, KernelStep, ShellStep
  <1>10. QED
    BY <1>1, <1>2, <1>3, <1>4, <1>5, <1>6, <1>7, <1>8, <1>9

\* Back at the prompt every frame the kernel owns is one it has mapped: the
\* window that exec_file forgets has been given back by the child's mmu_unmap,
\* whether the load succeeded or not.  It holds for files whose bytes end in
\* the section their clusters end in (an empty file does not, see the run
\* kernel_orphans), as long as nothing is mapped over a section in use.
THEOREM NoOrphansCorrect ==
    ASSUME TablesLow, \A f \in Files : SameEnd(f)
    PROVE  Spec /\ []MapsFresh => []NoOrphans
  <1>1. Init => TypeOK /\ IsolationInv /\ OrphanInv
    <2>1. Init => OrphanInv
      BY DEF Init, OrphanInv, MmuOn
    <2>2. QED
      BY <2>1, TypeInit, IsolationInit
  <1>2. TypeOK /\ IsolationInv /\ OrphanInv /\ MapsFresh /\ [Next]_vars
          => TypeOK' /\ IsolationInv' /\ OrphanInv'
    BY TypeNext, IsolationNext, OrphanNext DEF IsolationInv
  <1>3. OrphanInv => NoOrphans
    BY DEF OrphanInv, NoOrphans, MmuOn, ChildLive, Loaded, KSec, Pages
  <1>4. QED
    BY <1>1, <1>2, <1>3, PTL DEF Spec
-----------------------------------------------------------------------------
(* What the loader and sbrk touch is mapped *)

\* What a growing heap touches: the section below its break, or new ones.
LEMMA GrowthTouched ==
    ASSUME NEW brk \in Nat, NEW n \in Nat, brk > 0, brk + n < AddrSpace,
           NEW v \in Touched(brk, n)
    PROVE  /\ v \in VirtPages
           /\ v = PageOf(brk - 1) \/ v \in FirstPage(brk) .. LastPage(brk, n)
           /\ PageOf(brk) = FirstPage(brk) => v \in FirstPage(brk) .. LastPage(brk, n)
  <1>1. PICK a \in brk .. brk + n - 1 : v = PageOf(a)
    BY DEF Touched
  <1>2. /\ a \in Nat /\ brk - 1 \in Nat /\ brk - 1 <= a /\ brk <= a /\ a <= brk + n - 1
        /\ brk + n - 1 \in Nat /\ brk + n - 1 < AddrSpace /\ a < AddrSpace
    BY <1>1, AddrSpaceType
  <1>3. /\ PageOf(brk - 1) <= PageOf(a) /\ PageOf(brk) <= PageOf(a)
        /\ PageOf(a) <= PageOf(brk + n - 1)
    BY <1>2, PageOfMono
  <1>4. /\ PageOf(brk - 1) \in VirtPages /\ PageOf(brk) \in VirtPages
        /\ PageOf(a) \in VirtPages /\ PageOf(brk + n - 1) \in VirtPages
    BY <1>2, PageOfType
  <1>5. /\ PageOf(brk - 1) \in Int /\ PageOf(brk) \in Int
        /\ PageOf(a) \in Int /\ PageOf(brk + n - 1) \in Int
    BY <1>4, SizeAssumption DEF VirtPages
  <1>6. v \in VirtPages /\ v \in Int /\ v <= PageOf(brk + n - 1)
        /\ PageOf(brk - 1) <= v /\ PageOf(brk) <= v
    BY <1>1, <1>3, <1>4, <1>5
  <1>7. QED
    BY <1>5, <1>6 DEF FirstPage, LastPage

\* A step that leaves tables and breaks alone and finishes nothing.
LEMMA AbortQuiet ==
    ASSUME AbortInv, UNCHANGED <<tt, heap_end>>,
           Loading' => Loading /\ UNCHANGED file,
           pc' = "instr" \/ (pc' \in {"ttbr", "asid"} /\ sw'.ret = "instr") =>
               \/ step' > 0
               \/ UNCHANGED step /\ (pc = "instr" \/ (pc \in {"ttbr", "asid"} /\ sw.ret = "instr")),
           \A i \in Ids : HasHeap(i)' => HasHeap(i),
           pc' = "map" /\ req'.ret = "sbrk_mapped" => UNCHANGED <<pc, req, current_proc, incr>>,
           Growing' => Growing /\ UNCHANGED <<current_proc, incr>>
    PROVE  AbortInv'
  <1>1. Loading' => \A v \in VirtPages : v \in SharedPages' => tt'[ChildId][v].tag # 0
    BY DEF AbortInv, SharedPages
  <1>2. \A i \in Ids : HasHeap(i)' => Edge(i)'
    BY DEF AbortInv, Edge
  <1>3. pc' = "map" /\ req'.ret = "sbrk_mapped" =>
          /\ heap_end'[current_proc'] + incr' < AddrSpace
          /\ req'.last = LastPage(heap_end'[current_proc'], incr')
          /\ req'.page >= FirstPage(heap_end'[current_proc']) /\ GrownTo(req.page)'
    BY DEF AbortInv, GrownTo
  <1>4. Growing' =>
          /\ heap_end'[current_proc'] + incr' < AddrSpace
          /\ GrownTo(LastPage(heap_end[current_proc], incr) + 1)'
    BY DEF AbortInv, GrownTo
  <1>5. pc' = "instr" \/ (pc' \in {"ttbr", "asid"} /\ sw'.ret = "instr") => step' > 0
    BY DEF AbortInv
  <1>6. QED
    BY <1>1, <1>2, <1>3, <1>4, <1>5 DEF AbortInv

LEMMA AbortNextQuiet ==
    ASSUME TypeOK, CallsMatch, AbortInv, MmuOn,
           \/ UNCHANGED vars
           \/ OutOfMemory
           \/ SetTtbr
           \/ SetAsid
           \/ SbrkMapped
           \/ SbrkAbort
           \/ KmallocGrow
           \/ KmallocTake
           \/ ExecLoad
           \/ ElfMap
           \/ ElfInstr
           \/ ElfNoRoom
           \/ ElfFail
           \/ ElfDone
           \/ ExecInstr
           \/ ExecInstrAbort
           \/ ExecNoHeap
           \/ ExecFlush
           \/ \E sz \in AllocSizes : ShellRead(sz)
           \/ \E f \in Files : do_run(f)
           \/ ShellReboot
           \/ \E n \in Incrs : ChildSbrk(n)
           \/ ChildReturn
           \/ \E v \in VirtPages : TlbFill(v)
           \/ TlbEvict
    PROVE  AbortInv'
  <1> USE DEF CallsMatch, KernelPoints, KmallocPoints, Ids, KernelId, ChildId,
              MmuOn, Loading, Growing, HasHeap, mem, mmu, proc, call
  <1>t. /\ current_proc \in Ids /\ step \in Nat
        /\ req.ret \in {"none", "sbrk_mapped", "copy", "elf_instr"}
        /\ sw.ret \in {"none", "instr", "sbrk_map", "sbrk_zero", "inv"}
        /\ km.ret \in {"none", "shell", "exec", "load"}
    BY DEF TypeOK
  <1>0. CASE UNCHANGED vars
    BY <1>0, <1>t, AbortQuiet DEF vars
  <1>1. CASE OutOfMemory
    BY <1>1, <1>t, AbortQuiet DEF OutOfMemory, Panic
  <1>2. CASE SetTtbr
    BY <1>2, <1>t, AbortQuiet DEF SetTtbr
  <1>3. CASE SetAsid
    BY <1>3, <1>t, AbortQuiet DEF SetAsid
  <1>4. CASE SbrkMapped
    BY <1>4, <1>t, AbortQuiet DEF SbrkMapped, set_procid_ttbr0
  <1>5. CASE SbrkAbort
    BY <1>5, <1>t, AbortQuiet DEF SbrkAbort, Panic
  <1>6. CASE KmallocGrow
    BY <1>6, <1>t, AbortQuiet DEF KmallocGrow, kernel_sbrk, set_procid_ttbr0
  <1>7. CASE KmallocTake
    BY <1>7, <1>t, AbortQuiet DEF KmallocTake, NoKm
  <1>8. CASE ExecLoad
    BY <1>8, <1>t, AbortQuiet DEF ExecLoad, StartMap
  <1>9. CASE ElfMap
    BY <1>9, <1>t, AbortQuiet DEF ElfMap, StartMap
  <1>10. CASE ElfInstr
    BY <1>10, <1>t, AbortQuiet DEF ElfInstr
  <1>11. CASE ElfNoRoom
    BY <1>11, <1>t, AbortQuiet DEF ElfNoRoom, Panic
  <1>12. CASE ElfFail
    BY <1>12, <1>t, AbortQuiet DEF ElfFail
  <1>13. CASE ElfDone
    BY <1>13, <1>t, AbortQuiet DEF ElfDone, set_procid_ttbr0
  <1>14. CASE ExecInstr
    BY <1>14, <1>t, AbortQuiet DEF ExecInstr
  <1>15. CASE ExecInstrAbort
    BY <1>15, <1>t, AbortQuiet DEF ExecInstrAbort, Panic
  <1>16. CASE ExecNoHeap
    BY <1>16, <1>t, AbortQuiet DEF ExecNoHeap, set_procid_ttbr0
  <1>17. CASE ExecFlush
    BY <1>17, <1>t, AbortQuiet DEF ExecFlush
  <1>18. CASE \E sz \in AllocSizes : ShellRead(sz)
    BY <1>18, <1>t, AbortQuiet DEF ShellRead, kmalloc
  <1>19. CASE \E f \in Files : do_run(f)
    BY <1>19, <1>t, AbortQuiet DEF do_run, kmalloc
  <1>20. CASE ShellReboot
    BY <1>20, <1>t, AbortQuiet DEF ShellReboot
  <1>21. CASE \E n \in Incrs : ChildSbrk(n)
    BY <1>21, <1>t, AbortQuiet DEF ChildSbrk, kernel_sbrk, set_procid_ttbr0
  <1>22. CASE ChildReturn
    BY <1>22, <1>t, AbortQuiet DEF ChildReturn, set_procid_ttbr0
  <1>23. CASE \E v \in VirtPages : TlbFill(v)
    BY <1>23, <1>t, AbortQuiet DEF TlbFill
  <1>24. CASE TlbEvict
    BY <1>24, <1>t, AbortQuiet DEF TlbEvict
  <1>25. QED
    BY <1>0, <1>1, <1>2, <1>3, <1>4, <1>5, <1>6, <1>7, <1>8, <1>9, <1>10, <1>11,
       <1>12, <1>13, <1>14, <1>15, <1>16, <1>17, <1>18, <1>19, <1>20, <1>21, <1>22,
       <1>23, <1>24

\* sbrk: the mapping starts, ends, and the break moves.
LEMMA AbortSbrk ==
    ASSUME TypeOK, CallsMatch, AbortInv, BreakFits, SbrkMap \/ MapDone
    PROVE  AbortInv'
  <1>t. /\ current_proc \in Ids /\ heap_end \in [Ids -> Nat] /\ incr \in Nat
        /\ req.page \in Nat /\ req.last \in VirtPages
        /\ req.ret \in {"none", "sbrk_mapped", "copy", "elf_instr"}
        /\ VirtPages \subseteq Nat
    BY SizeAssumption DEF TypeOK, VirtPages
  <1>p. /\ FirstPage(heap_end[current_proc]) \in Nat
        /\ LastPage(heap_end[current_proc], incr) \in VirtPages
    BY <1>t, PageRange
  <1>1. CASE SbrkMap
    <2>1. /\ pc = "sbrk_map" /\ pc' = "map" /\ UNCHANGED <<tt, heap_end, current_proc, incr>>
          /\ req'.page = FirstPage(heap_end[current_proc]) /\ req'.ret = "sbrk_mapped"
          /\ req'.last = LastPage(heap_end[current_proc], incr)
      BY <1>1 DEF SbrkMap, StartMap, mem, proc
    <2>2. ~Loading' /\ ~Growing' /\ \A i \in Ids : HasHeap(i)' => HasHeap(i)
      BY <2>1 DEF Loading, Growing, HasHeap, MmuOn
    <2>3. \A i \in Ids : HasHeap(i)' => Edge(i)'
      BY <2>1, <2>2 DEF AbortInv, Edge
    <2>4. \A v \in VirtPages : v \notin FirstPage(heap_end[current_proc]) .. req'.page - 1
      BY <1>t, <1>p, <2>1
    <2>5. GrownTo(req.page)'
      BY <2>1, <2>4 DEF GrownTo
    <2>6. heap_end[current_proc] + incr < AddrSpace /\ req'.page >= FirstPage(heap_end[current_proc])
      BY <1>p, <2>1 DEF BreakFits
    <2>7. QED
      BY <2>1, <2>2, <2>3, <2>5, <2>6 DEF AbortInv
  <1>2. CASE MapDone
    <2>1. /\ pc = "map" /\ req.page > req.last /\ pc' = req.ret
          /\ UNCHANGED <<tt, heap_end, current_proc, incr, file, step>>
      BY <1>2 DEF MapDone, mem, proc
    <2>2. CASE req.ret = "sbrk_mapped"
      <3>1. /\ heap_end[current_proc] + incr < AddrSpace /\ GrownTo(req.page)
            /\ req.last = LastPage(heap_end[current_proc], incr)
        BY <2>1, <2>2 DEF AbortInv
      <3>2. GrownTo(LastPage(heap_end[current_proc], incr) + 1)
        <4>1. ASSUME NEW v \in VirtPages,
                     v \in FirstPage(heap_end[current_proc])
                             .. (LastPage(heap_end[current_proc], incr) + 1) - 1
              PROVE  v \in FirstPage(heap_end[current_proc]) .. req.page - 1
          <5>1. v \in Nat /\ req.last \in Nat /\ req.page \in Nat
            BY <1>t
          <5>2. QED
            BY <1>p, <2>1, <3>1, <4>1, <5>1
        <4>2. QED
          BY <3>1, <4>1 DEF GrownTo
      <3>3. GrownTo(LastPage(heap_end[current_proc], incr) + 1)'
        BY <2>1, <3>2 DEF GrownTo
      <3>4. ~Loading' /\ \A i \in Ids : HasHeap(i)' => HasHeap(i)
        BY <2>1, <2>2 DEF Loading, HasHeap, MmuOn
      <3>5. \A i \in Ids : HasHeap(i)' => Edge(i)'
        BY <2>1, <3>4 DEF AbortInv, Edge
      <3>6. QED
        BY <2>1, <2>2, <3>1, <3>3, <3>4, <3>5 DEF AbortInv
    <2>3. CASE req.ret # "sbrk_mapped"
      BY <1>t, <2>1, <2>3, AbortQuiet DEF Loading, Growing, HasHeap, MmuOn
    <2>4. QED
      BY <2>2, <2>3
  <1>3. QED
    BY <1>1, <1>2

LEMMA AbortZero ==
    ASSUME TypeOK, CallsMatch, AbortInv, TLBInv, SbrkZero
    PROVE  AbortInv'
  <1>1. /\ pc = "sbrk_zero" /\ pc' \in {"kmalloc", "child"} /\ UNCHANGED <<tt, current_proc>>
        /\ heap_end' = [heap_end EXCEPT ![current_proc] =
                          (heap_end[current_proc] + incr) % AddrSpace]
        /\ Mapped(SbrkTouched)
    BY DEF SbrkZero, mem
  <1>t. /\ current_proc \in Ids /\ heap_end \in [Ids -> Nat] /\ incr \in Nat
        /\ AddrSpace \in Nat /\ AddrSpace > 0
    BY AddrSpaceType DEF TypeOK
  <1>2. MmuOn /\ HasHeap(current_proc) /\ Growing
    BY <1>1, <1>t DEF MmuOn, HasHeap, Growing, Ids
  <1>3. ttbr = current_proc
    BY <1>1, <1>2, <1>t DEF TLBInv, SwitchSound, RunningId, Ids
  <1>4. Edge(current_proc) /\ heap_end[current_proc] + incr < AddrSpace
    BY <1>2, <1>t DEF AbortInv
  <1>5. PICK brk \in Nat : brk = heap_end[current_proc]
    BY <1>t
  <1>6. brk + incr \in Nat /\ (brk + incr) % AddrSpace = brk + incr
    BY <1>t, <1>4, <1>5
  <1>7. heap_end'[current_proc] = brk + incr
        /\ \A i \in Ids : i # current_proc => heap_end'[i] = heap_end[i]
    BY <1>1, <1>5, <1>6, <1>t
  <1>8. Edge(current_proc)'
    <2>1. CASE incr = 0
      BY <1>1, <1>4, <1>5, <1>7, <2>1 DEF Edge
    <2>2. CASE incr > 0
      <3>1. brk + incr - 1 \in brk .. brk + incr - 1
        BY <2>2, <1>t
      <3>2. PageOf(brk + incr - 1) \in SbrkTouched
        BY <1>5, <3>1 DEF SbrkTouched, Touched
      <3>3. tt[current_proc][PageOf(brk + incr - 1)].tag # 0
        BY <1>1, <1>3, <3>2 DEF Mapped
      <3>4. brk + incr > 0 /\ brk + incr < AddrSpace
        BY <1>4, <1>5, <2>2, <1>t
      <3>5. PICK n \in Nat : n = brk + incr
        BY <1>t
      <3>6. tt[current_proc][PageOf(n - 1)].tag # 0 /\ n > 0 /\ n < AddrSpace
        BY <1>t, <3>3, <3>4, <3>5
      <3>7. heap_end'[current_proc'] = n /\ tt' = tt /\ current_proc' = current_proc
        BY <1>1, <1>7, <3>5
      <3>8. QED
        BY <3>6, <3>7 DEF Edge
    <2>3. QED
      BY <2>1, <2>2, <1>t
  <1>9. \A i \in Ids : HasHeap(i)' => HasHeap(i)
    BY <1>1 DEF HasHeap, MmuOn
  <1>10. ASSUME NEW i \in Ids, HasHeap(i)' PROVE Edge(i)'
    <2>1. CASE i = current_proc
      BY <1>1, <1>8, <2>1
    <2>2. CASE i # current_proc
      <3>1. Edge(i)
        BY <1>9, <1>10 DEF AbortInv
      <3>2. QED
        BY <1>1, <1>7, <2>2, <3>1 DEF Edge
    <2>3. QED
      BY <2>1, <2>2
  <1>11. ~Loading' /\ ~Growing'
    BY <1>1 DEF Loading, Growing
  <1>12. QED
    BY <1>1, <1>10, <1>11 DEF AbortInv

\* A section that becomes mapped, in whichever table.
LEMMA AbortMap ==
    ASSUME TypeOK, CallsMatch, AbortInv, MapSection
    PROVE  AbortInv'
  <1>1. PICK p : tt' = [tt EXCEPT ![req.pt][req.page] = Section(p)]
    BY DEF MapSection
  <1>2. /\ pc = "map" /\ pc' = "map" /\ req.page <= req.last /\ req'.last = req.last
        /\ req'.page = req.page + 1 /\ req'.ret = req.ret
        /\ UNCHANGED <<file, step, heap_end, current_proc, incr, sw>>
    BY DEF MapSection, TypeOK, proc
  <1>3. /\ req.page \in VirtPages /\ req.page \in Nat /\ req.pt \in Ids
        /\ tt \in [Ids -> [VirtPages -> Entry]] /\ current_proc \in Ids /\ ChildId \in Ids
        /\ heap_end \in [Ids -> Nat] /\ incr \in Nat /\ VirtPages \subseteq Nat
    BY <1>2, SizeAssumption DEF TypeOK, VirtPages, Ids, Table
  <1>4. ASSUME NEW i \in Ids, NEW v \in VirtPages, tt[i][v].tag # 0 \/ (i = req.pt /\ v = req.page)
        PROVE  tt'[i][v].tag # 0
    <2>1. CASE i = req.pt /\ v = req.page
      BY <1>1, <1>3, <2>1 DEF Section
    <2>2. CASE ~(i = req.pt /\ v = req.page)
      <3>1. tt'[i][v] = tt[i][v]
        BY <1>1, <1>3, <2>2
      <3>2. QED
        BY <1>4, <2>2, <3>1
    <2>3. QED
      BY <2>1, <2>2
  <1>5. Loading' => \A v \in VirtPages : v \in SharedPages' => tt'[ChildId][v].tag # 0
    <2>1. Loading' => Loading
      BY <1>2 DEF Loading
    <2>2. SharedPages' = SharedPages
      BY <1>2 DEF SharedPages
    <2>3. QED
      BY <1>3, <1>4, <2>1, <2>2 DEF AbortInv
  <1>6. ASSUME NEW i \in Ids, HasHeap(i)' PROVE Edge(i)'
    <2>1. Edge(i)
      BY <1>2, <1>6 DEF AbortInv, HasHeap, MmuOn
    <2>2. heap_end[i] - 1 \in Int /\ PageOf(heap_end[i] - 1) \in VirtPages
      BY <1>3, PageOfType
    <2>3. QED
      BY <1>2, <1>4, <2>1, <2>2 DEF Edge
  <1>7. ASSUME req.ret = "sbrk_mapped"
        PROVE  /\ heap_end[current_proc] + incr < AddrSpace
               /\ req'.last = LastPage(heap_end[current_proc], incr)
               /\ req'.page >= FirstPage(heap_end[current_proc])
               /\ GrownTo(req.page)'
    <2>1. /\ heap_end[current_proc] + incr < AddrSpace
          /\ req.last = LastPage(heap_end[current_proc], incr)
          /\ req.page >= FirstPage(heap_end[current_proc]) /\ GrownTo(req.page)
      BY <1>2, <1>7 DEF AbortInv
    <2>2. FirstPage(heap_end[current_proc]) \in Nat
      BY <1>3, PageRange
    <2>3. req.pt = current_proc
      BY <1>2, <1>7 DEF CallsMatch
    <2>4. ASSUME NEW v \in VirtPages, v \in FirstPage(heap_end[current_proc]) .. req'.page - 1
          PROVE  tt'[current_proc][v].tag # 0
      <3>1. v = req.page \/ v \in FirstPage(heap_end[current_proc]) .. req.page - 1
        <4>1. v \in Nat /\ req.page \in Nat
          BY <1>3
        <4>2. QED
          BY <1>2, <2>2, <2>4, <4>1
      <3>2. QED
        BY <1>3, <1>4, <2>1, <2>3, <3>1 DEF GrownTo
    <2>5. GrownTo(req.page)'
      BY <1>2, <2>4 DEF GrownTo
    <2>6. QED
      BY <1>2, <1>3, <2>1, <2>2, <2>5
  <1>8. ~Growing'
    BY <1>2 DEF Growing
  <1>9. QED
    BY <1>2, <1>5, <1>6, <1>7, <1>8 DEF AbortInv

\* exec_file: a fresh table, the window, and the break at the jump.
LEMMA AbortExec ==
    ASSUME TypeOK, CallsMatch, AbortInv, LoadInv, HeapInv, \A f \in Files : SoundFile(f),
           ExecBegin \/ ExecShare \/ ExecJump
    PROVE  AbortInv'
  <1>t. /\ tt \in [Ids -> Table] /\ heap_end \in [Ids -> Nat] /\ heap_start \in Nat
        /\ ChildId \in Ids /\ KernelId \in Ids /\ KernelId # ChildId
        /\ Ids = {KernelId, ChildId} /\ file \in Files \cup {NoFile}
    BY DEF TypeOK, Ids, KernelId, ChildId
  <1>1. CASE ExecBegin
    <2>1. /\ pc = "exec" /\ pc' = "kmalloc" /\ UNCHANGED <<current_proc>>
          /\ tt'[KernelId] = tt[KernelId] /\ heap_end'[KernelId] = heap_end[KernelId]
      BY <1>1, <1>t DEF ExecBegin, kmalloc
    <2>2. current_proc = KernelId
      BY <2>1 DEF CallsMatch, KernelPoints
    <2>3. HasHeap(KernelId) /\ ~HasHeap(ChildId)' /\ ~Loading' /\ ~Growing'
      BY <1>t, <2>1, <2>2 DEF HasHeap, MmuOn, Loading, Growing
    <2>4. Edge(KernelId)'
      BY <1>t, <2>1, <2>3 DEF AbortInv, Edge
    <2>5. QED
      BY <1>t, <2>1, <2>3, <2>4 DEF AbortInv
  <1>2. CASE ExecShare
    <2>1. /\ pc = "copy" /\ pc' \in {"elf", "unmap"} /\ UNCHANGED <<current_proc, heap_end, file>>
          /\ tt' = [tt EXCEPT ![ChildId] = ShareWindow]
      BY <1>2 DEF ExecShare, proc
    <2>2. tt'[KernelId] = tt[KernelId] /\ tt'[ChildId] = ShareWindow
      BY <1>t, <2>1
    <2>3. current_proc = KernelId
      BY <2>1 DEF CallsMatch, KernelPoints
    <2>4. HasHeap(KernelId) /\ ~HasHeap(ChildId)' /\ ~Growing'
      BY <1>t, <2>1, <2>3 DEF HasHeap, MmuOn, Growing
    <2>5. Edge(KernelId)'
      BY <1>t, <2>1, <2>2, <2>4 DEF AbortInv, Edge
    <2>6. \A v \in VirtPages : v \in SharedPages' => tt'[ChildId][v].tag # 0
      <3>1. SharedPages' = SharedPages
        BY <2>1 DEF SharedPages
      <3>2. QED
        BY <2>2, <3>1 DEF ShareWindow, Section
    <2>7. QED
      BY <1>t, <2>1, <2>4, <2>5, <2>6 DEF AbortInv
  <1>3. CASE ExecJump
    <2>1. /\ pc = "instr" /\ heap_start # 0 /\ pc' \in {"child", "panic"} /\ UNCHANGED tt
          /\ heap_end' = [heap_end EXCEPT ![ChildId] = heap_start]
      BY <1>3 DEF ExecJump, Panic, mem
    <2>2. heap_start \in get_heap_address(file)
      BY <2>1 DEF HeapInv
    <2>3. file \in Files
      <3>1. get_heap_address(NoFile) = {0}
        BY DEF get_heap_address, HeapEnds, NoFile
      <3>2. QED
        BY <1>t, <2>1, <2>2, <3>1
    <2>4. /\ heap_start < AddrSpace /\ PageOf(heap_start - 1) \in VirtPages
          /\ \E i \in DOMAIN LoadInstrs(file) : PageOf(heap_start - 1) \in InstrPages(file, i)
      BY <2>1, <2>2, <2>3 DEF SoundFile
    <2>5. Owned(PageOf(heap_start - 1))
      BY <2>1, <2>4 DEF LoadInv, InstrDone
    <2>6. heap_end'[ChildId] = heap_start /\ heap_end'[KernelId] = heap_end[KernelId]
      BY <1>t, <2>1
    <2>7. Edge(ChildId)'
      BY <1>t, <2>1, <2>4, <2>5, <2>6 DEF Edge, Owned, Private
    <2>8. HasHeap(KernelId) /\ ~Loading' /\ ~Growing'
      BY <2>1 DEF HasHeap, MmuOn, Loading, Growing
    <2>9. Edge(KernelId)'
      BY <1>t, <2>1, <2>6, <2>8 DEF AbortInv, Edge
    <2>10. QED
      BY <1>t, <2>1, <2>7, <2>8, <2>9 DEF AbortInv
  <1>4. QED
    BY <1>1, <1>2, <1>3

LEMMA AbortNext ==
    ASSUME TypeOK, CallsMatch, TLBInv, LoadInv, HeapInv, AbortInv, BreakFits, HeapPage > 0,
           \A f \in Files : SoundFile(f), [Next]_vars
    PROVE  AbortInv'
  <1>1. CASE VmEnable
    <2>1. /\ pc' = "kmalloc" /\ current_proc' = KernelId
          /\ heap_end' = [heap_end EXCEPT ![KernelId] = HeapPage * Sec]
      BY <1>1 DEF VmEnable, kmalloc
    <2>2. heap_end'[KernelId] = HeapPage * Sec
      BY <2>1 DEF TypeOK, Ids
    <2>3. /\ HeapPage \in Nat /\ HeapPage < NVirt /\ NVirt \in Nat /\ Sec \in Nat /\ Sec > 0
      BY SizeAssumption, LayoutAssumption DEF VirtPages
    <2>4. HeapPage * Sec > 0 /\ HeapPage * Sec < AddrSpace /\ HeapPage * Sec \in Nat
      <3>1. (NVirt - HeapPage) * Sec > 0 /\ HeapPage * Sec > 0
        BY <2>3
      <3>2. QED
        BY <2>3, <3>1 DEF AddrSpace
    <2>5. PageOf(HeapPage * Sec) = HeapPage
      <3>1. (HeapPage * Sec) \div Sec = HeapPage
        <4>1. HeapPage * Sec <= HeapPage * Sec /\ HeapPage * Sec < (HeapPage + 1) * Sec
          BY <2>3
        <4>2. QED
          BY <2>3, <2>4, <4>1, DivUnique
      <3>2. QED
        BY <2>3, <3>1 DEF PageOf
    <2>6. PageOf(HeapPage * Sec - 1) = HeapPage - 1
      <3>1. /\ (HeapPage - 1) * Sec <= HeapPage * Sec - 1
            /\ HeapPage * Sec - 1 < (HeapPage - 1 + 1) * Sec
        BY <2>3
      <3>2. (HeapPage * Sec - 1) \div Sec = HeapPage - 1
        BY <2>3, <2>4, <3>1, DivUnique
      <3>3. QED
        BY <2>3, <3>2 DEF PageOf
    <2>7. Edge(KernelId)'
      BY <2>2, <2>3, <2>4, <2>5, <2>6 DEF Edge, FirstPage
    <2>8. ~HasHeap(ChildId)' /\ ~Loading' /\ ~Growing'
      BY <2>1 DEF HasHeap, Loading, Growing, KernelId, ChildId
    <2>9. QED
      BY <2>1, <2>7, <2>8 DEF AbortInv, Ids
  <1>2. CASE Reboot
    BY <1>2 DEF Reboot, AbortInv, MmuOn, HasHeap, Loading, Growing
  <1>3. CASE MapSection
    BY <1>3, AbortMap
  <1>4. CASE SbrkMap \/ MapDone
    BY <1>4, AbortSbrk
  <1>5. CASE SbrkZero
    BY <1>5, AbortZero
  <1>6. CASE ExecBegin \/ ExecShare \/ ExecJump
    BY <1>6, AbortExec
  <1>7. CASE ExecUnmap
    BY <1>7, AbortQuiet DEF ExecUnmap, proc, MmuOn, HasHeap, Loading, Growing
  <1>8. CASE ~MmuOn /\ ~(VmEnable \/ Reboot)
    <2>1. UNCHANGED vars
      BY <1>8, OffSteps
    <2>2. QED
      BY <1>8, <2>1 DEF vars, AbortInv, MmuOn, HasHeap, Loading, Growing
  <1>9. CASE /\ MmuOn
             /\ ~(VmEnable \/ Reboot \/ MapSection \/ SbrkMap \/ MapDone \/ SbrkZero)
             /\ ~(ExecBegin \/ ExecShare \/ ExecJump \/ ExecUnmap)
    BY <1>9, AbortNextQuiet DEF Next, KernelStep, ShellStep
  <1>10. QED
    BY <1>1, <1>2, <1>3, <1>4, <1>5, <1>6, <1>7, <1>8, <1>9

\* No step of the loader or of sbrk touches an unmapped section.
LEMMA NoAbortStep ==
    ASSUME TypeOK, CallsMatch, TLBInv, LoadInv, HeapInv, AbortInv, NoAbort,
           \A f \in Files : SoundFile(f), [Next]_vars
    PROVE  NoAbort'
  <1>t. /\ current_proc \in Ids /\ heap_end \in [Ids -> Nat] /\ incr \in Nat /\ step \in Nat
        /\ file \in Files \cup {NoFile} /\ Ids = {KernelId, ChildId} /\ KernelId # ChildId
    BY DEF TypeOK, Ids, KernelId, ChildId
  <1>d. DOMAIN LoadInstrs(file) = 1 .. Len(LoadInstrs(file)) /\ Len(LoadInstrs(file)) \in Nat
    BY <1>t, FileType
  <1>1. CASE SbrkAbort
    <2>1. pc = "sbrk_zero" /\ ~Mapped(SbrkTouched)
      BY <1>1 DEF SbrkAbort
    <2>2. MmuOn /\ HasHeap(current_proc) /\ Growing
      BY <2>1, <1>t DEF MmuOn, HasHeap, Growing
    <2>3. ttbr = current_proc
      BY <2>1, <2>2, <1>t DEF TLBInv, SwitchSound, RunningId
    <2>4. PICK brk \in Nat : brk = heap_end[current_proc]
      BY <1>t
    <2>5. /\ brk > 0 /\ brk + incr < AddrSpace
          /\ tt[current_proc][PageOf(brk - 1)].tag # 0 \/ PageOf(brk) = FirstPage(brk)
          /\ GrownTo(LastPage(brk, incr) + 1)
      BY <1>t, <2>2, <2>4 DEF AbortInv, Edge
    <2>6. ASSUME NEW v \in SbrkTouched PROVE tt[current_proc][v].tag # 0
      <3>1. v \in Touched(brk, incr)
        BY <2>4, <2>6 DEF SbrkTouched
      <3>2. /\ v \in VirtPages
            /\ v = PageOf(brk - 1) \/ v \in FirstPage(brk) .. LastPage(brk, incr)
            /\ PageOf(brk) = FirstPage(brk) => v \in FirstPage(brk) .. LastPage(brk, incr)
        BY <1>t, <2>5, <3>1, GrowthTouched
      <3>3. CASE v \in FirstPage(brk) .. LastPage(brk, incr)
        <4>1. LastPage(brk, incr) \in Int
          BY <1>t, PageRange, SizeAssumption DEF VirtPages
        <4>2. v \in FirstPage(brk) .. (LastPage(brk, incr) + 1) - 1
          BY <3>3, <4>1
        <4>3. QED
          BY <2>4, <2>5, <3>2, <4>2 DEF GrownTo
      <3>4. CASE v \notin FirstPage(brk) .. LastPage(brk, incr)
        BY <2>5, <3>2, <3>4
      <3>5. QED
        BY <3>3, <3>4
    <2>7. QED
      BY <2>1, <2>3, <2>6 DEF Mapped
  <1>2. CASE ExecInstrAbort \/ ExecJump
    <2>1. pc = "instr"
      BY <1>2 DEF ExecInstrAbort, ExecJump
    <2>2. MmuOn /\ Loading /\ ttbr = ChildId
      BY <2>1 DEF MmuOn, Loading, TLBInv, SwitchSound, RunningId
    <2>3. ASSUME NEW v \in VirtPages, NEW i \in DOMAIN LoadInstrs(file),
                 v \in InstrPages(file, i)
          PROVE  tt[ChildId][v].tag # 0
      BY <2>1, <2>3 DEF LoadInv, InstrDone, Owned, Private
    <2>4. CASE ExecInstrAbort
      <3>1. ~AtEnd /\ ~Mapped(InstrTouched)
        BY <2>4 DEF ExecInstrAbort
      <3>2. step \in DOMAIN LoadInstrs(file)
        BY <1>t, <1>d, <2>1, <3>1 DEF AtEnd, AbortInv
      <3>3. /\ file \in Files /\ Instr.addr \in Nat /\ Instr.size \in Nat
        BY <1>t, <3>2, InstrType DEF Instr
      <3>4. ASSUME NEW v \in Touched(Instr.addr, Instr.size) PROVE tt[ChildId][v].tag # 0
        <4>1. v \in VirtPages
          BY <3>3, PageOfType DEF Touched
        <4>2. PICK j \in DOMAIN LoadInstrs(file) : v \in InstrPages(file, j)
          BY <3>2, <3>3 DEF SoundFile, Covered, Instr
        <4>3. QED
          BY <2>3, <4>1, <4>2
      <3>5. ASSUME Instr.op = "COPY",
                   NEW v \in Touched(ProcLoadPage * Sec + Instr.off, Instr.size)
            PROVE  tt[ChildId][v].tag # 0
        <4>1. Instr.off \in Nat
          <5>1. LoadInstrs(file) \in Seq(LoadInstr)
            BY <1>t, FileType
          <5>2. Instr \in LoadInstr
            BY <3>2, <5>1 DEF Instr
          <5>3. QED
            BY <5>2 DEF LoadInstr
        <4>2. v \in VirtPages
          <5>1. ProcLoadPage * Sec + Instr.off \in Nat
            BY <4>1, SizeAssumption, LayoutAssumption DEF VirtPages
          <5>2. QED
            BY <3>3, <5>1, PageOfType DEF Touched
        <4>3. v \in SharedPages
          BY <3>2, <3>3, <3>5 DEF SoundFile, SharedPages, Instr
        <4>4. QED
          BY <2>2, <4>2, <4>3 DEF AbortInv
      <3>6. Mapped(InstrTouched)
        BY <2>2, <3>4, <3>5 DEF Mapped, InstrTouched
      <3>7. QED
        BY <3>1, <3>6
    <2>5. CASE ExecJump
      <3>1. heap_start # 0 /\ heap_start \in get_heap_address(file)
        BY <2>1, <2>5 DEF ExecJump, HeapInv
      <3>2. file \in Files
        <4>1. get_heap_address(NoFile) = {0}
          BY DEF get_heap_address, HeapEnds, NoFile
        <4>2. QED
          BY <1>t, <3>1, <4>1
      <3>3. \A a \in file.text : Mapped({PageOf(a)})
        BY <2>2, <2>3, <3>2 DEF SoundFile, Mapped
      <3>4. QED
        BY <2>5, <3>3 DEF ExecJump, NoAbort
    <2>6. QED
      BY <1>2, <2>4, <2>5
  <1>3. CASE ~(SbrkAbort \/ ExecInstrAbort \/ ExecJump)
    BY <1>3 DEF NoAbort, vars, Next, KernelStep, ShellStep, VmEnable, Reboot, MapSection,
       OutOfMemory, MapDone, SetTtbr, SetAsid, SbrkMap, SbrkMapped, SbrkZero, KmallocGrow,
       KmallocTake, ExecBegin, ExecLoad, ExecShare, ElfMap, ElfInstr, ElfNoRoom, ElfFail,
       ElfDone, ExecInstr, ExecNoHeap, ExecFlush, ExecUnmap, ShellRead, do_run,
       ShellReboot, ChildSbrk, ChildReturn, TlbFill, TlbEvict, Panic
  <1>4. QED
    BY <1>1, <1>2, <1>3

\* Loading and growing a program never touch an unmapped section, so the abort
\* handlers never run: for every layout with the heap above section 0, every
\* memory, and executables that are sound in what their headers say.  No heap
\* may reach the end of the address space, where the last section computed by
\* mmu_map_to_mem wraps around.
THEOREM NoAbortCorrect ==
    ASSUME HeapPage > 0, \A f \in Files : SoundFile(f)
    PROVE  Spec /\ []BreakFits => []NoAbort
  <1> DEFINE I == /\ TypeOK /\ CallsMatch /\ TLBInv /\ LoadInv /\ HeapInv
                  /\ AbortInv /\ NoAbort
  <1>1. Init => I
    <2>1. Init => LoadInv /\ HeapInv
      BY DEF Init, LoadInv, InstrDone, HeapInv, MmuOn
    <2>2. Init => AbortInv /\ NoAbort
      BY DEF Init, AbortInv, MmuOn, HasHeap, Loading, Growing, NoAbort
    <2>3. QED
      BY <2>1, <2>2, TypeInit, CallsInit, TLBInit
  <1>2. I /\ BreakFits /\ [Next]_vars => I'
    BY TypeNext, CallsNext, TLBNext, LoadNext, HeapNext, AbortNext, NoAbortStep
  <1>3. I => NoAbort
    OBVIOUS
  <1>4. QED
    <2> HIDE DEF I
    <2>1. QED
      BY <1>1, <1>2, <1>3, PTL DEF Spec
=============================================================================
