------------------------------ MODULE KernelInv ------------------------------
(* The inductive invariant from which Isolation follows.  TLC checks it as   *)
(* an invariant; KernelProofs proves it for every layout and every set of    *)
(* executables.                                                              *)
EXTENDS Kernel

\* Which calls can be in progress at which control points, and on whose
\* behalf: a return never lands in another caller's code.
KmallocPoints == {"kmalloc", "sbrk_map", "sbrk_mapped", "sbrk_zero", "map", "panic"}
KernelPoints  == {"shell", "kmalloc", "exec", "load", "copy", "elf", "elf_instr",
                  "instr", "inv", "unmap"}

CallsMatch ==
    /\ pc = "map" =>
         \/ req.ret = "sbrk_mapped" /\ req.pt = current_proc
         \/ req.ret = "copy" /\ req.pt = KernelId /\ current_proc = KernelId
         \/ req.ret = "elf_instr" /\ req.pt = ChildId /\ current_proc = KernelId
    /\ pc \in {"ttbr", "asid"} =>
         \/ sw.ret \in {"sbrk_map", "sbrk_zero"} /\ current_proc = ChildId
         \/ sw.ret \in {"instr", "inv"} /\ current_proc = KernelId
    /\ pc = "child" => current_proc = ChildId
    /\ pc \in KernelPoints => current_proc = KernelId
    /\ km.ret # "none" =>
         /\ pc \in KmallocPoints
         /\ pc # "panic" => current_proc = KernelId
         /\ pc = "map" => req.ret = "sbrk_mapped"
    /\ pc = "kmalloc" => km.ret # "none"
    /\ pc \in {"sbrk_map", "sbrk_mapped", "sbrk_zero"} /\ current_proc = KernelId =>
         km.ret # "none"
    /\ pc = "map" /\ req.ret = "sbrk_mapped" /\ current_proc = KernelId =>
         km.ret # "none"
    /\ pc \in {"elf", "elf_instr"} \/ (pc = "map" /\ req.ret = "elf_instr") => step > 0

\* Section v of the kernel's own part of its table is mapped.
KSec(v) == v < LoadPage /\ Private(tt[KernelId][v])

KernelSound ==
    /\ \A v \in VirtPages : KSec(v) =>
         /\ tt[KernelId][v].sec \in Frames
         /\ paddr_to_asid_map[tt[KernelId][v].sec] = KernelId
    /\ \A u, v \in VirtPages : KSec(u) /\ KSec(v) /\ u # v =>
         tt[KernelId][u].sec # tt[KernelId][v].sec

\* The load window sections the current exec_file has mapped so far.
Loaded(v) ==
    \/ pc = "copy" /\ v \in LoadPage .. LoadEnd(file.n_alloc)
    \/ pc = "map" /\ req.ret = "copy" /\ v \in LoadPage .. req.page - 1

WindowSound ==
    /\ pc = "map" /\ req.ret = "copy" =>
         req.page >= LoadPage /\ req.last = LoadEnd(file.n_alloc)
    /\ \A v \in VirtPages : Loaded(v) =>
         /\ Private(tt[KernelId][v])
         /\ tt[KernelId][v].sec \in Frames
         /\ paddr_to_asid_map[tt[KernelId][v].sec] = KernelId
         /\ \A u \in VirtPages : (KSec(u) \/ Loaded(u)) /\ u # v =>
              tt[KernelId][u].sec # tt[KernelId][v].sec

\* From the clearing of the child's table to the sharing of the window.
ChildFresh ==
    km.ret = "load" \/ pc \in {"load", "copy"} \/ (pc = "map" /\ req.ret = "copy")

ChildSound ==
    /\ ChildFresh => \A v \in VirtPages : ~Private(tt[ChildId][v])
    /\ ChildLive => \A v \in VirtPages : Private(tt[ChildId][v]) =>
         /\ tt[ChildId][v].sec \in Frames
         /\ paddr_to_asid_map[tt[ChildId][v].sec] # 0
         /\ \A u \in VirtPages : KSec(u) => tt[KernelId][u].sec # tt[ChildId][v].sec
         /\ \A u \in VirtPages : Private(tt[ChildId][u]) /\ u # v =>
              tt[ChildId][u].sec # tt[ChildId][v].sec

\* The frames in use by the kernel, the load window and the child are marked
\* as used and pairwise different at every step of exec_file and sbrk.
IsolationInv ==
    /\ CallsMatch
    /\ pc # "off" => KernelSound /\ WindowSound /\ ChildSound
-----------------------------------------------------------------------------
(* The inductive invariant from which the coherence of the TLB follows. *)

\* Whose table and ASID the CPU uses outside set_procid_ttbr0.
RunningId ==
    IF pc \in {"instr", "child"} \/ (pc = "sbrk_zero" /\ current_proc = ChildId)
    THEN ChildId ELSE KernelId

\* Outside set_procid_ttbr0 the ASID and the table are of one process; inside
\* it the ASID is 0, and the table changes before the ASID does.
SwitchSound ==
    /\ pc \notin {"ttbr", "asid"} => asid = RunningId /\ ttbr = RunningId
    /\ pc \in {"ttbr", "asid"} =>
         /\ asid = 0
         /\ sw.to = IF sw.ret \in {"instr", "sbrk_zero"} THEN ChildId ELSE KernelId
    /\ pc = "asid" => ttbr = sw.to

\* The only global entries of a table are those of mmu_map_kernel_sections.
Clean(t) ==
    \A v \in VirtPages : t[v].tag # 0 /\ t[v].nG = 0 =>
        v \in GlobalPages /\ t[v] = GlobalSec(v)

TablesClean ==
    /\ Clean(tt[KernelId])
    /\ ChildFresh \/ ChildLive => Clean(tt[ChildId])

\* A child has run, and its entries have not been invalidated yet.
ChildCached ==
    \/ pc \in {"instr", "child", "inv"}
    \/ pc \in {"ttbr", "asid"} /\ sw.ret # "instr"
    \/ pc \in {"sbrk_map", "sbrk_mapped", "sbrk_zero", "map"} /\ current_proc = ChildId

\* Every entry is what the table it was read from says now.
EntriesSound ==
    \A e \in tlb :
        /\ e.pte.nG = 0 => e.va \in GlobalPages /\ e.pte = GlobalSec(e.va)
        /\ e.pte.nG # 0 /\ e.asid = KernelId => e.pte = tt[KernelId][e.va]
        /\ e.pte.nG # 0 /\ e.asid = ChildId => ChildCached /\ e.pte = tt[ChildId][e.va]

\* Only elf_load maps without an invalidation.
SyncedMaps == pc = "map" => req.sync = 1 \/ req.ret = "elf_instr"

TLBInv == MmuOn => SwitchSound /\ TablesClean /\ EntriesSound /\ SyncedMaps

\* The active table still maps the global sections one to one.
GlobalsKept == \A v \in GlobalPages : tt[ttbr][v] = GlobalSec(v)
-----------------------------------------------------------------------------
(* What comes back from a child, and what a child gets. *)

\* A section the child already owns is not mapped a second time: segments
\* that overlap, or a heap that runs into one, would lose its frame.
SectionsFresh ==
    pc = "map" /\ req.pt = ChildId /\ req.page <= req.last =>
        ~(/\ Private(tt[ChildId][req.page])
          /\ paddr_to_asid_map[tt[ChildId][req.page].sec] = ChildId)

\* Only a live child owns frames, and each of them is in its table, where
\* mmu_unmap finds it.
ReclaimInv ==
    MmuOn => \A p \in Frames : paddr_to_asid_map[p] = ChildId =>
        /\ ChildLive
        /\ \E v \in VirtPages : Private(tt[ChildId][v]) /\ tt[ChildId][v].sec = p

\* The sections that mmu_map_to_mem maps for instruction i of a file.
InstrPages(f, i) ==
    FirstPage(LoadInstrs(f)[i].addr) .. LastPage(LoadInstrs(f)[i].addr, LoadInstrs(f)[i].size)

\* Every section of a segment or .bss is mapped for it or for another one.
\* A segment that starts inside a section of its own is not like this.
Covered(f) ==
    \A i \in DOMAIN LoadInstrs(f) :
        \A v \in Touched(LoadInstrs(f)[i].addr, LoadInstrs(f)[i].size) :
            \E j \in DOMAIN LoadInstrs(f) : v \in InstrPages(f, j)

\* Section v is the child's own.
Owned(v) == Private(tt[ChildId][v]) /\ paddr_to_asid_map[tt[ChildId][v].sec] = ChildId

\* elf_load has mapped instruction i of the file.
InstrDone(i) ==
    \/ pc = "elf" /\ i < step
    \/ pc = "elf_instr" /\ i <= step
    \/ pc = "map" /\ req.ret = "elf_instr" /\ i < step
    \/ pc \in {"ttbr", "asid"} /\ sw.ret = "instr"
    \/ pc = "instr"

LoadInv ==
    /\ pc = "map" /\ req.ret = "elf_instr" =>
         /\ step \in DOMAIN LoadInstrs(file)
         /\ req.page >= FirstPage(Instr.addr) /\ req.last = LastPage(Instr.addr, Instr.size)
         /\ \A v \in VirtPages : v \in FirstPage(Instr.addr) .. req.page - 1 => Owned(v)
    /\ \A i \in DOMAIN LoadInstrs(file) : InstrDone(i) =>
         \A v \in VirtPages : v \in InstrPages(file, i) => Owned(v)

\* The program's heap lies above all that is loaded, in what the file says.
HeapLast(f) ==
    \A h \in get_heap_address(f) : h # 0 =>
        \A i \in DOMAIN LoadInstrs(f) : LoadInstrs(f)[i].addr + LoadInstrs(f)[i].size <= h

\* heap_start is the file's from the end of elf_load to the end of the run.
HeapInv ==
    /\ \/ pc \in {"ttbr", "asid"} /\ sw.ret = "instr"
       \/ pc = "instr"
       \/ MmuOn /\ current_proc = ChildId
       => heap_start \in get_heap_address(file)
    /\ MmuOn /\ current_proc = ChildId => heap_start # 0

\* The sections of the tables lie below everything the kernel maps for itself.
TablesLow == \A v \in TTPages : v < HeapPage /\ v < LoadPage

\* The kernel's break has not wrapped around the address space.
BreakKept == MmuOn => heap_end[KernelId] >= HeapPage * Sec

\* The kernel's table maps the tables, and no mapping in progress reaches them.
TablesInv ==
    MmuOn =>
    /\ \A v \in TTPages : tt[KernelId][v] = Section(v)
    /\ pc = "map" /\ req.pt = KernelId => \A v \in TTPages : v < req.page
    /\ heap_end[KernelId] < AddrSpace

\* Nothing is mapped over a section in use, but for the load window itself,
\* and the kernel's heap stays below the window.
MapsFresh ==
    pc = "map" /\ req.ret # "copy" /\ req.page <= req.last =>
        /\ ~Private(tt[req.pt][req.page])
        /\ req.pt = KernelId => req.page < LoadPage

\* The clusters of a file end in the section its bytes end in.
SameEnd(f) == LoadEnd(f.n_data) = LoadEnd(f.n_alloc)

\* A frame of the kernel's is one of its own sections, or one of the load
\* window; the child's table has the latter from the sharing on.
OrphanInv ==
    MmuOn =>
    /\ \A p \in Frames : paddr_to_asid_map[p] = KernelId =>
         \/ \E v \in VirtPages : KSec(v) /\ tt[KernelId][v].sec = p
         \/ \E v \in VirtPages : Loaded(v) /\ tt[KernelId][v].sec = p
         \/ ChildLive /\ \E v \in VirtPages : Private(tt[ChildId][v]) /\ tt[ChildId][v].sec = p
    /\ pc = "map" /\ req.ret = "copy" => req.page <= req.last + 1
-----------------------------------------------------------------------------
(* What the loader and sbrk touch is mapped. *)

\* What a sound executable says of itself: the loader reads inside the file,
\* .text and the end of .data and .bss lie in sections that are mapped for it.
SoundFile(f) ==
    LET window == {ProcLoadPage + (v - LoadPage) : v \in LoadPage .. LoadEnd(f.n_data)}
        mapped == {v \in VirtPages : \E i \in DOMAIN LoadInstrs(f) : v \in InstrPages(f, i)}
    IN  /\ Covered(f)
        /\ \A i \in DOMAIN LoadInstrs(f) : LoadInstrs(f)[i].op = "COPY" =>
             Touched(ProcLoadPage * Sec + LoadInstrs(f)[i].off, LoadInstrs(f)[i].size)
               \subseteq window
        /\ \A a \in f.text : PageOf(a) \in mapped
        /\ \A h \in get_heap_address(f) : h # 0 => h < AddrSpace /\ PageOf(h - 1) \in mapped

\* No heap grows to the end of the address space.
BreakFits == pc = "sbrk_map" => heap_end[current_proc] + incr < AddrSpace

Loading ==
    \/ pc \in {"elf", "elf_instr", "instr"}
    \/ pc = "map" /\ req.ret = "elf_instr"
    \/ pc \in {"ttbr", "asid"} /\ sw.ret = "instr"

Growing ==
    \/ pc \in {"sbrk_mapped", "sbrk_zero"}
    \/ pc \in {"ttbr", "asid"} /\ sw.ret = "sbrk_zero"

HasHeap(i) == MmuOn /\ (i = KernelId \/ current_proc = ChildId)

\* The section below a break is mapped, unless the next one begins at it.
Edge(i) ==
    /\ heap_end[i] > 0 /\ heap_end[i] < AddrSpace
    /\ \/ tt[i][PageOf(heap_end[i] - 1)].tag # 0
       \/ PageOf(heap_end[i]) = FirstPage(heap_end[i])

\* The sections from the first new one of a growing heap to before section n.
GrownTo(n) ==
    \A v \in VirtPages : v \in FirstPage(heap_end[current_proc]) .. n - 1 =>
        tt[current_proc][v].tag # 0

AbortInv ==
    /\ Loading => \A v \in VirtPages : v \in SharedPages => tt[ChildId][v].tag # 0
    /\ pc = "instr" \/ (pc \in {"ttbr", "asid"} /\ sw.ret = "instr") => step > 0
    /\ \A i \in Ids : HasHeap(i) => Edge(i)
    /\ pc = "map" /\ req.ret = "sbrk_mapped" =>
         /\ heap_end[current_proc] + incr < AddrSpace
         /\ req.last = LastPage(heap_end[current_proc], incr)
         /\ req.page >= FirstPage(heap_end[current_proc]) /\ GrownTo(req.page)
    /\ Growing =>
         /\ heap_end[current_proc] + incr < AddrSpace
         /\ GrownTo(LastPage(heap_end[current_proc], incr) + 1)
==============================================================================
