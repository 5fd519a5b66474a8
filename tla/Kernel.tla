------------------------------- MODULE Kernel -------------------------------
(* The kernel as a state machine: the shell's commands, the allocator, exec, *)
(* sbrk and the page tables, with the MMU as a second actor that walks the   *)
(* tables and caches what it finds whenever it likes.                        *)
(* pc names the control point.  mmu_map_to_mem, set_procid_ttbr0, kmalloc    *)
(* and kernel_sbrk are called from several places: each keeps its arguments  *)
(* and its return point in a variable (req, sw, km, incr) while it runs.     *)
(* Operators whose names begin with M and a capital are faulty variants of   *)
(* the definition that follows them: they test the properties.               *)
EXTENDS PageTables, Elf

CONSTANTS
    TTPages,       \* sections that hold the translation tables
    HeapPage,      \* KERNEL_HEAP_ADDR >> 20
    LoadPage,      \* KERNEL_LOAD_ADDR >> 20
    ProcLoadPage,  \* PROC_LOAD_ADDR >> 20
    Files,         \* the executables on the SD card
    Incrs,         \* increments a program passes to sbrk
    AllocSizes,    \* heap units an ls or cat consumes
    DirSize,       \* heap units path_lookup consumes before a run
    InitSize,      \* heap units fat32_init consumes
    MaxInstr,      \* capacity of exec_file's instr_lst
    RamTables,     \* what uninitialised memory may hold where tables will be
    TLBSize        \* TLB entries (one is enough to catch any stale one)

\* The sections the load window needs for n bytes.
LoadAddr   == LoadPage * Sec
LoadEnd(n) == LastPage(LoadAddr, n)

ASSUME LayoutAssumption ==
    /\ TTPages \subseteq Frames \ {0}
    /\ HeapPage \in VirtPages /\ ProcLoadPage \in VirtPages
    /\ LoadPage \in VirtPages /\ LoadPage > 0
    /\ TLBSize \in Nat /\ MaxInstr \in Nat
    /\ RamTables \subseteq Table

ASSUME InputAssumption ==
    /\ Incrs \subseteq Nat /\ AllocSizes \subseteq Nat
    /\ DirSize \in Nat /\ InitSize \in Nat
    /\ Files \subseteq ElfFile

\* A file's clusters hold its bytes, and both windows have room for it.
ASSUME WindowAssumption ==
    \A f \in Files :
        /\ f.n_data <= f.n_alloc
        /\ LoadAddr + f.n_alloc <= AddrSpace
        /\ (ProcLoadPage - LoadPage) * Sec + LoadAddr + f.n_alloc <= AddrSpace

VARIABLES
    pc, why,
    paddr_to_asid_map, tt, asid, ttbr, tlb,     \* vm.c and the MMU
    heap,                                       \* kmalloc.c's bump pointer
    heap_start, heap_end, current_proc,         \* the two process_t
    file, step,                                 \* exec_file's and elf_load's locals
    req, sw, km, incr                           \* calls in progress

mem  == <<paddr_to_asid_map, tt>>
mmu  == <<asid, ttbr, tlb>>
proc == <<heap_start, heap_end, current_proc>>
call == <<req, sw, km, incr>>
vars == <<pc, why, mem, mmu, heap, proc, file, step, call>>

KernelId == 1
ChildId  == 2
Ids      == {KernelId, ChildId}

NoReq == [pt |-> KernelId, page |-> 0, last |-> 0, sync |-> 0, ret |-> "none"]
NoSw  == [to |-> KernelId, ret |-> "none"]
NoKm  == [sz |-> 0, ret |-> "none"]
-----------------------------------------------------------------------------
(* Calls: each is the first step of the callee, done by the caller's action. *)

\* mmu_map_to_mem(pt, addr, size, sync)
StartMap(pt, addr, size, sync, ret) ==
    /\ req' = [pt |-> pt, page |-> FirstPage(addr), last |-> LastPage(addr, size),
               sync |-> sync, ret |-> ret]
    /\ pc' = "map"

\* set_procid_ttbr0(to): the first of its three register writes is ASID := 0
MSwitchNoAsid0(to, ret) ==
    /\ sw' = [to |-> to, ret |-> ret]
    /\ pc' = "ttbr"
    /\ UNCHANGED asid
set_procid_ttbr0(to, ret) ==
    /\ sw' = [to |-> to, ret |-> ret]
    /\ pc' = "ttbr"
    /\ asid' = 0

kmalloc(sz, ret) == km' = [sz |-> sz, ret |-> ret] /\ pc' = "kmalloc"

\* panic, a failed demand, or an abort taken by the CPU
Panic(reason) == pc' = "panic" /\ why' = reason

\* The accesses a load or store of the running code makes are all mapped.
Mapped(pages) == \A v \in pages : tt[ttbr][v].tag # 0
-----------------------------------------------------------------------------
(* The MMU: a walk of the active table may happen at any time once the MMU   *)
(* is on, and an entry may be dropped at any time.  nG entries carry the     *)
(* ASID of the moment of the walk.                                           *)
TlbEntry(v) == [asid |-> IF tt[ttbr][v].nG = 0 THEN 0 ELSE asid,
                va |-> v, pte |-> tt[ttbr][v]]

MmuOn == pc \notin {"off", "panic"}

TlbFill(v) ==
    /\ MmuOn
    /\ tt[ttbr][v].tag # 0
    /\ Cardinality(tlb) < TLBSize
    /\ tlb' = tlb \cup {TlbEntry(v)}
    /\ UNCHANGED <<pc, why, mem, asid, ttbr, heap, proc, file, step, call>>

TlbEvict ==
    /\ MmuOn
    /\ \E e \in tlb : tlb' = tlb \ {e}
    /\ UNCHANGED <<pc, why, mem, asid, ttbr, heap, proc, file, step, call>>

\* mmu_sync: invalidate the entries of one section, for one ASID or global
mmu_sync(t, v, id) == {e \in t : ~(e.va = v /\ (e.asid = id \/ e.pte.nG = 0))}

\* mmu_inv_asid: invalidate the nG entries of one ASID
mmu_inv_asid(t, id) == {e \in t : ~(e.asid = id /\ e.pte.nG # 0)}
-----------------------------------------------------------------------------
(* vm.c *)

\* vm_enable, the setup in notmain around it, and fat32_init's allocations.
BootMap == [p \in Frames |-> IF p \in TTPages THEN KernelId ELSE 0]
BootTable == [v \in VirtPages |->
                IF v \in TTPages THEN Section(v)
                ELSE mmu_map_kernel_sections(EmptyTable)[v]]

VmEnable ==
    /\ pc = "off"
    /\ paddr_to_asid_map' = BootMap
    /\ tt' = [tt EXCEPT ![KernelId] = BootTable]
    /\ asid' = KernelId /\ ttbr' = KernelId /\ tlb' = {}
    /\ heap' = HeapPage * Sec
    /\ heap_end' = [heap_end EXCEPT ![KernelId] = HeapPage * Sec]
    /\ current_proc' = KernelId
    /\ kmalloc(InitSize, "shell")
    /\ UNCHANGED <<why, heap_start, file, step, req, sw, incr>>

\* One iteration of mmu_map_to_mem: find_available_page and mmu_map_section.
MapSection ==
    /\ pc = "map" /\ req.page <= req.last
    /\ \E p \in Frames :
         /\ find_available_page(paddr_to_asid_map, p)
         /\ paddr_to_asid_map' = [paddr_to_asid_map EXCEPT ![p] = req.pt]
         /\ tt' = [tt EXCEPT ![req.pt][req.page] = Section(p)]
    /\ tlb' = IF req.sync = 1 THEN mmu_sync(tlb, req.page, req.pt) ELSE tlb
    /\ req' = [req EXCEPT !.page = req.page + 1]
    /\ UNCHANGED <<pc, why, asid, ttbr, heap, proc, file, step, sw, km, incr>>

OutOfMemory ==
    /\ pc = "map" /\ req.page <= req.last
    /\ FreeFrames(paddr_to_asid_map) = {}
    /\ Panic("oom")
    /\ UNCHANGED <<mem, mmu, heap, proc, file, step, call>>

MapDone ==
    /\ pc = "map" /\ req.page > req.last
    /\ pc' = req.ret
    /\ req' = NoReq
    /\ UNCHANGED <<why, mem, mmu, heap, proc, file, step, sw, km, incr>>

\* set_procid_ttbr0, continued
SetTtbr ==
    /\ pc = "ttbr"
    /\ ttbr' = sw.to
    /\ pc' = "asid"
    /\ UNCHANGED <<why, mem, asid, tlb, heap, proc, file, step, call>>

SetAsid ==
    /\ pc = "asid"
    /\ asid' = sw.to
    /\ pc' = sw.ret
    /\ sw' = NoSw
    /\ UNCHANGED <<why, mem, ttbr, tlb, heap, proc, file, step, req, km, incr>>
-----------------------------------------------------------------------------
(* syscall.c: kernel_sbrk(n) *)

\* From a child the kernel's table is made active first: the translation
\* tables are mapped nowhere else.
MSbrkNoSwitch(n) ==
    /\ incr' = n
    /\ pc' = "sbrk_map" /\ UNCHANGED <<asid, sw>>
kernel_sbrk(n) ==
    /\ incr' = n
    /\ IF current_proc # KernelId
       THEN set_procid_ttbr0(KernelId, "sbrk_map")
       ELSE pc' = "sbrk_map" /\ UNCHANGED <<asid, sw>>

SbrkMap ==
    /\ pc = "sbrk_map"
    /\ StartMap(current_proc, heap_end[current_proc], incr, 1, "sbrk_mapped")
    /\ UNCHANGED <<why, mem, mmu, heap, proc, file, step, sw, km, incr>>

SbrkMapped ==
    /\ pc = "sbrk_mapped"
    /\ IF current_proc # KernelId
       THEN set_procid_ttbr0(current_proc, "sbrk_zero")
       ELSE pc' = "sbrk_zero" /\ UNCHANGED <<asid, sw>>
    /\ UNCHANGED <<why, mem, ttbr, tlb, heap, proc, file, step, req, km, incr>>

\* memset of the new region, then the break moves.
SbrkTouched == Touched(heap_end[current_proc], incr)

SbrkZero ==
    /\ pc = "sbrk_zero"
    /\ Mapped(SbrkTouched)
    /\ heap_end' = [heap_end EXCEPT ![current_proc] = (@ + incr) % AddrSpace]
    /\ incr' = 0
    /\ pc' = IF current_proc = KernelId THEN "kmalloc" ELSE "child"
    /\ UNCHANGED <<why, mem, mmu, heap, heap_start, current_proc, file, step, req, sw, km>>

SbrkAbort ==
    /\ pc = "sbrk_zero"
    /\ ~Mapped(SbrkTouched)
    /\ Panic("abort")
    /\ UNCHANGED <<mem, mmu, heap, proc, file, step, call>>
-----------------------------------------------------------------------------
(* libpi/kmalloc.c: a bump allocator whose kfree does nothing.  Its own copy *)
(* of heap_end is the process's heap_end (it asserts so after every sbrk).   *)

MRoundDown(n) == (n \div Sec) * Sec
roundup(n) == ((n + Sec - 1) \div Sec) * Sec
Growth(sz) == roundup(heap + sz - heap_end[KernelId])

KmallocGrow ==
    /\ pc = "kmalloc"
    /\ heap + km.sz > heap_end[KernelId]
    /\ kernel_sbrk(Growth(km.sz))
    /\ UNCHANGED <<why, mem, ttbr, tlb, heap, proc, file, step, req, km>>

KmallocTake ==
    /\ pc = "kmalloc"
    /\ heap + km.sz <= heap_end[KernelId]
    /\ heap' = heap + km.sz
    /\ pc' = km.ret
    /\ km' = NoKm
    /\ UNCHANGED <<why, mem, mmu, proc, file, step, req, sw, incr>>
-----------------------------------------------------------------------------
(* shell.c: the commands that reach the memory system *)

\* do_ls and do_read: directories and file contents are never given back.
ShellRead(sz) ==
    /\ pc = "shell"
    /\ kmalloc(sz, "shell")
    /\ UNCHANGED <<why, mem, mmu, heap, proc, file, step, req, sw, incr>>

\* do_run, up to the call of exec_file
do_run(f) ==
    /\ pc = "shell"
    /\ file' = f
    /\ kmalloc(DirSize, "exec")
    /\ UNCHANGED <<why, mem, mmu, heap, proc, step, req, sw, incr>>

\* The reboot command.
ShellReboot ==
    /\ pc = "shell"
    /\ pc' = "off"
    /\ UNCHANGED <<why, mem, mmu, heap, proc, file, step, call>>

\* What every panic ends in; RAM keeps its contents.
Reboot ==
    /\ pc = "panic"
    /\ pc' = "off" /\ why' = "none"
    /\ file' = NoFile /\ step' = 0 /\ heap_start' = 0
    /\ req' = NoReq /\ sw' = NoSw /\ km' = NoKm /\ incr' = 0
    /\ UNCHANGED <<mem, mmu, heap, heap_end, current_proc>>
-----------------------------------------------------------------------------
(* exec.c: exec_file *)

\* A fresh process with ASID 2, then fat32_read_file's allocation.
MKeepTable(t) == mmu_map_kernel_sections(t)
FreshTable(t) == mmu_map_kernel_sections(EmptyTable)

ExecBegin ==
    /\ pc = "exec"
    /\ heap_start' = 0
    /\ heap_end' = [heap_end EXCEPT ![ChildId] = 0]
    /\ tt' = [tt EXCEPT ![ChildId] = FreshTable(tt[ChildId])]
    /\ kmalloc(file.n_alloc, "load")
    /\ UNCHANGED <<why, paddr_to_asid_map, mmu, heap, current_proc, file, step,
                   req, sw, incr>>

ExecLoad ==
    /\ pc = "load"
    /\ StartMap(KernelId, LoadAddr, file.n_alloc, 1, "copy")
    /\ UNCHANGED <<why, mem, mmu, heap, proc, file, step, sw, km, incr>>

\* The file is copied to the load window and the window's sections are mapped
\* into the child (MAP_FLAG_SHARED: the owner stays the kernel).
MSharedPages == {ProcLoadPage + (v - LoadPage) : v \in LoadPage .. LoadEnd(file.n_data) - 1}
SharedPages == {ProcLoadPage + (v - LoadPage) : v \in LoadPage .. LoadEnd(file.n_data)}
ShareWindow ==
    [v \in VirtPages |->
        IF v \in SharedPages
        THEN Section(tt[KernelId][v - ProcLoadPage + LoadPage].sec)
        ELSE tt[ChildId][v]]

ExecShare ==
    /\ pc = "copy"
    /\ tt' = [tt EXCEPT ![ChildId] = ShareWindow]
    /\ step' = 1
    /\ pc' = IF HeaderOK(file) THEN "elf" ELSE "unmap"
    /\ UNCHANGED <<why, paddr_to_asid_map, mmu, heap, proc, file, call>>

\* elf_load: memory for one segment or .bss section, then its instruction.
Instr == LoadInstrs(file)[step]
AtEnd == step > Len(LoadInstrs(file))

ElfMap ==
    /\ pc = "elf" /\ ~AtEnd /\ ~Rejects(file, step)
    /\ StartMap(ChildId, Instr.addr, Instr.size, 0, "elf_instr")
    /\ UNCHANGED <<why, mem, mmu, heap, proc, file, step, sw, km, incr>>

ElfInstr ==
    /\ pc = "elf_instr" /\ step <= MaxInstr
    /\ step' = step + 1
    /\ pc' = "elf"
    /\ UNCHANGED <<why, mem, mmu, heap, proc, file, call>>

\* demand(instr_lst != instr_lst_end), for a segment, a .bss or the jump
ElfNoRoom ==
    /\ step > MaxInstr
    /\ pc = "elf_instr" \/ (pc = "elf" /\ AtEnd /\ ~Rejects(file, step))
    /\ Panic("capacity")
    /\ UNCHANGED <<mem, mmu, heap, proc, file, step, call>>

\* elf_load returns NULL: the child never runs.
ElfFail ==
    /\ pc = "elf" /\ Rejects(file, step)
    /\ pc' = "unmap"
    /\ UNCHANGED <<why, mem, mmu, heap, proc, file, step, call>>

ElfDone ==
    /\ pc = "elf" /\ AtEnd /\ ~Rejects(file, step) /\ step <= MaxInstr
    /\ \E h \in get_heap_address(file) : heap_start' = h
    /\ step' = 1
    /\ set_procid_ttbr0(ChildId, "instr")
    /\ UNCHANGED <<why, mem, ttbr, tlb, heap, heap_end, current_proc, file, req, km, incr>>

\* exec_load_instr: LOAD_COPY reads the child's window, LOAD_ZERO does not.
InstrTouched ==
    Touched(Instr.addr, Instr.size)
    \cup IF Instr.op = "COPY" THEN Touched(ProcLoadPage * Sec + Instr.off, Instr.size)
         ELSE {}

ExecInstr ==
    /\ pc = "instr" /\ ~AtEnd
    /\ Mapped(InstrTouched)
    /\ step' = step + 1
    /\ UNCHANGED <<pc, why, mem, mmu, heap, proc, file, call>>

ExecInstrAbort ==
    /\ pc = "instr" /\ ~AtEnd
    /\ ~Mapped(InstrTouched)
    /\ Panic("abort")
    /\ UNCHANGED <<mem, mmu, heap, proc, file, step, call>>

\* LOAD_JUMP without a heap address ends the list early.
ExecNoHeap ==
    /\ pc = "instr" /\ AtEnd /\ heap_start = 0
    /\ set_procid_ttbr0(KernelId, "inv")
    /\ UNCHANGED <<why, mem, ttbr, tlb, heap, proc, file, step, req, km, incr>>

ExecJump ==
    /\ pc = "instr" /\ AtEnd /\ heap_start # 0
    /\ heap_end' = [heap_end EXCEPT ![ChildId] = heap_start]
    /\ current_proc' = ChildId
    /\ IF \A a \in file.text : Mapped({PageOf(a)})
       THEN pc' = "child" /\ UNCHANGED why
       ELSE Panic("abort")
    /\ UNCHANGED <<mem, mmu, heap, heap_start, file, step, call>>

\* The program: it may ask for memory and it may return.
ChildSbrk(n) ==
    /\ pc = "child"
    /\ n > 0
    /\ kernel_sbrk(n)
    /\ UNCHANGED <<why, mem, ttbr, tlb, heap, proc, file, step, req, km>>

ChildReturn ==
    /\ pc = "child"
    /\ current_proc' = KernelId
    /\ set_procid_ttbr0(KernelId, "inv")
    /\ UNCHANGED <<why, mem, ttbr, tlb, heap, heap_start, heap_end, file, step, req, km, incr>>

ExecFlush ==
    /\ pc = "inv"
    /\ tlb' = mmu_inv_asid(tlb, ChildId)
    /\ pc' = "unmap"
    /\ UNCHANGED <<why, mem, asid, ttbr, heap, proc, file, step, call>>

ExecUnmap ==
    /\ pc = "unmap"
    /\ paddr_to_asid_map' = mmu_unmap(paddr_to_asid_map, tt[ChildId])
    /\ pc' = "shell"
    /\ file' = NoFile /\ step' = 0
    /\ UNCHANGED <<why, tt, mmu, heap, proc, call>>
-----------------------------------------------------------------------------
Init ==
    /\ pc = "off" /\ why = "none"
    /\ paddr_to_asid_map = [p \in Frames |-> 0]      \* .bss
    /\ tt \in [Ids -> RamTables]
    /\ asid = 0 /\ ttbr = KernelId /\ tlb = {}
    /\ heap = 0
    /\ heap_start = 0 /\ heap_end = [i \in Ids |-> 0] /\ current_proc = KernelId
    /\ file = NoFile /\ step = 0
    /\ req = NoReq /\ sw = NoSw /\ km = NoKm /\ incr = 0

\* What the kernel does on its own once a command has been given.
KernelStep ==
    \/ VmEnable \/ Reboot
    \/ MapSection \/ OutOfMemory \/ MapDone
    \/ SetTtbr \/ SetAsid
    \/ SbrkMap \/ SbrkMapped \/ SbrkZero \/ SbrkAbort
    \/ KmallocGrow \/ KmallocTake
    \/ ExecBegin \/ ExecLoad \/ ExecShare
    \/ ElfMap \/ ElfInstr \/ ElfNoRoom \/ ElfFail \/ ElfDone
    \/ ExecInstr \/ ExecInstrAbort \/ ExecNoHeap \/ ExecJump
    \/ ExecFlush \/ ExecUnmap

ShellStep ==
    \/ \E sz \in AllocSizes : ShellRead(sz)
    \/ \E f \in Files : do_run(f)
    \/ ShellReboot

Next ==
    \/ KernelStep
    \/ ShellStep
    \/ \E n \in Incrs : ChildSbrk(n)
    \/ ChildReturn
    \/ \E v \in VirtPages : TlbFill(v)
    \/ TlbEvict

Spec == Init /\ [][Next]_vars

\* The CPU keeps executing, and a program returns sooner or later.
FairSpec == Spec /\ WF_vars(KernelStep) /\ WF_vars(ChildReturn)
-----------------------------------------------------------------------------
(* Properties *)

PcValues == {"off", "panic", "shell", "kmalloc", "map", "ttbr", "asid",
             "sbrk_map", "sbrk_mapped", "sbrk_zero", "exec", "load", "copy",
             "elf", "elf_instr", "instr", "child", "inv", "unmap"}

\* Every variable keeps the type the C declarations give it, and the return
\* points of the calls in progress are control points of the kernel.
TypeOK ==
    /\ pc \in PcValues
    /\ why \in {"none", "oom", "abort", "capacity"}
    /\ paddr_to_asid_map \in [Frames -> Ids \cup {0}]
    /\ tt \in [Ids -> Table]
    /\ asid \in Ids \cup {0} /\ ttbr \in Ids
    /\ tlb \subseteq [asid : Ids \cup {0}, va : VirtPages, pte : Entry]
    /\ heap \in Nat /\ heap_start \in Nat /\ heap_end \in [Ids -> Nat]
    /\ current_proc \in Ids
    /\ file \in Files \cup {NoFile} /\ step \in Nat
    /\ req \in [pt : Ids, page : Nat, last : VirtPages, sync : {0, 1},
                ret : {"none", "sbrk_mapped", "copy", "elf_instr"}]
    /\ sw \in [to : Ids, ret : {"none", "instr", "sbrk_map", "sbrk_zero", "inv"}]
    /\ km \in [sz : Nat, ret : {"none", "shell", "exec", "load"}]
    /\ incr \in Nat

\* The child's table is in use: from the sharing of the load window to the
\* unmapping of the table.
ChildLive ==
    \/ pc \in {"elf", "elf_instr", "instr", "child", "inv", "unmap", "ttbr", "asid"}
    \/ pc = "map" /\ req.pt = ChildId
    \/ pc \in {"sbrk_map", "sbrk_mapped", "sbrk_zero"} /\ current_proc = ChildId

Pages(t)       == {v \in VirtPages : Private(t[v])}
KernelPages    == {v \in Pages(tt[KernelId]) : v < LoadPage}
KernelFrames   == {tt[KernelId][v].sec : v \in KernelPages}
ChildFrames    == {tt[ChildId][v].sec : v \in Pages(tt[ChildId])}
Injective(t, S) == \A u, v \in S : t[u].sec = t[v].sec => u = v

\* No two sections share memory: the kernel's own sections (translation
\* tables and heap) are recorded as the kernel's and lie in different frames,
\* and while a child exists its sections, the shared window included, lie in
\* different frames that are marked used and are none of the kernel's.
\* (find_available_page, mmu_map_section, mmu_unmap; README "to avoid
\* collisions".)
Isolation ==
    pc # "off" =>
    /\ \A p \in KernelFrames : p \in Frames /\ paddr_to_asid_map[p] = KernelId
    /\ Injective(tt[KernelId], KernelPages)
    /\ ChildLive =>
         /\ \A p \in ChildFrames : /\ p \in Frames /\ paddr_to_asid_map[p] # 0
                                   /\ p \notin KernelFrames
         /\ Injective(tt[ChildId], Pages(tt[ChildId]))

\* Outside a switch, what the TLB would answer is what the active table says:
\* nothing stale is left by a remapped load window, by an earlier process
\* with the same ASID, or by a walk in the middle of set_procid_ttbr0.
TLBCoherent ==
    MmuOn /\ asid # 0 =>
        \A e \in tlb : e.pte.nG = 0 \/ e.asid = asid => tt[ttbr][e.va] = e.pte

\* Whenever the kernel edits a translation table, the sections that hold the
\* tables are mapped, one to one, in the table that is active.
TablesReachable ==
    pc \in {"exec", "map", "copy", "unmap"} =>
        \A v \in TTPages : tt[ttbr][v] = Section(v)

\* A frame changes owner only by being freed first, and only the end of a
\* run frees (mmu_unmap); a reboot starts over (vm_enable).
OwnerStep ==
    \A p \in Frames :
        paddr_to_asid_map[p] # 0 /\ paddr_to_asid_map'[p] # paddr_to_asid_map[p] =>
            pc = "off" \/ (pc = "unmap" /\ paddr_to_asid_map'[p] = 0)
FreedBeforeReuse == [][OwnerStep]_vars

\* Back at the shell, nothing is left to a child (README: "mark all physical
\* sections that it owned as free"), whether it ran, failed to load or never
\* started.
ChildReclaimed == pc = "shell" => \A p \in Frames : paddr_to_asid_map[p] # ChildId

\* Every frame the kernel owns is still mapped by the kernel: the load window
\* that exec_file forgets has been given back (exec.c: "it will be forgotten
\* and reused on the next call").
NoOrphans ==
    pc = "shell" =>
        \A p \in Frames : paddr_to_asid_map[p] = KernelId =>
            \E v \in Pages(tt[KernelId]) : tt[KernelId][v].sec = p

\* When the loader starts to copy, every section of every segment and .bss is
\* mapped in the child to a frame the child owns (README: "sets up a new
\* mapping in the child's page table to a free section of physical memory").
SegmentsMapped ==
    pc = "instr" =>
        \A i \in DOMAIN LoadInstrs(file) :
            \A v \in Touched(LoadInstrs(file)[i].addr, LoadInstrs(file)[i].size) :
                /\ Private(tt[ChildId][v])
                /\ paddr_to_asid_map[tt[ChildId][v].sec] = ChildId

\* The heap of a running program starts above everything that was loaded, so
\* the zeroing in kernel_sbrk cannot hit it (README: the heap is "the lowest
\* address after all data and bss segments").
HeapAboveImage ==
    pc = "child" =>
        \A i \in DOMAIN LoadInstrs(file) :
            LoadInstrs(file)[i].addr + LoadInstrs(file)[i].size <= heap_start

\* Loading and growing a program never touches an unmapped section, so the
\* data and prefetch abort handlers never run.
NoAbort == why # "abort"

\* Starting up and every command end: with the prompt, or with a panic.
Busy == pc \notin {"off", "shell", "panic"}
RunReturns == Busy ~> pc \in {"shell", "panic"}
=============================================================================
