\* Regions wider than SDRAM: memory runs out before the kernel heap reaches
\* the load window or a program's heap the peripherals.
CONSTANTS
    NPhys = 7
    NVirt = 21
    Sec = 4
    GlobalPages = {0, 15}
    TTPages = {1}
    HeapPage = 2
    LoadPage = 8
    ProcLoadPage = 16
    EhdrSize = 1
    Files <- WellLinked
    Incrs = {1, 4}
    AllocSizes = {3}
    DirSize = 1
    InitSize = 1
    MaxInstr = 3
    RamTables <- Ram
    TLBSize = 1
SPECIFICATION FairSpec
INVARIANTS TLBCoherent NoOrphans SegmentsMapped HeapAboveImage NoAbort
PROPERTY RunReturns
CHECK_DEADLOCK TRUE
