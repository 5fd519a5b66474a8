\* Running an empty file loses the section of its load window.
CONSTANTS
    NPhys = 7
    NVirt = 21
    Sec = 4
    GlobalPages = {0, 15}
    TTPages = {1}
    HeapPage = 2
    LoadPage = 8
    ProcLoadPage = 16
    EhdrSize = 1
    Files <- JustEmpty
    Incrs = {1, 4}
    AllocSizes = {3}
    DirSize = 1
    InitSize = 1
    MaxInstr = 3
    RamTables <- Ram
    TLBSize = 1
SPECIFICATION Spec
INVARIANT NoOrphans
CHECK_DEADLOCK TRUE
