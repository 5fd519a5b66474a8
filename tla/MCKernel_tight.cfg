\* Real proportions in small: the heap, the load window and SDRAM run into
\* each other.
CONSTANTS
    NPhys = 7
    NVirt = 12
    Sec = 4
    GlobalPages = {0, 7}
    TTPages = {1}
    HeapPage = 2
    LoadPage = 5
    ProcLoadPage = 9
    EhdrSize = 1
    Files <- AllFiles
    Incrs = {1, 4, 45}
    AllocSizes = {3}
    DirSize = 1
    InitSize = 1
    MaxInstr = 3
    RamTables <- Ram
    TLBSize = 1
SPECIFICATION Spec
INVARIANTS TypeOK Isolation TablesReachable ChildReclaimed
PROPERTY FreedBeforeReuse
CHECK_DEADLOCK TRUE
