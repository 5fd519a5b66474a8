\* Two writes with and without extra lines, one thread or two.
SPECIFICATION FairSpec
CONSTANTS
    Workers = {t1, t2}
    Writers = {t1}
    Allocs <- AllocSizes
    Bufs <- Buffers
    Texts <- Answers
    ReadSizes = {0, 4}
    MaxWrites = 2
INVARIANTS TypeOK ConsoleFaithful BehindByExtraLines 
 
CHECK_DEADLOCK FALSE
