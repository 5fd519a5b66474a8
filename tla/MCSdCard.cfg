SPECIFICATION FairSpec
CONSTANTS
    Kinds <- SomeCards
    HostSpecs = {1, 2}
    Transfers <- SomeCalls
    NBlocks = 3
    BlockSize = 4
    BaseClock = 41666666
    MaxTries = 2
    MaxFaults = 2
    MaxResets = 1
INVARIANTS
    TypeOK
    CardAgreed
    AnswerIsOurs
    ReadsRight
    WritesLand

    
