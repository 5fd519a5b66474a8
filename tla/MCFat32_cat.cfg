SPECIFICATION Spec
CONSTANTS
    Disks <- SomeDisks
    Paths <- SomePaths
    SECTOR_SIZE = 2
    CMod = 32
INVARIANT CatPrintsFile
