\* A program prints the first character of the marker last.
SPECIFICATION FairSpec
CONSTANTS
    Images <- Several
    Texts <- Lines
    ProgramTexts <- EndsInC
    LAST_USED_ADDRESSES = 32
    MAX_ADDRESS = 64
    PROTOCOL_VERSION = 2
    Width = 128
    Garbles = {2, 7, 8, 16, 36, 120}
    MaxNoise = 1
    MaxLate = 1
    MaxInts = 2
PROPERTY CommandReturns
CHECK_DEADLOCK FALSE
