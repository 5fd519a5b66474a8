\* Kills inside words, late answers, a power cycle, a byte lost or garbled, stale input.
SPECIFICATION Spec
CONSTANTS
    Images <- Several
    StaleMax = 12
    CutWords = TRUE
    MaxKills = 1
    MaxLate = 1
    MaxResets = 1
    MaxNoise = 1
    LineMax = 3
INVARIANTS TypeOK RunsWholeImages SuccessIsThisImage
