\* my-install is killed between words or times out early, then started again.
SPECIFICATION FairSpec
CONSTANTS
    Images <- TwoImages
    StaleMax = 0
    CutWords = FALSE
    MaxKills = 2
    MaxLate = 1
    MaxResets = 0
    MaxNoise = 0
    LineMax = 3
PROPERTIES Recovers
