SPECIFICATION HSpec
CONSTANTS
    MAX_FULL_OMITS = 1
    MaxSatIter = 8
    TRIG_ATTEMPTS = 20
    FirstDay = 10
    LastDay = 16
    MaxLines = 4
    Rem <- MCRem
    Files <- TaskAbroad
    Options <- MCOptions
INVARIANT TodosPurgedWhenComplete
CHECK_DEADLOCK FALSE
