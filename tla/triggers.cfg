SPECIFICATION Spec
CONSTANTS
    MAX_FULL_OMITS = 10
    MaxSatIter = 8
    TRIG_ATTEMPTS = 20
    Scripts <- MCScripts
INVARIANT TriggersOnTheDay
PROPERTY PromiseKept AnnouncedUntilTheDay
CHECK_DEADLOCK FALSE
