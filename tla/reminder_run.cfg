SPECIFICATION HSpec
CONSTANTS
    MAX_FULL_OMITS = 1
    MaxSatIter = 8
    TRIG_ATTEMPTS = 20
    FirstDay = 10
    LastDay = 16
    MaxLines = 4
    Rem <- MCRem
    Files <- MCFiles
    Options <- MCOptions
INVARIANT IssuesWhatIsDue OnceADay SortedStably PurgedIsOver PurgeLosesNothing
PROPERTY NaggedUntilDone
CHECK_DEADLOCK FALSE
