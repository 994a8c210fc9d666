SPECIFICATION Spec
CONSTANTS
    DefaultDelta = 1
    DefaultTDelta = 0
    DefaultPrio = 5000
    MaxWords = 3
    MaxCoreWords = 5
    Readable <- MCReadable
INVARIANT MeansItsParts AcceptsWhatIsClear MarksNonConstant
CHECK_DEADLOCK FALSE
