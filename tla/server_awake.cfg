SPECIFICATION FairSpec
CONSTANTS
    SecsPerMin = 2
    MinsPerDay = 6
    Ids <- MCIds
    Rem <- MCRem
    Scripts <- MCScripts
    Mode = "server"
    PollMinutes = 1
    MaxLate = 0
    Start = 19
    Horizon = 27
    MaxBusy = 3
    Jumps = {}
    MaxEvents = 2
    Commands = {"DEL", "STATUS"}
    PartialLines = TRUE
    EditKinds = {"file"}
    ExecMayFail = FALSE
INVARIANT NeverOversleeps AwakeInv
PROPERTY AtTimeIsIssued SighupRereads DueIsServed
