SPECIFICATION Spec
CONSTANTS
    SecsPerMin = 2
    MinsPerDay = 6
    Ids <- MCIds
    Rem <- MCRem
    Scripts <- MCScripts
    Mode = "daemon"
    PollMinutes = 1
    MaxLate = 1
    Start = 17
    Horizon = 27
    MaxBusy = 4
    Jumps = {5}
    MaxEvents = 2
    Commands = {}
    PartialLines = TRUE
    EditKinds = {"file", "inside", "replace"}
    ExecMayFail = FALSE
INVARIANT IInv NeverStale
