SPECIFICATION Spec
CONSTANTS
    SecsPerMin = 2
    MinsPerDay = 6
    Ids <- MCIds
    Rem <- MCRem
    Scripts <- MCScripts
    Mode = "server"
    PollMinutes = 1
    MaxLate = 1
    Start = 17
    Horizon = 27
    MaxBusy = 2
    Jumps = {5}
    MaxEvents = 2
    Commands = {"DEL", "REREAD", "EXIT", "STATUS"}
    PartialLines = TRUE
    EditKinds = {"file"}
    ExecMayFail = TRUE
INVARIANT CurrentIsQueued NeverEarly
PROPERTY AtMostOnce InOrder
