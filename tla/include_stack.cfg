SPECIFICATION Spec
CONSTANTS
    IF_NEST = 2
    Files <- MCFiles
    Dirs <- MCDirs
    Cmds <- MCCmds
    Bang = {"!cmd"}
    InitialFile = "A"
    Texts <- AnyTexts
    Trusted <- MCTrusted
    INCLUDE_NEST = 3
    MaxCachedLines = 2
    Passes = 2
    MayVanish = {"A", "B"}
INVARIANT IncludedWhereExecuted EnclosingBlocksUntouched RunFollowsOwner
