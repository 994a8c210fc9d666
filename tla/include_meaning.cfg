SPECIFICATION FairSpec
CONSTANTS
    IF_NEST = 5
    Files <- MCFiles
    Dirs <- MCDirs
    Cmds <- MCCmds
    Bang = {"!cmd"}
    InitialFile = "A"
    Texts <- MeaningfulTexts
    Trusted <- MCTrusted
    INCLUDE_NEST = 3
    MaxCachedLines = 3
    Passes = 2
    MayVanish = {"B"}
INVARIANT MeansWhatItSays PassesAgree
PROPERTY Terminates
