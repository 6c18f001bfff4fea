SPECIFICATION FairSpec
CONSTANTS
    Channels = {"stable", "beta"}
    Line <- MCLine
    Releases <- MCReleases
    Smaller <- MCSmaller
    Before <- MCBefore
    Reps <- MCReps
    Attempts = 1
    Ceiling = 2
    Channel = "stable"
    ClientVersion = 1
    Withheld = {}
    PatchCost = 1
    FileCost = 3
    maxWalk = 3
    MaxClock = 1
    MaxEvents = 3

    
    
PROPERTIES
    InstallsAllowed
    
    CatchesUp
CHECK_DEADLOCK FALSE
