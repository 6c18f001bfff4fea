SPECIFICATION Spec
CONSTANTS
    Updaters = {u}
    Launchers = {l}
    MaxVersion = 3
    Attempts <- MCAttempts
    Restarts = 1
    ShipsLauncher <- MCShips
    OnBusy = "defer"
    RetainVersions = 2
    AllowDowngrade = FALSE
    VerifyAfterApply = FALSE
    Exclusive = TRUE
    OneInstance = TRUE
    FailPcs <- MCAllFail
    MaxFaults = 2
PROPERTIES
    
    UpdatesAtomically
