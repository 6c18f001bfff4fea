SPECIFICATION Spec
CONSTANTS
    Updaters = {u}
    Launchers = {l}
    MaxVersion = 3
    Attempts <- MCAttempts
    Restarts = 1
    ShipsLauncher <- MCShips
    OnBusy = "abort"
    RetainVersions = 2
    AllowDowngrade = TRUE
    VerifyAfterApply = TRUE
    Exclusive = TRUE
    OneInstance = FALSE
    FailPcs <- MCAllFail
    MaxFaults = 1
INVARIANTS
    HostFits
