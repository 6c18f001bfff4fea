SPECIFICATION Spec
CONSTANTS
    Updaters = {u}
    Launchers = {l}
    MaxVersion = 2
    Attempts <- MCAttempts
    Restarts = 1
    ShipsLauncher <- MCShips
    OnBusy = "defer"
    RetainVersions = 2
    AllowDowngrade = FALSE
    VerifyAfterApply = FALSE
    Exclusive = FALSE
    OneInstance = FALSE
    FailPcs <- MCAllFail
    MaxFaults = 0
INVARIANTS
    CurrentWhole
