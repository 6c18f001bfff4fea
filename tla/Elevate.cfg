\* Who asks, for what, and what the helper answers; every fault on the way.
SPECIFICATION FairSpec
CONSTANTS
  Users = {0, 1}
  Roots = {"app", "other"}
  AllowedRoots = {"app"}
  Channels = {"stable", "beta"}
  Channel = "stable"
  Wants <- MCWants
  Modes <- MCModes
  MaxVersion = 2
  MaxSlots = 2
  MaxEvents = 2
 
PROPERTIES VettedInstall   AskingAgainSettles
CHECK_DEADLOCK FALSE
