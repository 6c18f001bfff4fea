\* Every interruption of the replacement and of its repair, on both platforms.
SPECIFICATION Spec
CONSTANTS
  Launchers = {l1, l2}
  Apps = {a}
  Strategies = {"rename", "aside"}
  Overlap = FALSE
  MaxVersion = 3
  MaxAside = 3
  MaxFaults = 3
 
PROPERTIES StagedKept 
