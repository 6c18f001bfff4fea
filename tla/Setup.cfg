\* Two roots of one application, installed, updated, deleted and uninstalled, with every
\* interruption.
SPECIFICATION FairSpec
CONSTANTS
  Roots = {"here", "there"}
  Procs = {p1}
  OwnerFirst = TRUE
  MaxVersion = 2
  MaxEvents = 3
  MaxFaults = 1
INVARIANT EntryKnown
   
