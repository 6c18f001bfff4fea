\* Four publishes in any order, each of which may stop after any of its writes.
SPECIFICATION PubSpec
CONSTANTS
  Channels = {"stable", "beta"}
  Lines = {"v1", "v2"}
  Line <- MCLine
  Releases <- MCReleases
  Keys = {"k1"}
  Smaller <- MCSmaller
  Against = 2
  Keep = 2
  MaxNow = 1
  MaxPublish = 4
INVARIANTS ServedWhole HeadsInstallable
PROPERTY ImplementsRepository
CHECK_DEADLOCK FALSE
