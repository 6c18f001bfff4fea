\* A delegated role's key is replaced in the configuration.
SPECIFICATION PubSpec
CONSTANTS
  Channels = {"stable", "beta"}
  Lines = {"v1", "v2"}
  Line <- MCLine
  Releases <- MCReleases
  Keys = {"k1", "k2"}
  Smaller <- MCSmaller
  Against = 2
  Keep = 2
  MaxNow = 1
  MaxPublish = 2
INVARIANT ServedWhole
CHECK_DEADLOCK FALSE
