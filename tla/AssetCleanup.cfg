CONSTANTS
  Projects = {"p1"}
  Keys = {"k1"}
  Threads = {"t1", "t2"}
  Collectors = {"c1", "c2"}
  MaxBlobs = 2
  MaxBuilds = 2
  MaxAttempts = 2
  MaxStops = 1
  Databases = {"sqlite", "postgresql"}
SPECIFICATION FairSpec
INVARIANTS
  RowHasBlob
  BuildKeepsAssets
  ManifestStored
PROPERTIES
  GarbageGoes
CHECK_DEADLOCK FALSE
