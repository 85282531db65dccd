CONSTANTS
  Component = {"a", "d", "e"}
  Path <- TwinPaths
  Thread = {t1}
  PoolSize = 2
  Alike = {}
  Folder <- TwinFolders
  DeletesRoot = FALSE
  MaxRequests = 5
  MaxRestarts = 2
  Failures = TRUE
  RenameFailures = FALSE
  InitialRows <- OnlyRoot
SPECIFICATION Spec
INVARIANT BlobsHaveRows
PROPERTY TreeIsAtomic
