CONSTANTS
  Component = {"a", "d", "e"}
  Path <- TwinPaths
  Thread = {t1}
  PoolSize = 2
  Alike = {}
  Folder <- TwinFolders
  DeletesRoot = FALSE
  MaxRequests = 2
  MaxRestarts = 0
  Failures = FALSE
  RenameFailures = TRUE
  InitialRows <- TwinDir
SPECIFICATION Spec
INVARIANT SizeWithinContent
