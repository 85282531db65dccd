CONSTANTS
  Component = {"a", "d", "e"}
  Path <- TreePaths
  Thread = {t1}
  Folder <- TreeFolders
  Method = {"PUT", "DELETE"}
  ForceDelete = TRUE
  MaxPieces = 2
  MaxRequests = 2
  MaxMishaps = 1
  InitialFiles <- OneDeep
  InitialKeeps <- OneKept
SPECIFICATION Spec
INVARIANT DisconnectsLeaveNoParts
