CONSTANTS
  Component = {"a", "d", "e"}
  Path <- TreePaths
  Thread = {t1, t2}
  Folder <- TreeFolders
  Method = {"PUT", "MKCOL", "DELETE", "MOVE", "COPY"}
  ForceDelete = TRUE
  MaxPieces = 2
  MaxRequests = 2
  MaxMishaps = 1
  InitialFiles <- OneDeep
  InitialKeeps <- OneKept
SPECIFICATION FairSpec
INVARIANTS TypeOK AnsweredMeansWhole FilesComeFromOneUpload RemovedMeansGone
PROPERTIES MovedIsNotLost PartsAreRemoved
