CONSTANTS
  Component = {"a", "d", "e"}
  Path <- PairPaths
  Thread = {t1, t2}
  PoolSize = 2
  Alike <- DMatchesE
  Folder = {}
  DeletesRoot = TRUE
  MaxRequests = 3
  MaxRestarts = 1
  Failures = TRUE
  RenameFailures = TRUE
  InitialRows <- OneFile
SYMMETRY Clients
SPECIFICATION Spec
INVARIANTS TypeOK PoolStarvesOnlyByCreations
PROPERTY OnlyKnownTears
