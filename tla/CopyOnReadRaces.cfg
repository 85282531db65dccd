CONSTANTS
  Component = {"a", "d"}
  Path <- DirPaths
  Thread = {t1, t2}
  Copier = {c1}
  Inode = {1, 2, 3, 4}
  Spellings = {"plain"}
  Methods = {"PUT", "GET", "PROPFIND", "DELETE", "MOVE", "MKCOL"}
  MaxRequests = 3
  MaxRestarts = 1
  BackendErrors = TRUE
  CacheErrors = TRUE
  InitialNode <- DirNode
SYMMETRY Clients
SPECIFICATION RacesSpec
INVARIANTS TypeOK CachedIsCurrent UndisturbedReadsAreTrue
