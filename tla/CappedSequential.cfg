CONSTANTS
  Component = {"a", "b", "d", "e"}
  Path <- TreePaths
  Thread = {t1}
  Inode = {1, 2, 3, 4, 5, 6}
  MaxSize = 2
  ChunkSizes = {1, 3}
  MaxChunks = 2
  MaxRequests = 4
  MaxRestarts = 0
  BackendErrors = TRUE
  ReadForms = {"rel"}
  Methods = {"PUT", "GET", "PROPFIND", "DELETE", "MOVE", "MKCOL"}
  InitialNode <- EmptyNode
  InitialLen <- EmptyLen
SPECIFICATION HistorySpec
INVARIANTS LedgerMatchesDisk FullMeansNothingToEvict EveryVictimIsTried
PROPERTIES EvictsLeastRecentlyAccessed EveryRequestAnswered
