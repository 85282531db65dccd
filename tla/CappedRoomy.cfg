CONSTANTS
  Component = {"a", "b", "d", "e"}
  Path <- FlatPaths
  Thread = {t1, t2}
  Inode = {1, 2, 3, 4}
  MaxSize = 9
  ChunkSizes = {1}
  MaxChunks = 2
  MaxRequests = 3
  MaxRestarts = 0
  BackendErrors = TRUE
  ReadForms = {"rel", "abs"}
  Methods = {"PUT", "GET", "PROPFIND", "DELETE", "MOVE", "MKCOL"}
  InitialNode <- EmptyNode
  InitialLen <- EmptyLen
SPECIFICATION Spec
INVARIANT NoFileEscapes
