CONSTANTS
  Component = {"a", "b", "d", "e"}
  Path <- DirPaths
  Thread = {t1, t2}
  Inode = {1, 2, 3, 4, 5}
  MaxSize = 1
  ChunkSizes = {1}
  MaxChunks = 1
  MaxRequests = 2
  MaxRestarts = 1
  BackendErrors = TRUE
  ReadForms = {"rel", "abs"}
  Methods = {"PUT", "GET", "PROPFIND", "DELETE", "MOVE", "MKCOL"}
  InitialNode <- DirNode
  InitialLen <- DirLen
SPECIFICATION Spec
INVARIANTS TypeOK CurSizeCoversTracked
