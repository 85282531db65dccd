CONSTANTS
  Component = {"a", "b", "d", "e"}
  Path <- FlatPaths
  Thread = {t1}
  Inode = {1, 2, 3}
  MaxSize = 2
  ChunkSizes = {2}
  MaxChunks = 1
  MaxRequests = 2
  MaxRestarts = 0
  BackendErrors = FALSE
  ReadForms = {"rel"}
  Methods = {"PUT", "GET"}
  InitialNode <- EmptyNode
  InitialLen <- EmptyLen
SPECIFICATION Spec
PROPERTY WrittenFileIsThere
