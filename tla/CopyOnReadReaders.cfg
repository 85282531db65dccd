CONSTANTS
  Component = {"a", "d"}
  Path <- DirPaths
  Thread = {t1, t2}
  Copier = {c1}
  Inode = {1, 2, 3}
  Spellings = {"plain"}
  Methods = {"GET"}
  MaxRequests = 2
  MaxRestarts = 0
  BackendErrors = FALSE
  CacheErrors = FALSE
  InitialNode <- DirNode
SPECIFICATION Spec
INVARIANT ReadsReturnTheFile
