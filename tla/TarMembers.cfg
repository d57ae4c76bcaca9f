CONSTANTS
  PerPage = 2
  Kas = 0
  KasSegs <- MCKasSegs
  UserSegs <- MCUserSegs
  Objects <- MCObjects
  Arena = 20
  Archives <- MCArchives
  FileNames = {".", "libk", "list", "tree", "sub", "f", "main", "doc"}
  Mapped <- MCMapped
  MapAt = 4
  Values = {"a", "b"}
  FirstFree = 2
  MaxPage = 4
  MaxProcs = 2
  Unaligned = FALSE
SPECIFICATION Spec
CHECK_DEADLOCK FALSE
INVARIANT EveryMemberFound
