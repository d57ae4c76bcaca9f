CONSTANTS
  TreeKeys = {1, 2, 3, 4}
  Replaced = {2}
  Priorities = {0, 15}
  Modes = {"splay", "treap", "count", "simple"}
  ArrayKeys = {1, 2, 3, 4, 5}
  Values = {1, 2}
  Capacity = 4
  Indices = {0, 1, 2, 3, 5, 6, 8, 11}
  ENTRIES = 2
  ListNodes = {n1, n2, n3, n4}
  Lists = {la, lb}
  Kinds = {"tree", "arraymap", "vector", "list"}
  NULL = NULL
SPECIFICATION Spec
INVARIANTS TreeSound  VectorSound ListSound
PROPERTIES  ImplementsSequences
VIEW View
