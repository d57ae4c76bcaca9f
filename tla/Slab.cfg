CONSTANTS
  MemoryMap <- MCMemoryMap
  KernelStart = 5
  ImageEnd = 13
  UnitsPerPage = 2
  MaxHeap = 4
  Threads = Threads
  Nodes = Nodes
  Esize <- MCEsize
  NULL = NULL
SPECIFICATION Spec
INVARIANTS CountsBits KernelKept HeapPagesDistinct OneUse ReachableKept FinalizedOnce
PROPERTY Collected
