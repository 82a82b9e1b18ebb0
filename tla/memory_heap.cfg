SPECIFICATION Spec
CONSTANTS
  PageSize = 2
  Radix = 2
  MemoryMaps <- MCMemoryMaps
  CR3 = 0
  BootTables <- MCBootTables
  HEAP_START = 18
  HeapPages = 4
  MinAddr = 20
INVARIANTS
  TypeOK
  TakenFramesAreSpare
  HeapFullyMapped
  SucceedsIffPossible
PROPERTY
  HeapIsAddressSpace
