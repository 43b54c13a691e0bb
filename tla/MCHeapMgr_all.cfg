\* The two managers; bins for 1, 2, 3-4, 5-6 and more units; requests that end
\* within a unit and at its end.  The reference managers have
\* room for three new blocks of the least size, the manager before heapmgr1 for two.
CONSTANTS
  MaxHeap = 20
  BaseHeap = 12
  KRHeap = 9
  LegacyHeap = 13
  SmallGrow = 3
  MinGrow = 6
  ExpBins = 2
  FixedBins = 2
  Interval = 2
  Libraries = {1, 2}
  UnitSize = 2
  Sizes = {1, 4, 7, 13}
SPECIFICATION HeapsSpec
INVARIANTS MemoryInOrder ListsExact DataKept 
PROPERTIES ImplementsAllocator OthersImplementAllocator GrowsOnlyWhenFull
