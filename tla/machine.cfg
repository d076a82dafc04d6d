SPECIFICATION Spec
CONSTANTS
  HeapStart = 8
  HeapSize = 176
  Layouts <- MCLayouts
  MemoryMap <- MCMemoryMap
  Index <- MCIndex
  Root = 2
  BootTables <- MCBootTables
  MappedPages <- MCMappedPages
  NoCall = NoCall
  Polls = 2
  MaxU32 = 1000000
  MaxRequests = 2
  FileNames = {"hello.txt", "nofile"}
  DumpedSectors = {0}
  StrangeNumbers = {0, 1000000}
  Screens <- MCScreens
  WindowIds = {1, 2, 3, 4, 5}
INVARIANTS
  HeapTypeOK NothingOverlaps Accounting
  PagingTypeOK FramesAreGood NoFrameForgotten TablesArePrivate UserReachesAllPages
  OneWrongPerTimeout ListingsAreTruthful CatIsTruthful PanicsOnlyOnWrongSector
  TilesFit
PROPERTIES
  FreedCanBeReused LossBounded ImplementsAllocator
  ImplementsAddressSpace
  ReadsEnd
