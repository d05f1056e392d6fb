SPECIFICATION Spec
CONSTANTS
  WORD = 64
  Flags = {0, 1, 2, 8}
  PTR = 2
  HEADER = 2
  PAGE = 8
  PT_ENTRIES = 2
  ALLOC_VM_USER = 1
  ALLOC_VM_KERNEL = 2
  ALLOC_PM_NORMAL = 8
  segment_start = 16
  memory_end = 32
  Ram <- RamLow
  KernelImage = {8}
  Tables <- TwoTables
  MaxMapped = 1
  MaxClones = 1
  Requests = {1, 7}
INVARIANTS
  VirtualConserved
  HeapConserved
  PaddingFits
  FramesExclusive
  TranslationsMatch
  NoStaleTranslation
PROPERTIES
  HeapSpec
  
  UnmapPanicsAcrossTables
CHECK_DEADLOCK FALSE
