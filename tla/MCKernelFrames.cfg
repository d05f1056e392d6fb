SPECIFICATION Spec
CONSTANTS
  WORD = 96
  Flags = {0, 1, 2, 8}
  PTR = 2
  HEADER = 2
  PAGE = 8
  PT_ENTRIES = 4
  ALLOC_VM_USER = 1
  ALLOC_VM_KERNEL = 2
  ALLOC_PM_NORMAL = 8
  segment_start = 32
  memory_end = 64
  Ram <- RamAll
  KernelImage = {24}
  Tables <- TwoTables
  MaxMapped = 0
  MaxClones = 0
  Requests = {1, 7}
INVARIANTS
  KernelFramesKept
