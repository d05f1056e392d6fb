SPECIFICATION Spec
CONSTANTS
  WORD = 8
  Flags = {0, 1}
INVARIANTS
  MergeIsUnion
  CutIsDifference
  ListInOrder
PROPERTIES
  ListIsSet
