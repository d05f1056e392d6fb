SPECIFICATION Spec
CONSTANTS
  t1 = t1
  t2 = t2
  l1 = l1
  l2 = l2
  Threads = {t1, t2}
  Locks = {l1, l2}
  NoOwner = NoOwner
  Cli = Cli
  MaxHeld = 3
  MaxContexts = 2
INVARIANTS
  OwnerHasCpu
  NestedCountsHolds
  FlagsRestored
