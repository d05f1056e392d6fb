CONSTANTS
  Idle = Idle
  a = a
  b = b
  d = d
  Threads = {Idle, a, b, d}
  m = m
  n = n
  Mutexes = {m, n}
  NoOwner = NoOwner
  TryLockers = {a, b, d}
  MaxNested = 2
  Tick = Tick
  Device = Device
  Deferred <- DeferredIdle
  MaxFrames = 1
  TIME_SLICE = 1
  WORD = 2
SPECIFICATION Spec
SYMMETRY Symmetry
INVARIANTS
  NoPanic
  MutualExclusion
  NestedCountsHolders
  SleepersAreQueued
  FreeMutexHasNoSleeper
PROPERTIES
  HandOffInOrder
