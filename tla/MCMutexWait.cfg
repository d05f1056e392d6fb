CONSTANTS
  Idle = Idle
  a = a
  b = b
  d = d
  Threads = {Idle, a, b}
  m = m
  n = n
  Mutexes = {m}
  NoOwner = NoOwner
  TryLockers = {}
  MaxNested = 1
  Tick = Tick
  Device = Device
  Deferred <- DeferredIdle
  MaxFrames = 1
  TIME_SLICE = 1
  WORD = 2
SPECIFICATION Spec
INVARIANTS
  OwnerIsAwake
