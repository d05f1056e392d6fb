CONSTANTS
  Boot = Boot
  Idle = Idle
  Timer = Timer
  a = a
  Threads = {Boot, Idle, Timer, a}
  Tick = Tick
  Device = Device
  Deferred <- DeferredTimerA
  MaxFrames = 1
  TIME_SLICE = 1
  WORD = 2
  Delays = {0, 1}
  PERIOD = 2
  MaxPending = 0
  Ids = {1, 2, 3, 4, 5}
  Nobody = Nobody
  Free = Free
  Hung = Hung
SPECIFICATION Spec
INVARIANTS
  SleeperHasTimer
CHECK_DEADLOCK FALSE
