CONSTANTS
  Boot = Boot
  Idle = Idle
  a = a
  b = b
  Threads = {Boot, Idle, a, b}
  Exiting = {b}
  Tick = Tick
  Device = Device
  Deferred <- DeferredA
  MaxFrames = 1
  TIME_SLICE = 1
  WORD = 4
SPECIFICATION FairSpec
INVARIANTS
  NoPanic
  ListsMatchStates
  RunningIsCurrent
  Lifecycle
PROPERTIES
  NoOvertaking
  ImplementsCpu
  
CHECK_DEADLOCK FALSE
