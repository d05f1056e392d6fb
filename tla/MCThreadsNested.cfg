CONSTANTS
  Boot = Boot
  Idle = Idle
  a = a
  b = b
  Threads = {Boot, Idle, a}
  Exiting = {}
  Tick = Tick
  Device = Device
  Deferred <- DeferredA
  MaxFrames = 2
  TIME_SLICE = 1
  WORD = 4
SPECIFICATION Spec
INVARIANTS
  HandlersFinishBeforeSwitch
