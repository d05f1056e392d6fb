CONSTANTS
  Idle = Idle
  Kbd = Kbd
  App = App
  Threads = {Idle, Kbd, App}
  Keys = {"x", "newline", "backspace", "shift"}
  Leftover = {"mute"}
  TypeAhead = FALSE
  MAXLENGTH = 2
  MaxTyped = 1
SPECIFICATION FairSpec
INVARIANTS
  TypeOK
  
  SleeperObserves
  NoStaleRead
  

  
