\* One goroutine calls C++ code that calls back; the others only call.
CONSTANTS
  Goroutine = {a, b, c}
  CallbackGoroutine = {a}
  NoGoroutine = NoGoroutine
  MaxDepth = 3
  MaxStack = 6
  MaxWork = 5
  AllocMayFail = FALSE
  TypeNameMayTrap = FALSE
SPECIFICATION Spec
INVARIANTS RunningFrameOnTop FramesIntact BuffersFreed
PROPERTIES StackDiscipline
