\* Two goroutines whose C++ calls back into Go at the same time.
CONSTANTS
  Goroutine = {a, b}
  CallbackGoroutine = {a, b}
  NoGoroutine = NoGoroutine
  MaxDepth = 2
  MaxStack = 3
  MaxWork = 2
  AllocMayFail = FALSE
  TypeNameMayTrap = FALSE
SPECIFICATION Spec
INVARIANTS RunningFrameOnTop
CHECK_DEADLOCK FALSE
