\* Two goroutines call C++ code that calls back, and handlers wait for calls
\* they hand to other goroutines.
CONSTANTS
  Goroutine = {a, b}
  CallbackGoroutine = {a, b}
  NoGoroutine = NoGoroutine
  MaxDepth = 2
  MaxStack = 3
  MaxWork = 2
  AllocMayFail = TRUE
  TypeNameMayTrap = TRUE
SPECIFICATION FairSpec
INVARIANTS ModuleTouchedUnderLock DescriptorIsOwn
PROPERTIES CallsReturn
\* Frames lost by a trap or by calls that end out of order can use up
\* MaxStack, after which the bound starts no further call.
CHECK_DEADLOCK FALSE
