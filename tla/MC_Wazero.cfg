\* Two goroutines, nested calls, one export missing from the binary.
CONSTANTS
  Goroutine = {a, b}
  NoGoroutine = NoGoroutine
  Export = {f, x}
  NoExport = NoExport
  Missing = {x}
  MaxDepth = 3
  MaxWork = 4
SPECIFICATION FairSpec
INVARIANTS ModuleUsedUnderLock BuffersFreed
PROPERTIES LockKept StackDiscipline CallsReturn
