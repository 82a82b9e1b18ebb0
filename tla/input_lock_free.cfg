SPECIFICATION Spec
CONSTANTS
  N = 3
  Keys <- TwoKeys
  MaxEvents = 2
  FifoCap = 2
  BootTicks = 1
INVARIANT NoSelfDeadlock
