SPECIFICATION Spec
CONSTANTS
  N = 3
  Keys <- BothShiftKeys
  MaxEvents = 4
  FifoCap = 2
  BootTicks = 1
INVARIANT DecodedAsPressed
