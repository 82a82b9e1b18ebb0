SPECIFICATION Spec
CONSTANTS
  N = 3
  Keys <- TwoKeys
  MaxEvents = 3
  FifoCap = 2
  BootTicks = 1
PROPERTY DropsOldest
