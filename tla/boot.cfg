SPECIFICATION FairSpec
CONSTANTS
  BootTicks = 3
INVARIANTS
  NoTripleFault
  ParksForCause
  LogIntact
PROPERTIES
  BootSettles
  FaultsReported
