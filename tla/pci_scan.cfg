SPECIFICATION FairSpec
CONSTANTS
  Buses = 2
  Devices = 2
  Functions = 3
  Word = 64
  PortWord = 32
  Machines <- MCMachines
INVARIANTS
  TypeOK
  ScanExact
  BarsDecoded
  FirstControllerChosen
PROPERTY ScanEnds
