SPECIFICATION FairSpec
CONSTANTS
  N = 3
  Keys <- TypingKeys
  MaxEvents = 3
  FifoCap = 3
  BootTicks = 1
INVARIANTS
  TypeOK
  NoStrayInterrupt
  PicsNeverContended
  EveryInterruptAcknowledged
  LineIsSurvivors
  DecodedAsPressed
PROPERTIES
  ScancodeNotStranded
  BufferIsFifo
  KeysReachReader
  EnterEndsReadLine
