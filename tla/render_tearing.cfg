SPECIFICATION Spec
CONSTANTS
  Infos <- MCInfos
  FrameTicks = 2
  PassTicks = 2
  TickCycle = 12
INVARIANT NoTearing
