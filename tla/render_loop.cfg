SPECIFICATION FairSpec
CONSTANTS
  Infos <- MCInfos
  FrameTicks = 2
  PassTicks = 3
  TickCycle = 12
INVARIANTS
  TypeOK
  ScreenShowsWholeFrames
PROPERTIES
  LeaderWalks
  AnimationGoesOn
