SPECIFICATION Spec
CONSTANTS
  CntMod = 2
  Moves = {1}
  Period = 5
  SendTicks = 3
  CommandTicks = 2
  DefaultLimit = 1
  PCLimit = 4
  Levels = {0, 2, 3}
  Limits = {1, 4}
  MaxPairs = 2
  MaxOthers = 1
  MaxLost = 1
INVARIANTS
  OdometryExact
  SkewBounded
  FreshIntegral
  Watched
PROPERTIES
  SilenceStops
