SPECIFICATION Spec
CONSTANTS
  Lanes <- MCLanes
  Poses <- MCPoses
  Velocities = {0, 2}
  Configs <- MCConfigs
  Interpolates = TRUE
  Ratio = 2
  MinLookahead = 3
INVARIANTS
  DiesOnShortLane
PROPERTIES
  LostOnlyOnCircle
  TurnsTowardsLane
CHECK_DEADLOCK FALSE
