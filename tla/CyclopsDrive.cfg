SPECIFICATION DriveSpec
CONSTANTS
  RunLength = 2
  StopRays = 2
  BackScans = 1
  Rise = 40
  Limiters = {"stop", "back", "follow"}
  Twists = {20}
  Raws <- MCRaws
  Limit = 50
  UnitRate = 5
  Scans <- MCScans
  JoyX = 30
INVARIANT SideUnlessClipped
PROPERTIES
  StopsAtObstacle
  LostSilences
CHECK_DEADLOCK FALSE
