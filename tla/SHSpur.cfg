SPECIFICATION Spec
CONSTANTS
  joystick = joystick
  planner = planner
  Clients <- MCClients
  Commands <- MCCommands
  Top = 3
  MAX_VEL = 2
  MAX_ACC_V = 1
  Cycle = 2
  WatchDog = 2
  QueueMax = 2
  MaxCommands = 3
INVARIANTS
  NoHalfPair
  ServoOn
  WatchDogSleeps
PROPERTIES
  Answered
  Stops
CHECK_DEADLOCK FALSE
