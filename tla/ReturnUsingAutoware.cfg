SPECIFICATION Spec
CONSTANTS
  Twists = {7}
  Joys <- MCJoys
  MaxVels = {10}
  Flame = 1
  MaxMessages <- MCMaxMessages
  MaxOthers = 1
  MaxBodies = 2
INVARIANTS
  FasterOnlyIfCapReplaced
  LostOnlyIfReplaced
  FlameUnlessOverlapped
  OnceUnlessOverlapped
CHECK_DEADLOCK FALSE
