SPECIFICATION PathSpec
CONSTANTS
  Moves <- MCMoves
  Poses <- MCPoses
  Paths <- MCPaths
  MaxPackets = 2
  MaxCommands = 2
  MaxFixes = 1
INVARIANTS
  PositionKept
  PathKept
