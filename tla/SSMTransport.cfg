SPECIFICATION TransportSpec
CONSTANTS
  Num = 4
  Cap = 3
  Followed = "odm"
  File <- MCFile
  Setups <- MCSetups
  Last <- MCLast
INVARIANTS
  PassedOn
PROPERTIES
  SenderCatchesUp
  FollowerCatchesUp
\* The drivers may stop publishing, and everybody then waits for ever.
CHECK_DEADLOCK FALSE
