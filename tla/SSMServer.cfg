SPECIFICATION FairSpec
CONSTANTS
  c1 = c1
  c2 = c2
  c3 = c3
  Clients <- MCClients
  PidOf <- MCPids
  Mortal = {c1}
  Sensors = {s1, s2}
  Ops = {"create", "open", "set", "get", "num"}
  Sizes = {1, 2}
  NumRes = 2
  MaxCalls <- MCCalls
  MaxRestarts = 1
INVARIANTS
  RepliesAreOwn
  SegmentsAgree
  PropertyKept
CONSTRAINT Unmixed
PROPERTY CallsReturn
\* All calls may have been made, and a dead setter blocks the server.
CHECK_DEADLOCK FALSE
