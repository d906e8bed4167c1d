SPECIFICATION Spec
CONSTANTS
  Readers = {r1}
  Num = 4
  Cycle = 2
  Gaps = {1, 3, 10}
  MaxTid = 4
  Queries = {0, 4, 9}
INVARIANTS
  TableCovers
  NearestOlderUnlessAliased
PROPERTY QuietCallFinds
