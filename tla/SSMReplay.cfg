SPECIFICATION ReplaySpec
CONSTANTS
  g_log_num = 2
  Stamps = {1, 2, 3}
  MaxRecords = 2
  Speeds = {1, 2}
  Steps = {1, 2}
  Start = 3
  End = 5
  MaxProceed = 1
INVARIANTS Replayed Synchronous
CHECK_DEADLOCK FALSE
