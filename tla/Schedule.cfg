SPECIFICATION FairSpec
CONSTANTS
  MaxPid = 3
  MaxTime = 6
  MaxFiles = 3
  MaxRecords = 4
  MAX_TASKS = 2
  MAX_COMPLETIONS_TO_CHECK = 2
  NsPerMs = 2
  U32 = 16
  U64 = 64
  Worlds = {"load", "pairing", "switches", "lost", "interval"}
  Jobs <- WorldJobs
INVARIANTS
  EveryRecordListed
  ListsInOrder
  RowsExact
  ResponsesReal
  SwitchesExact
  DumpExact
  DrawingExact
PROPERTIES
  LoadIsPriorityQueue
  ScheduleEnds
CHECK_DEADLOCK FALSE
