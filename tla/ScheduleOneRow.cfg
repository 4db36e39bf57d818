SPECIFICATION FairSpec
CONSTANTS
  MaxPid = 3
  MaxTime = 6
  MaxFiles = 3
  MaxRecords = 4
  MAX_TASKS = 2
  MAX_COMPLETIONS_TO_CHECK = 2
  NsPerMs = 2
  U32 = 16
  U64 = 64
  Worlds = {"overload"}
  Jobs <- WorldJobs
CHECK_DEADLOCK FALSE
INVARIANT OneRowForEachJob
