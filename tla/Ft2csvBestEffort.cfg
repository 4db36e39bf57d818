SPECIFICATION Spec
CONSTANTS
  SeqMod = 16
  LookAhead = 4
  OverflowCutoff = 5
  Worlds = {"single"}
  Jobs <- WorldJobs
INVARIANTS
  BestEffortKept
CHECK_DEADLOCK FALSE
