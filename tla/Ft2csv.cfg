SPECIFICATION FairSpec
CONSTANTS
  SeqMod = 16
  LookAhead = 4
  OverflowCutoff = 5
  Worlds = {"eid", "plain", "exec", "single"}
  Jobs <- WorldJobs
INVARIANTS
  Ft2csvTypeOK
  SamplesExact
  SampleSound
  EndUsedOnce
  ExecTimeExact
  Accounted
PROPERTIES
  RunEnds
CHECK_DEADLOCK FALSE
