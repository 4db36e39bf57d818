SPECIFICATION Spec
CONSTANTS
  SeqMod = 16
  LookAhead = 4
  OverflowCutoff = 5
  Worlds = {"plain"}
  Jobs <- WorldJobs
INVARIANTS
  DisturbedDiscarded
CHECK_DEADLOCK FALSE
