SPECIFICATION Spec
CONSTANTS
  sched = sched
  release = release
  NotPresent = NotPresent
  MaxStarts = 5
  Campaigns <- SmallCampaigns
INVARIANTS
  SamplesKept
  SelectedUniform
CHECK_DEADLOCK FALSE
