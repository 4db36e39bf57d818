SPECIFICATION MCSpec
CONSTANTS
  SeqMod = 16
  LookAhead = 3
  OverflowCutoff = 5
  MAX_CPUS = 3
  MaxNrNotInRange = 1
  Cycles = 1
  MaxRuns = 2
  MaxKills = 1
  Inputs <- Files
INVARIANTS
  TypeOK
  ClosestChosen
  HolesCounted
  PreCheckExact
  SequentialityKept
  FileIsRecording
  Repairs
PROPERTIES
  PrefixFrozen
  ImplausibleOnEvidence
  Terminates
CHECK_DEADLOCK FALSE
