SPECIFICATION FairSessionSpec
CONSTANTS
  Tracers = {t1, t2}
  t1 = t1
  t2 = t2
  NrEvents = 2
  Faulty = {}
  Limits = {0}
  BufferSize = 1
  MaxRecords = 0
  Modes = {TRUE}
  EarlySignal = TRUE
CHECK_DEADLOCK FALSE
PROPERTIES
  TerminatesOnUsr1
