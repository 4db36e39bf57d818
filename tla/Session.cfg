SPECIFICATION TracingSpec
CONSTANTS
  Tracers = {t1, t2}
  ByHand = {t1}
  t1 = t1
  t2 = t2
  NrEvents = 2
  Faulty = {t1}
  Limits = {0, 2}
  BufferSize = 2
  MaxRecords = 3
  Modes = {TRUE, FALSE}
  EarlySignal = TRUE
INVARIANTS
  SessionTypeOK
  AnnouncedReady
  NoTracerLeft
  HandlerCovers
  OutputComplete
PROPERTIES
  TracersAsSpecified
  GetsReady
  EndsCleanly
  SignalEndsTracer
CHECK_DEADLOCK FALSE
