\* The recorder and one stream share a client; every limit is one unit of
\* time.
SPECIFICATION StreamFairSpec
CONSTANTS
  recorder = recorder
  viewer = viewer
  Nobody = Nobody
  Callers = {recorder, viewer}
  Viewers = {viewer}
  SignalTTL = 1
  Timeout = 1
  MuteFor = 1
INVARIANTS
  TypeOK
  FailureTold
  OneResponse
PROPERTIES
  RefusalJustified
  CallsReturn
  PollingEnds
CHECK_DEADLOCK FALSE
