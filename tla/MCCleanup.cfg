\* Two loops, two configurations, two days, the local clock at UTC.
SPECIFICATION FairSpec
CONSTANTS
  Limits <- BothLimits
  West = 0
  Stuck = {}
  MaxLoops = 2
  MaxNow = 3
  MaxSize = 2
INVARIANTS
  TypeOK
  NoOverDelete
PROPERTIES
  OldestFirst
  RetentionHonoured
  RunsGetOn
  StoppedCleanersExit
CHECK_DEADLOCK FALSE
