\* One loop, the local clock half a day behind UTC.
SPECIFICATION FairSpec
CONSTANTS
  Limits <- BothLimits
  West = 1
  Stuck = {}
  MaxLoops = 1
  MaxNow = 5
  MaxSize = 1
PROPERTY RetentionHonoured
CHECK_DEADLOCK FALSE
