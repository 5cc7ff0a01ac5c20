\* One connection with a channel of two events; a restart after the second
\* failed poll.
SPECIFICATION FairSpec
CONSTANTS
  s1 = s1
  Subs = {s1}
  QueueCap = 2
  MaxEvents = 7
  MaxFails = 3
INVARIANTS
  TypeOK
  LastEventTruthful
  FeedContiguous
PROPERTIES
  FeedProvided
  FeedCatchesUp
CHECK_DEADLOCK FALSE
