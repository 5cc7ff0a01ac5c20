\* Two tabs, two jobs, an output line that ends in CR, one fault.
SPECIFICATION FairSpec
CONSTANTS
  t1 = t1
  t2 = t2
  bare = bare
  cr = cr
  Tabs = {t1, t2}
  Printed = {cr}
  CRLines = {cr}
  Width <- MCWidth
  MaxJobs = 2
  MaxOut = 1
  MaxFaults = 1
INVARIANTS
  TypeOK
  OneUpgrade
  
PROPERTIES
  ServiceProvided
  LogFrozen
  StreamEnds
CHECK_DEADLOCK FALSE
