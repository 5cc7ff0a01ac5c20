\* One tab, one job, no fault.
SPECIFICATION FairSpec
CONSTANTS
  t1 = t1
  t2 = t2
  bare = bare
  cr = cr
  Tabs = {t1}
  Printed = {bare}
  CRLines = {}
  Width <- MCWidth
  MaxJobs = 1
  MaxOut = 1
  MaxFaults = 0
CHECK_DEADLOCK FALSE
PROPERTY DoneMeansAll
