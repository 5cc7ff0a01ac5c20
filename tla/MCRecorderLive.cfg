\* One request at a time, two capture loops, two hours, with fairness.
SPECIFICATION FairSpec
CONSTANTS
  f1 = f1
  f2 = f2
  NoFrame = NoFrame
  Torn = Torn
  Frames <- OneFrame
  Undecoded = {}
  Configs <- LiveConfigs
  Default <- MCOff
  Handlers = {1}
  MaxGen = 2
  MaxSegs = 2
  MaxHour = 1
PROPERTIES
  StoppedLoopsExit
  DisabledSettles
CHECK_DEADLOCK FALSE
