\* One loop, no restart: a segment is reopened within its hour.
SPECIFICATION Spec
CONSTANTS
  f1 = f1
  f2 = f2
  NoFrame = NoFrame
  Torn = Torn
  Frames <- OneFrame
  Undecoded = {}
  Configs <- RaceConfigs
  Default <- MCOff
  Handlers = {1}
  MaxGen = 1
  MaxSegs = 2
  MaxHour = 1
PROPERTY SegmentsGrow
CHECK_DEADLOCK FALSE
