\* One loop that skips unchanged frames.
SPECIFICATION Spec
CONSTANTS
  f1 = f1
  f2 = f2
  NoFrame = NoFrame
  Torn = Torn
  Frames <- OneFrame
  Undecoded = {}
  Configs <- LiveConfigs
  Default <- MCOff
  Handlers = {1}
  MaxGen = 1
  MaxSegs = 2
  MaxHour = 1
INVARIANT RecordingMeansStored
CHECK_DEADLOCK FALSE
