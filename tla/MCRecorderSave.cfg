\* Two requests at a time and three capture loops; two frames,
\* one of which does not decode; no video.
SPECIFICATION Spec
CONSTANTS
  f1 = f1
  f2 = f2
  NoFrame = NoFrame
  Torn = Torn
  Frames <- TwoFrames
  Undecoded = {f2}
  Configs <- SaveConfigs
  Default <- MCOff
  Handlers = {1, 2}
  MaxGen = 3
  MaxSegs = 0
  MaxHour = 0
INVARIANTS
  OneLiveLoop
  ConfigPersisted
CHECK_DEADLOCK FALSE
