\* One request at a time, two capture loops, three ffmpeg processes, two
\* hours.
SPECIFICATION Spec
CONSTANTS
  f1 = f1
  f2 = f2
  NoFrame = NoFrame
  Torn = Torn
  Frames <- OneFrame
  Undecoded = {}
  Configs <- RaceConfigs
  Default <- MCOff
  Handlers = {1}
  MaxGen = 2
  MaxSegs = 3
  MaxHour = 1
INVARIANTS
  TypeOK
  WriterUsable
  SingleWriter
  FfmpegReaped
  FrameInItsHour
  JpegAlone
PROPERTIES
  FootageProvided
CHECK_DEADLOCK FALSE
