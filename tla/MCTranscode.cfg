SPECIFICATION Spec
CONSTANTS
  FrameSize = 1024
  SampleRate = 44100
  TimeBaseDen = 90000
  FrameLens <- MCFrameLens
  FramesPerPacket <- MCFramesPerPacket
  DecCap = 2
  EncDelay = 1
  IntMax = 4095
  Faults <- MCFaults
  MaxPackets = 4
  MaxAvio = 2
INVARIANTS
  TypeOK
  SampleConservation
  FifoPhases
  SessionAccount
PROPERTIES
  ContiguousTimeline
  SessionEnds
  StreamSpec
