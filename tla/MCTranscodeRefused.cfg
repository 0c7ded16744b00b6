SPECIFICATION Spec
CONSTANTS
  FrameSize = 1024
  SampleRate = 44100
  TimeBaseDen = 90000
  FrameLens <- MCFrameLens
  FramesPerPacket <- TwoFramesPerPacket
  DecCap = 2
  EncDelay = 1
  IntMax = 4095
  Faults <- NoFaults
  MaxPackets = 4
  MaxAvio = 2
INVARIANT
  NoPacketRefused
