SPECIFICATION FairSpec
CONSTANTS
  N = 3
  Devices <- MCDevices
  Tags = {t1}
  FrameMax = 2
  Setups <- MCSetups
INVARIANTS
  TypeOK
  EachValueOnce
PROPERTIES
  OneDeviceFrames
  NothingLeftOver
  SweepEnds
