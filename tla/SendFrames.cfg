\* Two transfers, byte-wise IVs of three bytes, and buckets of one and two frames
CONSTANTS
  Base = 2
  IVSize <- MCIVSize
  Salts <- MCSalts
  k1 = k1
  k2 = k2
  KeyFiles = {k1, k2}
  MaxSessions = 2
  MaxFrames = 6
  MaxLosses = 1
  Bandwidths = {0, 9, 17, 134}
  Buckets = 2
  Bucket = 2
  FrameBytes = 4
  IntSpan = 64
  MaxClock = 4
SPECIFICATION Spec
INVARIANTS TypeOK NonceOnce OpensInStep RateBound
PROPERTIES KeyedFramesOnly
CHECK_DEADLOCK FALSE
SYMMETRY KeySymmetry
