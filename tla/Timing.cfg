CONSTANTS
  FPM = 1
  Latency = 7
  Wrap = 8
  Smooth = 16
  Sub = 16
  Block = 2
  MaxBuf = 32
  Readings = {"samples", "none"}
  MaxLag = 2
  MaxTime = 11
  MaxMsgs = 2
SPECIFICATION TimingSpec
CHECK_DEADLOCK FALSE
INVARIANTS PositionExact HeardOnTime NoneOverdue
