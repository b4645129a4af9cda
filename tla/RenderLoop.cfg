CONSTANTS
  MaxEvents = 3
  Songs <- AllSongs
  Block = 4
  Den = 2
  Smpte = 0
  DefaultTempo = 3
  TailTime = 13
  Outputs <- MCOutputs
  NBuf = 2
  CardDepth = 2
  MaxDry = 1
SPECIFICATION ToolSpec
CHECK_DEADLOCK FALSE
INVARIANTS InItsBlock Routed Delivered
PROPERTY RenderEnds
