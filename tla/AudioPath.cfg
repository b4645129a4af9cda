CONSTANTS
  Half = 2
  Chunk = 5
  Den = 6
  Steps <- FewSteps
  MaxOut = 44
  Rates <- VscRates
  HostRates <- SomeHostRates
  Block = 3
  MaxBlock = 2
  Calls = {2, 7}
SPECIFICATION PathSpec
CHECK_DEADLOCK FALSE
INVARIANTS FramesInOrder MidiPlaysSoon OpensFit NothingLeftBehind
PROPERTY ImplementsResampler
