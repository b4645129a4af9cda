CONSTANTS
  ToneCh = 0
  DrumCh = 9
  Parts = {0, 9}
  Maps = {0, 1, 2, 3}
  Banks = {0, 1}
  Programs = {0, 1}
  Default = 0
  FirstBank = 0
  FirstProgram = 0
  Patches <- MCPatches
  Builds <- MCBuilds
  LastSet = 2
  Loaded = {2, 5}
  HostWaits = TRUE
  MaxInputs = 2
  MaxLives = 1
SPECIFICATION Spec
INVARIANTS Settles HostTold PresetWhole
PROPERTIES ShownIsSent
CHECK_DEADLOCK FALSE
