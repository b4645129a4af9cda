CONSTANTS
  ToneCh = 0
  DrumCh = 9
  Parts = {0, 9}
  Maps = {0, 1, 2}
  Banks = {0, 1}
  Programs = {0, 1}
  Default = 0
  FirstBank = 0
  FirstProgram = 0
  Patches <- MCPatches
  RowCounts = {1, 2}
  Kinds = {"plugin", "none"}
  Messages = {"program", "bank", "reset"}
  MaxInputs = 2
  MaxViews = 1
SPECIFICATION Spec
INVARIANTS EditorAgrees
PROPERTIES MapKeepsInstrument SelectionShown
CHECK_DEADLOCK FALSE
