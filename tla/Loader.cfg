CONSTANTS
  Threads = {t1, t2}
  Images = {i1, i2, i3, i4}
  Slots = 2
  Platforms = {"linux", "win32"}
  Serial = TRUE
  Length = 4
  ArenaLens = {2, 5, 8}
SPECIFICATION LoaderSpec
SYMMETRY Symmetric
INVARIANTS EachFindsItsOwn SlotsAccounted SameProgram LeftIsCounted
CHECK_DEADLOCK FALSE
