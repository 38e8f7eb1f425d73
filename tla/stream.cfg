SPECIFICATION Spec
CONSTANTS
  W = 8
  K = 2
  Lengths = {1, 2}
  Skips = {0, 2}
  Offsets <- MCOffsets
  Limit = 1
  Late = 3
  MaxGap = 3
  MaxFrames = 11
INVARIANTS InPlace NothingMissing
PROPERTIES FreshTaken ReadInTurn
