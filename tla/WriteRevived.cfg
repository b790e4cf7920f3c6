SPECIFICATION MCSpec
CONSTANTS
  w1 = w1
  w2 = w2
  NYC = NYC
  SF = SF
  Writer <- Writers2
  Value <- Cities
  AddRequest <- LiveAdds
  Kinds <- AddsAndForgets
  MaxOps = 2
  MaxRetries = 2
  MaxTime = 12
  Scenes = {"calls"}
SYMMETRY LiveSymmetry
PROPERTIES
  TombstoneIsFinal
CHECK_DEADLOCK FALSE
