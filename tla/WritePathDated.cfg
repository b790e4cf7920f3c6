SPECIFICATION MCFairSpec
CONSTANTS
  w1 = w1
  w2 = w2
  NYC = NYC
  SF = SF
  Writer <- Writers2
  Value <- Cities
  AddRequest <- DatedAdds
  Kinds <- AddsAndForgets
  MaxOps = 2
  MaxRetries = 2
  MaxTime = 20
  Scenes = {"dated"}
INVARIANTS
  LineageForward
  LatestIsNewest
PROPERTIES
  DeniedByHistoryOnly
  EveryRequestReturns
CHECK_DEADLOCK FALSE
