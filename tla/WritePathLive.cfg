SPECIFICATION MCSpec
CONSTANTS
  w1 = w1
  w2 = w2
  NYC = NYC
  SF = SF
  Writer <- Writers2
  Value <- Cities
  AddRequest <- LiveAdds
  Kinds <- AllKinds
  MaxOps = 2
  MaxRetries = 2
  MaxTime = 18
  Scenes = {"calls", "pairs"}
SYMMETRY LiveSymmetry
INVARIANTS
  TypeOK
  ClosedHasSuccessor
  OneCurrentFact
  EditsDoNotBranch
  ChainIsHistory
  
  RaceIsWon
PROPERTIES
  ConflictMeansProgress
CHECK_DEADLOCK FALSE
