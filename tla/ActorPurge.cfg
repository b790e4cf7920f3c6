SPECIFICATION Spec
CONSTANTS
  p1 = p1
  p2 = p2
  p3 = p3
  m1 = m1
  m2 = m2
  m3 = m3
  Process <- ThreeProcesses
  Id <- ThreeIds
  MaxOps = 2
  Kinds <- WritesAndPurge
SYMMETRY ActorSymmetry
INVARIANTS
  TypeOK
  ReferencesIntact
PROPERTIES
  LoneWriteRepairsProfile
  PurgeErases
CHECK_DEADLOCK FALSE
