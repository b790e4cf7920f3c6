SPECIFICATION Spec
CONSTANTS
  p1 = p1
  p2 = p2
  p3 = p3
  m1 = m1
  m2 = m2
  m3 = m3
  Process <- OneProcess
  Id <- TwoIds
  MaxOps = 4
  Kinds <- WritesAndPurge
SYMMETRY ActorSymmetry
PROPERTIES
  PurgeSucceedsAlone
CHECK_DEADLOCK FALSE
