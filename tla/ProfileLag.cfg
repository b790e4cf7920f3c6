SPECIFICATION Spec
CONSTANTS
  p1 = p1
  p2 = p2
  p3 = p3
  m1 = m1
  m2 = m2
  m3 = m3
  Process <- TwoProcesses
  Id <- TwoIds
  MaxOps = 1
  Kinds <- AddsAndForgets
SYMMETRY ActorSymmetry
INVARIANTS
  ProfileNeverLags
CHECK_DEADLOCK FALSE
