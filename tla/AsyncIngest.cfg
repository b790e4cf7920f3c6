SPECIFICATION ForgetSpec
CONSTANTS
  c1 = c1
  c2 = c2
  w1 = w1
  w2 = w2
  k1 = k1
  Key = {k1}
  Caller = {c1, c2}
  Worker = {w1, w2}
  NoOne = NoOne
  Lease = 1
  MaxRetries = 2
  MaxTime = 5
SYMMETRY IngestSymmetry
INVARIANTS
  TypeOK
  ExactlyOnce
  ClaimExclusive
  PromptPassKeepsClaim
  ForgottenForGood
PROPERTIES
  ImplementsOnce
