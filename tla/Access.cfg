SPECIFICATION MCSpec
CONSTANTS
  k1 = k1
  k2 = k2
  t1 = t1
  t2 = t2
  o1 = o1
  o2 = o2
  s1 = s1
  s2 = s2
  acme = acme
  umbrella = umbrella
  Undefined = Undefined
  Blank = Blank
  Nobody = Nobody
  Key = {k1, k2}
  Thread = {t1, t2}
  Operator = {o1, o2}
  Server = {s1, s2}
  TenantId = {acme, umbrella}
  External = {"acme"}
  Capacity = 1
  Period = 2
  MaxTime = 4
  MaxRequests = 2
SYMMETRY AccessSymmetry
INVARIANTS
  TypeOK
  KeysShareTenant
  OnlyLiveKeysPass
  RateHeld
  TenantsApart
PROPERTIES
  SpacedNeverRefused
CHECK_DEADLOCK FALSE
