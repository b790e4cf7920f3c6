SPECIFICATION MCSpec
CONSTANTS
  w1 = w1
  w2 = w2
  NoWorker = NoWorker
  Worker <- OneWorker
  Tenants = 1
  Source <- ThreeSources
  Owner <- OneOwner
  Poison = {1, 2}
  Cost = 2
  Lease = 3
  Batch = 3
  Poll = 1
  Timeout = 60
  LeaseTime = 600
  Duration = {0, 20, 60}
  MaxFound = 2
  MaxCrashes = 0
PROPERTIES
  EveryHealthySourceExtracted
