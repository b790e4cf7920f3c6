SPECIFICATION MCSpec
CONSTANTS
  w1 = w1
  w2 = w2
  NoWorker = NoWorker
  Worker <- TwoWorkers
  Tenants = 2
  Source <- FourSources
  Owner <- OwnerOf4
  Poison = {1}
  Cost = 2
  Lease = 2
  Batch = 3
  Poll = 1
  Timeout = 60
  LeaseTime = 600
  Duration = {0, 20, 60}
  MaxFound = 2
  MaxCrashes = 1
INVARIANTS
  TypeOK
  OneExtraction
  PassWithinLease
PROPERTIES
  EveryHealthySourceExtracted
