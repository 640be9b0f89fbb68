SPECIFICATION FairSpec
CHECK_DEADLOCK FALSE
CONSTANTS
  w1 = w1
  w2 = w2
  m1 = m1
  None = None
  Workers <- MCWorkers
  Migrations <- MCOneMigration
  Regions <- MCRegions
  InitialRegion = "us"
  Keys <- MCKeys
  Schemas <- MCSchemas
  MaxAttempts = 2
  MaxWrites = 1
  MaxFailures = 1
  MaxFaults = 1
INVARIANTS
  PlacementMatchesMigrations
  MovesOnProof
PROPERTIES
  ClosedIsFinal
  CutoverMissesOnlyLateWrites
  EveryMigrationEnds
  QuietMigrationOutcome
