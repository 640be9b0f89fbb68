SPECIFICATION ScheduleSpec
CONSTANTS
  alice = alice
  bob = bob
  a1 = a1
  a2 = a2
  k1 = k1
  k2 = k2
  k3 = k3
  offline = offline
  w1 = w1
  w2 = w2
  Offline = offline
  Users <- MCOneUser
  Artifacts <- MCOneArtifact
  Deployable <- MCDeployable
  Keys <- MCOneKey
  StagingPolicies <- MCStagingPolicies
  ProductionPolicies <- MCApprovalComesAndGoes
  InitialRoles <- MCOneAdmin
  RoleChoices <- MCNoRoles
  Plans <- MCOnePlan
  MaxOperations = 2
  MaxRefusals = 0
  Workers <- MCOneWorker
  MaxAttempts = 1
  MaxSchedules = 2
  MaxCrashes = 0
CHECK_DEADLOCK FALSE
INVARIANTS
  EndUndoesItsOwnStart
  AwaitedIsPendingOrOvertaken
