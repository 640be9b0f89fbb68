SPECIFICATION Spec
CONSTANTS
  alice = alice
  bob = bob
  a1 = a1
  a2 = a2
  k1 = k1
  k2 = k2
  k3 = k3
  offline = offline
  Offline = offline
  Users <- MCOneUser
  Artifacts <- MCArtifacts
  Deployable <- MCDeployable
  Keys <- MCKeys
  StagingPolicies <- MCStagingPolicies
  ProductionPolicies <- MCSelfApprovedProduction
  InitialRoles <- MCOneAdmin
  RoleChoices <- MCNoRoles
  Plans <- MCOnePlan
  MaxOperations = 5
  MaxRefusals = 0
SYMMETRY KeySymmetry
CHECK_DEADLOCK FALSE
INVARIANTS
  RecoveryIsNeverStuck
  HistoryAccountsForPointer
  ProductionWasVerifiedOnStaging
PROPERTIES
  PointerMovesByOneOperation
  ImplementsReleaseLog
