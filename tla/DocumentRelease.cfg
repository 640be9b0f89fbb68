SPECIFICATION Spec
CONSTANTS
  alice = alice
  bob = bob
  a1 = a1
  a2 = a2
  k1 = k1
  k2 = k2
  k3 = k3
  offline = offline
  Offline = offline
  Users <- MCUsers
  Artifacts <- MCArtifacts
  Deployable <- MCDeployable
  Keys <- MCTwoKeys
  StagingPolicies <- MCChangingStaging
  ProductionPolicies <- MCProductionPolicies
  InitialRoles <- MCAdmins
  RoleChoices <- MCRoleChanges
  Plans <- MCTwoPlans
  MaxOperations = 3
  MaxRefusals = 1
SYMMETRY GovernanceSymmetry
CHECK_DEADLOCK FALSE
INVARIANTS
  PendingIsTheAwaitedPromotion
  RejectionIsFinal
PROPERTIES
  FourEyes
  HistoryIsAppendOnly
