SPECIFICATION Spec
CONSTANTS
  s1 = s1
  s2 = s2
  t1 = t1
  NoOne = NoOne
  Sessions <- MCSessions
  Steps <- MCSteps
  MaxEdits = 2
  MaxRetries = 1
  Limits <- MCLimits
  MaxKinds = 1
SYMMETRY MCSymmetry
CHECK_DEADLOCK FALSE
INVARIANTS
  LockChecksStayValid
  PromisesAreKept
  ConflictsHaveACause
  AutosavesAreUnderWay
PROPERTIES
  EditsSurviveSaves
