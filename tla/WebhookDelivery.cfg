SPECIFICATION FairSpec
CONSTANTS
  w1 = w1
  w2 = w2
  ev1 = ev1
  ep1 = ep1
  None = none
  Workers <- MCWorkers
  Events <- MCOneEvent
  Endpoints <- MCOneEndpoint
  Subscriptions <- MCOneSubscription
  BatchSize = 2
  Timeout = 1
  Slack = 2
  LookupTime = 1
  WriteTime = 0
  LeaseTrip = 1
  MaxAttempts = 2
  RetryDelay <- MCRetryDelay
  MaxReplays = 1
  MaxFaults = 1
CHECK_DEADLOCK FALSE
INVARIANTS
  OneRequestAtATime
  RepetitionsAreFaults
  AcceptedIsRecorded
PROPERTIES
  GivesUpForAReason
  OnlyReplaysAreSweptUnsent
  EveryDeliverySettles
