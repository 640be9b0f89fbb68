CONSTANTS
    m1 = m1
    m2 = m2
    w1 = w1
    w2 = w2
    Mails <- MCMails
    Workers <- MCWorkers
    BatchSize = 2
    MaxAttempts = 2
    ClaimLimit = 3
    MaxLosses = 2
SPECIFICATION FairSpec
CHECK_DEADLOCK FALSE
INVARIANTS
    DroppedForAReason
    OneSettler
PROPERTIES
    KeepsPromise
    EveryMailSettles
