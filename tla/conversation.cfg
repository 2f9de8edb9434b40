SPECIFICATION FairSpec
CONSTANTS
    WhatsApp = {m1}
    Web = {v1}
    FromOf <- OneShopper
    TextOf <- SameText
    Workers = {w1, w2}
    HandoffEnabled = TRUE
    Limit = 1
    MessageLimit = 1
    MaxModelTurns = 1
    Retention = 1
    BatchSize = 1
    MaxPerRun = 2
    MaxConvs = 2
    MaxDeliveries = 2
    MaxNow = 2
    MaxFaults = 1
INVARIANTS
    TypeOK
    BilledOncePerMessage
    OverrunIsBounded
PROPERTIES
    PurgeSparesTheLive
    RetentionBites
CHECK_DEADLOCK FALSE
