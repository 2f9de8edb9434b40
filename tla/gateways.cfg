SPECIFICATION FairSpec
CONSTANTS
    o1 = o1
    o2 = o2
    Orders = {o1, o2}
    Payments = {1, 2}
    TotalOf <- OddTotals
    MaxClock = 3
    MaxHandling = 2
    MaxFaults = 1
INVARIANTS
    TypeOK
    DuplicateLosesNothing
    EventsTellTheTruth
    LookupAgreesWithEvent
    SearchFindsThePaid
PROPERTIES
    ApprovedIsHeard
CHECK_DEADLOCK FALSE
