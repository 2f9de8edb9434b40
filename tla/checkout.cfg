SPECIFICATION FairSpec
CONSTANTS
    t1 = t1
    t2 = t2
    b1 = b1
    b2 = b2
    x = x
    y = y
    Browsers = {b1, b2}
    Tabs = {t1, t2}
    BrowserOf <- OneEach
    EmailOf <- SameEmail
    Items = {x, y}
    Merchants = {m}
    InitialStock <- FewLeft
    InitialJars <- OwnOrShared
    AgentCarts <- AgentBuilt
    InitialLine <- LinesThere
    PoolSize = 2
    MaxCarts = 3
    MaxLines = 4
    MaxEdits = 2
    MaxSubmits = 2
    MaxFaults = 1
INVARIANTS
    TypeOK
    OneOrderPerCart
    OneCustomerPerEmail
    StockAddsUp
    OneTabKeepsItsAdds
    CheckoutsNeverDeadlock
PROPERTIES
    CheckoutEnds
CHECK_DEADLOCK FALSE
