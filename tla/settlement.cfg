SPECIFICATION FairPaySpec
CHECK_DEADLOCK FALSE
CONSTANTS
    mug = mug
    mugRow = mugRow
    NumOrders = 1
    Products <- MCProducts
    Skus <- MCSkus
    ProductOf <- MCProductOf
    VariantSkus = {}
    InitialSkus <- MCSkus
    InitialStock <- MCInitialStock
    Baskets <- MCBaskets
    Deltas = {}
    NewUnits = {}
    Retracked = {}
    MaxStock = 1
    BatchLimit = 1
    Txns = {t1, t2}
    NoTxn = NoTxn
    Charges <- MCOwnCharges
    Announced = {"PAID", "FAILED"}
    Handlers = {h1, h2}
    Hinted = {}
    AccountScoped = FALSE
    Searchable = FALSE
    Decisions <- WompiDecisions
    SignedStatus = TRUE
    MaxFailures = 1
INVARIANTS
    LedgerPrecedesSettlement
    NoSilentCharge
    AlarmMeansTooLate
PROPERTIES
    LifecycleHolds
    ChargeIsAnswered
