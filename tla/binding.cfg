SPECIFICATION FairPaySpec
CHECK_DEADLOCK FALSE
CONSTANTS
    mug = mug
    mugRow = mugRow
    NumOrders = 1
    Products <- MCProducts
    Skus <- MCSkus
    ProductOf <- MCProductOf
    VariantSkus = {}
    InitialSkus <- MCSkus
    InitialStock <- MCInitialStock
    Baskets <- MCBaskets
    Deltas = {}
    NewUnits = {}
    Retracked = {}
    MaxStock = 1
    BatchLimit = 1
    Txns = {t1, t2}
    NoTxn = NoTxn
    Charges <- MCCharges
    Announced = {"PENDING", "PAID"}
    Handlers = {h1}
    Hinted = {t1}
    AccountScoped = TRUE
    Searchable = TRUE
    Decisions <- MercadoPagoDecisions
    SignedStatus = FALSE
    MaxFailures = 0
INVARIANTS
    PayTypeOK
    SettledByItsOwnCharge
    VerifiedRefIsOwn
