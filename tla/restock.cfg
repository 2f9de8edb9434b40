SPECIFICATION FairSpec
CONSTANTS
    mug = mug
    shirt = shirt
    mugRow = mugRow
    small = small
    large = large
    NumOrders = 2
    Products <- MCProducts
    Skus <- MCSkus
    ProductOf <- MCProductOf
    VariantSkus <- MCVariantSkus
    InitialSkus <- MCInitialSkus
    InitialStock <- MCInitialStock
    Baskets <- MCBaskets
    Deltas <- MCDeltas
    NewUnits <- MCNewUnits
    Retracked <- MCRetracked
    MaxStock = 1
    BatchLimit = 1
INVARIANTS
    RestockCannotFail
