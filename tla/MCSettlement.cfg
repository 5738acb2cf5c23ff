SPECIFICATION FairSpec
CONSTANTS
    ast = ast
    usd = usd
    gas = gas
    Seller = Seller
    Buyer = Buyer
    Other = Other
    AnyMarket = AnyMarket
    NoExt = NoExt
    NoOrder = NoOrder
    Pending = Pending
    Refused = Refused
    ExternalId = {}
    MaxAsks = 3
    MaxBids = 2
    Denom <- MCDenom
    Account <- MCAccount
    Market <- MCMarket
    Inputs <- MCInputs
INVARIANTS
    OnlyInputsRefused
    FlowsBalance
PROPERTIES
    ImplementsContract
    Returns
CHECK_DEADLOCK FALSE
