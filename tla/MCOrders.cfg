SPECIFICATION Spec
CONSTANTS
    ann = ann
    bob = bob
    mktOne = mktOne
    mktTwo = mktTwo
    collector = collector
    castAnn = castAnn
    castBob = castBob
    apple = apple
    usd = usd
    one = one
    two = two
    x1 = x1
    x2 = x2
    NoExt = NoExt
    NoOrder = NoOrder
    NoTarget = NoTarget
    NoMsg = NoMsg
    FeeCollector = collector
    MaxOrders = 3
    MaxSettle = 2
    MaxCommitted = 9
    ExternalId = {x1, x2}
    Denom <- MCDenom
    Holder <- FewHolders
    Account <- MCUser
    User <- MCUser
    Party <- MCUser
    Market <- OneMarket
    MarketAddr <- MCMarketAddr
    CastAddr <- NoCast
    ExchangeSplit <- MCSplit
    InitialFunds <- MCFunds
    InitialFees <- MCFees
    OrderInputs <- MCOrders
    CreationFees <- OfferedFees
    FillFees <- OneUsd
    FeeChanges <- Nothing
    CommitAmounts <- Nothing
    ReleaseInputs <- Nothing
    SettleInputs <- Nothing
    MoveAmounts <- Nothing
    TransferAmounts <- Nothing
    PaymentId <- Nothing
    Offers <- Nothing
    Managed <- OneMarket
    Closable <- Nothing
INVARIANTS
    
    OrderIndexesExact
PROPERTIES
    
    OrdersKeepTheirTerms
CHECK_DEADLOCK FALSE
