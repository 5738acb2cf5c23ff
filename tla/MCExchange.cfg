SPECIFICATION Spec
CONSTANTS
    ann = ann
    bob = bob
    mktOne = mktOne
    mktTwo = mktTwo
    collector = collector
    castAnn = castAnn
    castBob = castBob
    apple = apple
    usd = usd
    one = one
    two = two
    x1 = x1
    x2 = x2
    NoExt = NoExt
    NoOrder = NoOrder
    NoTarget = NoTarget
    NoMsg = NoMsg
    FeeCollector = collector
    MaxOrders = 1
    MaxSettle = 1
    MaxCommitted = 9
    ExternalId = {x1, x2}
    Denom <- MCDenom
    Holder <- FewHolders
    Account <- MCUser
    User <- MCUser
    Party <- MCUser
    Market <- OneMarket
    MarketAddr <- MCMarketAddr
    CastAddr <- NoCast
    ExchangeSplit <- MCSplit
    InitialFunds <- TinyFunds
    InitialFees <- CommitFees
    OrderInputs <- FewOrders
    CreationFees <- OneUsd
    FillFees <- Free
    FeeChanges <- DropFee
    CommitAmounts <- OneUsd
    ReleaseInputs <- Nothing
    SettleInputs <- OneSwap
    MoveAmounts <- Nothing
    TransferAmounts <- OneUsd
    PaymentId <- OneId
    Offers <- MCOffers
    Managed <- Nothing
    Closable <- OneMarket
INVARIANTS
    
    
    PaymentIndexExact
PROPERTIES
    AcceptedAsSigned
CHECK_DEADLOCK FALSE
