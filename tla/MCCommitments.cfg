SPECIFICATION Spec
CONSTANTS
    ann = ann
    bob = bob
    mktOne = mktOne
    mktTwo = mktTwo
    collector = collector
    castAnn = castAnn
    castBob = castBob
    apple = apple
    usd = usd
    one = one
    two = two
    x1 = x1
    x2 = x2
    NoExt = NoExt
    NoOrder = NoOrder
    NoTarget = NoTarget
    NoMsg = NoMsg
    FeeCollector = collector
    MaxOrders = 3
    MaxSettle = 2
    MaxCommitted = 2
    ExternalId = {x1, x2}
    Denom <- MCDenom
    Holder <- MCHolder
    Account <- MCUser
    User <- MCUser
    Party <- MCUser
    Market <- TwoMarkets
    MarketAddr <- MCMarketAddr
    CastAddr <- MCCast
    ExchangeSplit <- MCSplit
    InitialFunds <- TinyFunds
    InitialFees <- OneFee
    OrderInputs <- Nothing
    CreationFees <- Free
    FillFees <- Free
    FeeChanges <- Nothing
    CommitAmounts <- OneUsd
    ReleaseInputs <- MCReleases
    SettleInputs <- MCSettles
    MoveAmounts <- OneUsd
    TransferAmounts <- Nothing
    PaymentId <- Nothing
    Offers <- Nothing
    Managed <- Nothing
    Closable <- Nothing
INVARIANTS
    HoldBacked
CHECK_DEADLOCK FALSE
