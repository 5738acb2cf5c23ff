SPECIFICATION Spec
CONSTANTS
    ann = ann
    bob = bob
    gov = gov
    fee = fee
    ibc = ibc
    mAst = mAst
    mUsd = mUsd
    ast = ast
    usd = usd
    Denom <- MCDenom
    Address <- MCAddress
    MarkerAddr <- MCMarkerAddr
    NoAddress = NoAddress
    IbcDenom = {}
    Attribute <- MCAttribute
    FeeCollector = fee
    ModuleSender = {ibc}
    ReqAttrBypass = {gov}
    AttributesOf <- MCAttributesOf
    Authority = gov
    Usd = usd
    Blocked = {gov, fee}
    Keyed = {ann, bob}
    IbcEscrow = ibc
    OpenDenom = {ast}
    EnableGovernance = FALSE
    BurnedElsewhere = {ast}
    InitialFunds <- MCInitialFunds
    InitialSupply <- MCInitialSupply
    InitialMaxSupply = 2
    MaxRecorded = 2
    Caller = {ann, bob, gov}
    NewMarkers <- LifeMarkers
    Grants <- LifeGrants
    Amounts = {1}
    Limits <- MCLimits
    DenyTargets = {bob}
    AttrChanges <- MCChanges
    NewMaxSupplies = {2}
    Agents = {{}, {ann}}
INVARIANTS
    SupplyInvariant
    NothingLeft
PROPERTIES
    FeeCollectorKeptOut
    MovedByConsent
VIEW StateView
