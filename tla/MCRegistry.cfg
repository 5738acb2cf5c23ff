SPECIFICATION MCSpec
CONSTANTS
    ann = ann
    gov = gov
    mod = mod
    s1 = s1
    s2 = s2
    sp = sp
    c1 = c1
    c2 = c2
    MaxLoad = 5
    Address <- MCAddress
    Segment = {"data", "root", "sub"}
    SegLen <- MCSegLen
    Uuid = {}
    Authority = gov
    Account = {ann}
    Value = {"x", "y"}
    ValueLen <- MCValueLen
    Type = {"string"}
    AccountData <- MCAccountData
    AttrModule = mod
    GenesisNames <- MCNames
    GenesisParams <- MCParams
    NoValue = none
    Limit = 1
    Dates <- MCDates
    Records <- MCRecords
    Names <- MCNamesSaid
    Keys <- MCKeys
    NewNameParams <- MCNewParams
    MaxLengths = {1, 2}
    MaxTime = 2
    MaxCount = 3
    Scope = {s1, s2}
    ContractSpec = {c1, c2}
    Role = {"owner"}
    Blocked = {mod}
    Granted <- MCGranted
    NoAddr = none
    GenesisScopeSpecs <- MCScopeSpecs
    GenesisContractSpecs <- MCContractSpecs
    GenesisRecordSpecs <- MCRecordSpecs
    ScopeWrites <- MCScopeWrites
    SessionWrites <- MCSessionWrites
    RecordNames = {"q", "r"}
    ScopeSpecWrites <- MCScopeSpecWrites
    ContractSpecWrites <- MCContractSpecWrites
    RecordRoles <- MCRecordRoles
    NewParties <- MCNewParties
    Readers = {gov}
    Signers <- MCSigners
INVARIANTS  NothingDangles
PROPERTIES LateOnesGo ValueOwnerConsents
