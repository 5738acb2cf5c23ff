SPECIFICATION Spec
VIEW StateView
CONSTANTS
    ann = ann
    bob = bob
    cy = cy
    gov = gov
    holder = holder
    Gov = gov
    Holder = holder
    Address <- MCAddress
    Unsanctionable <- MCUnsanctionable
    Blocked <- MCBlocked
    ProposalId <- MCProposalId
    NewParams <- MCParams
    Balances <- MCBalances
    GenesisRecords <- MCRecords
    GovMinDeposit = 2
    Amounts = {1}
    Proposals <- MCProposals
    Members = {bob}
    Answers <- MCAnswers
    Updates <- MCUpdates
INVARIANTS  FundsHolderBalance RecordsFound
PROPERTIES ReleasedInFull MovesAllowed
CHECK_DEADLOCK FALSE
