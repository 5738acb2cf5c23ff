SPECIFICATION FairSpec
CONSTANTS
    ann = ann
    Limiter = {l1}
    NoContract = none
    Channel = {"channel-0", "channel-1"}
    Counterparty <- MCCounterparty
    Contract = {good, bad}
    Account = {ann}
    Broken = {bad}
    Memos <- MCMemos
    AllowLists <- MCAllowLists
    Outgoing = {"channel-1"}
    MaxPackets = 2
INVARIANTS CreditedUnlessRefused UndoneIfReturned CallbacksExact AckedByTaker
PROPERTIES PacketsEnd
