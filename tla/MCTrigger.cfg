SPECIFICATION FairSpec
CONSTANTS
    Owner = {"o1"}
    TriggerEvent <- MCTriggerEvent
    AbciEvent <- MCAbciEvent
    NamePrefix <- MCNamePrefix
    ActionList <- MCActionList
    TxGas = {2, 6, 9}
    MaximumActions = 2
    MaximumQueueGas = 5
    MaximumTriggerGas = 5
    SetGasLimitCost = 1
    WriteCost = 1
    GasMod = 16
    MaxTriggers = 2
    MaxEvents = 2
    MaxHeight = 3
    MaxTime = 1
INVARIANTS
    RegistryConsistent
    ActionsAtomic
    
    GenesisRoundTrip
PROPERTIES
    NestedGasDecreases
    QueuedTriggersRun
