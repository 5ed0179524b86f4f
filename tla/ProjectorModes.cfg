SPECIFICATION FairSpec
CONSTANTS
    Setups <- MCSetups
    Capacity = 1
    SignalCapacity = 1
    MaxEvents = 2
INVARIANTS DrainedWhenOk NoEventSentTwice
PROPERTIES ShutdownEnds SentIsCommitted LagCatchesUp
CHECK_DEADLOCK FALSE
