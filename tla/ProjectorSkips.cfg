SPECIFICATION Spec
CONSTANTS
    Setups <- PollSetups
    Capacity = 1
    SignalCapacity = 1
    MaxEvents = 2
INVARIANTS CursorSkipsNothing
CHECK_DEADLOCK FALSE
