SPECIFICATION Spec
CONSTANTS
    Sources <- MCSources
    Faults <- MCFaults
    Delays <- MCDelays
    MaxTicks = 2
INVARIANTS TypeOK RightHandler Acknowledged MasksRestored
PROPERTIES PanicIsFinal Served SleepReturns
CHECK_DEADLOCK FALSE
