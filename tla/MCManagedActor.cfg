CONSTANTS
    Commands = {r1, r2, r3}
    CommandKinds <- RepresentativeKinds
    QueueCapacity = 1
    MaxEpoch = 1
SPECIFICATION HangingSpec
CHECK_DEADLOCK FALSE
INVARIANT DirtySessionIsNeverUsed
PROPERTIES ImplementsSerialExecutor CallsEnd
