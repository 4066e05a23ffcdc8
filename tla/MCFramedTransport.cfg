SPECIFICATION Spec
CONSTANTS
    Base = 4
    DevicePrefix = 3
    AppPrefix = 2
    MaxOuter = 2
    MaxInner = 1
    Packets <- SomePackets
    Payloads <- SomePayloads
    MaxItems = 2
    MaxWrites = 2
    MaxConnections = 2
INVARIANTS StreamIsInStep PacketsAreSafe PayloadsAreExact
PROPERTY PacketsArrive
