SPECIFICATION Spec
CONSTANTS
    Names = {1, 2}
    ImportedProfile = 2
    Devices = {d1, d2}
    NoDevice = NoDevice
    Absent = Absent
    MaxEntry = 3
    OldEntries = 1
    MaxMessages = 2
    Processes = {p1, p2}
    MaxCommands = 3
    Faults = {"kill", "power", "io"}
SYMMETRY Interchangeable
CHECK_DEADLOCK FALSE
INVARIANTS HistoryFollowsProfile ConfigurationIsKept NoLockCycle
PROPERTY ReplacedIsBackedUp
