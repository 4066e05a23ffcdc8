CONSTANTS
    EventIds = {e1}
    ChannelCapacity <- SmallestCapacity
    AllowSend = TRUE
    SnapshotSize <- SmallestSnapshot
SPECIFICATION FairSpec
CHECK_DEADLOCK FALSE
INVARIANTS LinkIsFollowed ExactlyOnce
PROPERTY EndStopsAll
