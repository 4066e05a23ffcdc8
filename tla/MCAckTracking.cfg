CONSTANTS
    Codes = {k1, k2, k3}
    PendingCapacity = 2
    CompletedCapacity = 2
SPECIFICATION Spec
SYMMETRY CodeSymmetry
INVARIANTS TrackersConsistent StoredAckIsFresh KeptUntilCapacity NothingLeftBehind
