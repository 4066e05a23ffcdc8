SPECIFICATION Spec
CONSTANTS
    Adapters = {a1, a2}
    Packets = {p1}
    MaxNotes = 1
INVARIANTS NothingIsLeftBehind ReadsWhatIsNotified
PROPERTY EverythingEnds
