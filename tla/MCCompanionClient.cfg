CONSTANTS
    Codes = {k1, k2}
    PendingCapacity = 1
    CompletedCapacity = 1
    Kinds = {"ok", "contacts", "send", "remote", "bye"}
    DrainCapacity = 1
    FaultSets = {{"refuse", "mute"}, {"late", "refuse", "mute", "malformed", "carry", "connect_twice"}}
    MaxRequests = 3
    MaxInFlight = 2
SPECIFICATION FairClientSpec
INVARIANTS AnswersAreMatched SessionsAreSeparate
PROPERTIES RequestEndsWhenQuiet TrackerSpec
