SPECIFICATION FairSpec
CONSTANTS
  Capacity = 2
  TrackerCapacity = 1
  Attempts = 2
  Modes = {"chat", "watch"}
  MaxMessages = 2
  MaxLines = 2
  MaxMail = 1
  MaxLosses = 2
  MaxAttempts = 2
INVARIANTS SessionIsFollowed MessagesAreAccountedFor
PROPERTY InterruptEnds
