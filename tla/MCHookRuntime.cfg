SPECIFICATION HookSpec
CONSTANTS
  Calls = {a, b}
  MaxConcurrency = 1
  Kinds = {"validate", "observe", "before_send"}
INVARIANTS CallsAreCleanedUp OnlyCheckedAnswersCount
PROPERTY CallEnds
