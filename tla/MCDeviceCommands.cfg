SPECIFICATION Spec
CONSTANTS
    Contacts = {c1, c2}
    NoContact = NoContact
    ContactCapacity = 2
    MaxMail = 2
    MaxCommands = 2
    MaxBatch = 2
    HistoryEnabled = TRUE
INVARIANTS SessionsAreClosed TemporarySettingIsRestored 
PROPERTY OnlyWhatWasAsked
