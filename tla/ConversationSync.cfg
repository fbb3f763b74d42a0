SPECIFICATION Spec
CONSTANTS
    MaxChats = 2
    MaxIds = 1
    MaxVersion = 2
    MaxCalls = 2
INVARIANTS
    TypeOK
    TimerIsCurrent
    NoCrossTalk
    SavedAtRest
PROPERTIES
    ChangesAreSent
CHECK_DEADLOCK FALSE
