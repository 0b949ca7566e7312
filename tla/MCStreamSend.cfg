SPECIFICATION Spec
CONSTANTS
    Capacity = 5
    MaxCredit = 3
    MaxBytes = 10
    Sizes <- MCSizes
INVARIANTS TypeOK NothingLost StreamIntegrity HalfSentFits
PROPERTIES OldestFirst EventuallySent DeathNoticed
CHECK_DEADLOCK FALSE
