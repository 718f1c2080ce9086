SPECIFICATION FairSpec
CONSTANTS
    NPROC = 3
    MaxPid = 4
    Calls <- AnyCalls
INVARIANTS
    FamilySound
    NoLostWakeup
PROPERTIES
    OrphansReaped
CHECK_DEADLOCK FALSE
