SPECIFICATION Spec
CONSTANTS
    NPROC = 3
    MaxPid = 5
    Calls <- NoKill
INVARIANT
    SigchldToParent
CHECK_DEADLOCK FALSE
