SPECIFICATION Spec
CONSTANTS
    NPROC = 4
    MaxPid = 5
    Calls <- FourCalls
INVARIANT
    NoDeadlock
CHECK_DEADLOCK FALSE
