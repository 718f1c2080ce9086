SPECIFICATION Spec
CONSTANTS
    Signals = {5, 7}
    MultiCore = TRUE
    Catch = {5}
    Masks = {{}}
    Unblock = FALSE
    MaxFrames = 1
INVARIANT
    PendingExact
