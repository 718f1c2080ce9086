SPECIFICATION FairSpec
CONSTANTS
    Signals = {4, 5, 7, 8}
    MultiCore = FALSE
    Catch = {5}
    Masks = {{}, {5, 7}}
    Unblock = TRUE
    MaxFrames = 2
INVARIANTS
    StateSound
PROPERTIES
    KilledDies
    Delivered
