SPECIFICATION Spec
CONSTANTS
    Signals = {4, 5, 7, 8}
    MultiCore = TRUE
    Catch = {5}
    Masks = {{}, {5}}
    Unblock = FALSE
    MaxFrames = 2
INVARIANT
    StateSound
