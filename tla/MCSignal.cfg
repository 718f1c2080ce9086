SPECIFICATION Spec
CONSTANTS
    Signals = {4, 5, 6, 7, 8}
    MultiCore = FALSE
    Catch = {5, 6}
    Masks = {{}, {5}}
    Unblock = FALSE
    MaxFrames = 2
INVARIANTS
    ContResumes
    PendingExact
    StateSound
