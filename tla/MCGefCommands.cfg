SPECIFICATION Spec
CONSTANTS
    Cells = {1, 2, 3}
    Threads = {1, 2}
    HeapSize = 4
    MaxChunk = 3
    Width = 3
    MemSize = 5
    Letters = 3
    MaxInsn = 2
    CodeSize = 4
    MaxTrace = 3
    MaxCalls = 3
    Alphabet = {1, 2}
    Page = 2
    VpnBits = 2
    OffBits = 2
    HighBits = 2
INVARIANTS
    HeapShown
    BranchPredicted
    ScanExact
    EditsExact
    ViewsExact
    ScriptsExact
PROPERTIES
    CommandsEnd
CHECK_DEADLOCK FALSE
