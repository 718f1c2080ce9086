SPECIFICATION MCSpec
CONSTANTS
    NPAGE = 21
    Task = {t1, t2}
    NMM = 4
    VaTop = 8
    Span <- MCSpan
    HeapStart = 1
    Stack <- MCStack
    PGSIZE = 2
    Word = 32
    Increments <- MCIncrements
    Top = 8
    STACK_PGSIZE = 4
    INFO_SIZE = 1
    UC_SIZE = 2
    Val = {0, 1}
INVARIANTS
    PagesAccounted
    AreasSound
    FrameSound
PROPERTIES
    RemapKeeps
    LiveStackKept
    ContextRestored
VIEW Moving
