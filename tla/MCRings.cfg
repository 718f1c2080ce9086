SPECIFICATION MCSpec
CONSTANTS
    Elem = {e1, e2, e3}
    NoElem = NoElem
    NPROC = 3
    QUEUE_SIZE = 5
    INPUT_BUF_SIZE = 3
    Word = 6
    Letter = {a, b}
    NL = NL
    CR = CR
    EOF = EOF
    DEL = DEL
    KILL = KILL
    Reader = {p1, p2}
    NoReader = NoReader
    MaxRead = 2
INVARIANTS
    RingSound
    ReaderSound
PROPERTIES
    IsFifo
    IsLineInput
    RoomAgain
