SPECIFICATION FairSpec
CONSTANTS
    Proc = {p1, p2, p3, p4}
    Cpu = {c1, c2}
    Chan = {ch1, ch2}
    InitProc = p1
    NoProc = NoProc
    NoCpu = NoCpu
    NoChan = NoChan
INVARIANTS
    QueueSound
    RunnableIsHeld
    StackExclusive
    LockHandover
PROPERTIES
    NoStarvation
    ImplementsLife
