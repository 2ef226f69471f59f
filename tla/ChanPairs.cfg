SPECIFICATION FairSpec
CONSTANTS
    p = p
    q = q
    g = g
    h = h
    Thread <- ThreadPGH
    Prog <- ProgPairs
    Size <- Size12
    BroadcastShape <- Bcast22
    NoBroadcast = NoBroadcast
    NoThread = NoThread
    Null = Null
    NoMsg = NoMsg
INVARIANTS
    IndInv
    CriticalSection
    ExactFanout
    StaysUp
    UnreadIsReachable
    SelectsElement
PROPERTIES
    ImplementsAirChannel
    AllFinish
