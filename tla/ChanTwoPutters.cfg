SPECIFICATION Spec
CONSTANTS
    p = p
    q = q
    g = g
    h = h
    Thread <- ThreadPQ
    Prog <- ProgTwoPutters
    Size <- Size22
    BroadcastShape <- Bcast22
    NoBroadcast = NoBroadcast
    NoThread = NoThread
    Null = Null
    NoMsg = NoMsg
INVARIANTS
    UnreadIsReachable
