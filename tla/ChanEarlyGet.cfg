SPECIFICATION Spec
CONSTANTS
    p = p
    q = q
    g = g
    h = h
    Thread <- ThreadPG
    Prog <- ProgLast
    Size <- Size22
    BroadcastShape <- Bcast22
    NoBroadcast = NoBroadcast
    NoThread = NoThread
    Null = Null
    NoMsg = NoMsg
INVARIANTS
    StaysUp
