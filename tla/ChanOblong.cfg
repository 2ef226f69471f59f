SPECIFICATION Spec
CONSTANTS
    p = p
    q = q
    g = g
    h = h
    Thread <- ThreadPG
    Prog <- ProgOblong
    Size <- Size23
    BroadcastShape <- Bcast23
    NoBroadcast = NoBroadcast
    NoThread = NoThread
    Null = Null
    NoMsg = NoMsg
INVARIANTS
    SelectsElement
