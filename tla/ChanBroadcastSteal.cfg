SPECIFICATION Spec
CONSTANTS
    p = p
    q = q
    g = g
    h = h
    Thread <- ThreadPGH
    Prog <- ProgBroadcast
    Size <- Size11
    BroadcastShape <- Bcast12
    NoBroadcast = NoBroadcast
    NoThread = NoThread
    Null = Null
    NoMsg = NoMsg
INVARIANTS
    EveryDestinationOnce
