CONSTANTS
    Addr = {a1, a2}
    Host = {a1}
    Mac = {m1, m2}
    NoMac = NoMac
    NoAddr = NoAddr
    MaxSlot = 2
    OkTimeout = 1
    NgTimeout = 0
    MaxParked = 2
    MaxAnswers = 2
    MaxMoves = 1
SPECIFICATION FairSpec
PROPERTIES Resolves Unstranded Follows
