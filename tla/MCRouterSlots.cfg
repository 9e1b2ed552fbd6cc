SPECIFICATION Spec
CONSTANTS
    a1 = a1
    a2 = a2
    m1 = m1
    m2 = m2
    f1 = f1
    f2 = f2
    f3 = f3
    Addr = {a1, a2}
    Mac = {m1, m2}
    NoMac = NoMac
    NoAddr = NoAddr
    MaxSlot = 2
    OkTimeout = 1
    NgTimeout = 0
    Frame = {f1, f2}
    NoFrame = NoFrame
    Ingress <- OneWay
    NextHop <- OneEach
    Size <- FirstIsBig
    Host <- TwoHosts
    MaxBucket = 1
    Word = 8
INVARIANTS NullSafe  RightMac RequestedOnce
PROPERTIES StrandedOnlyByPark
