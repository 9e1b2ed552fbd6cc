SPECIFICATION FairSpec
CONSTANTS
    a1 = a1
    a2 = a2
    m1 = m1
    m2 = m2
    f1 = f1
    f2 = f2
    f3 = f3
    Addr = {a1}
    Mac = {m1, m2}
    NoMac = NoMac
    NoAddr = NoAddr
    MaxSlot = 1
    OkTimeout = 1
    NgTimeout = 0
    Frame = {f1, f2, f3}
    NoFrame = NoFrame
    Ingress <- BothWays
    NextHop <- AllToOne
    Size <- FirstIsBig
    Host <- HostEach
    MaxBucket = 1
    Word = 8
INVARIANTS TypeOK BucketCount BucketBound
PROPERTIES ImplementsForwarder Termination 
