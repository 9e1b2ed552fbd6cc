SPECIFICATION MCSpec
CONSTANTS
    Addr = {a1, a2, a3}
    Mac = {m1, m2}
    NoMac = NoMac
    NoAddr = NoAddr
    MaxSlot = 4
    OkTimeout = 1
    NgTimeout = 0
    Block = 2
    MaxPackets = 4
SYMMETRY Alike
INVARIANTS TightTable PointerKept UniqueAddr OneHwaddr
PROPERTIES ImplementsSlots ImplementsBook
