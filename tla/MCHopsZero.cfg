SPECIFICATION Spec
CONSTANTS
    A = A  B = B  h0 = h0  a0 = a0  a1 = a1  b1 = b1  b2 = b2  h2 = h2
    gw = gw  spare = spare
    C = C  D = D  h3 = h3  c3 = c3  c4 = c4  d3 = d3  d4 = d4
    out = out
    Addr <- Nodes
    Port <- Ports
    Segment = {0, 1, 2, 3, 4}
    SegmentOf <- Subnets
    Router = {A, B, C, D}
    Device <- Devices
    NextRouter <- Nexts
    None = None
    TtlRange = 8
    IcmpTtl = 5
INVARIANTS ZeroTtlIsError
CHECK_DEADLOCK FALSE
