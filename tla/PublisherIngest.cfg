SPECIFICATION FairSpec
CONSTANTS
    plain = plain
    h264 = h264
    Pub = {plain, h264}
    NoPub = NoPub
    PmtPid <- MCPmtPid
    HasH264 = {h264}
    RequireH264 = TRUE
    Limit = 3
    Hold = 2
INVARIANTS SilentDropped
PROPERTIES GoodNotRefused WaitingServed StopReturns
