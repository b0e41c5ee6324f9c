CONSTANTS
    v1 = v1
    v2 = v2
    v3 = v3
    p1 = p1
    p2 = p2
    None = None
    NoProc = NoProc
    Versions = {v1, v2}
    Procs = {p1, p2}
    Factory <- OverlayFactory
    Releases <- PlanReleases
    Requests <- PlanRequests
    MaxKills = 1
    MaxFaults = 1
SPECIFICATION FairSpec
INVARIANT
    DeliveredOrObstructed
PROPERTIES
    RebootsEnd
