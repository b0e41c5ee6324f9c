CONSTANTS
    v1 = v1
    v2 = v2
    v3 = v3
    p1 = p1
    p2 = p2
    None = None
    NoProc = NoProc
    Versions = {v1, v2, v3}
    Procs = {p1, p2}
    Factory <- OneFactory
    Releases <- OneReleases
    Requests <- OneRequests
    MaxKills = 2
    MaxFaults = 2
SPECIFICATION Spec
INVARIANTS
    CurrentBoots
    FallbackKept
    FallbackBoots
    NoLeftovers
    DeliveredOrObstructed
PROPERTIES
    NothingDestroyed
    SwitchKeepsFallback
    StoreSpec
