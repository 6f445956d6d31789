SPECIFICATION FairSpec
CONSTANTS
    Clients = {c1, c2}
    Subscribers = {c1, c2}
    Paths = {p, q}
    Nodes = {n1, n2}
    StorageSrv = StorageSrv
    Publishers = {StorageSrv}
    Nobody = Nobody
    None = None
    MaxOpens = 2
    MaxSteps = 2
CHECK_DEADLOCK FALSE
INVARIANTS
    TypeOK
    FilesConsistent
    CloseNotMissed
    FlagAllocated
PROPERTIES
    FilesKept
    OpenEnds
    RemovalNoticed
