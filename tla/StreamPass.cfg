SPECIFICATION FairSpec
CONSTANTS
    Clients = {c1}
    RingCap = 2
    ReplayCap = 1
    CoalesceTarget = 2
    ResyncTail = 2
    QueueDepth = 4
    MaxSeq = 3
    MaxMeta = 1
    MaxClaims = 1
    MaxDrops = 1
INVARIANTS TypeOK LabelsHonest HolesWereEvicted NothingShownTwice DrainedMeansCurrent
PROPERTY EventuallyCurrent
