SPECIFICATION FairSpec
CONSTANTS
    Clients = {c1, c2}
    MaxConns = 2
    MaxAttach = 2
    MaxSeq = 2
    MaxShed = 1
INVARIANTS TypeOK NoOrphanMirror 
PROPERTY LostMirrorForgotten
