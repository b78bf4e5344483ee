\* Two peers with up to two connections each, two browsers, two crashes.
SPECIFICATION FairSpec
CONSTANTS
    i1 = i1
    i2 = i2
    p1 = p1
    p2 = p2
    b1 = b1
    b2 = b2
    Ids <- TwoIds
    Peers <- TwoPeers
    Clients <- TwoClients
    MaxConns = 2
    MaxCrashes = 2
INVARIANTS
    TypeOK
    IdentityIsStable
    CountIsNear
PROPERTIES
    ClientsLearn
