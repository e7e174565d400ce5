\* Two clients, both ways open, one of them talks.
CONSTANTS
    Peers = {1, 2}
    Opens <- AllOpen
    MaxResends = 1
    MaxSeq = 2
    MaxDrops = 1
SPECIFICATION Spec
CONSTRAINT OneTalks
INVARIANTS
    TypeOK
    RoutesFollowTheSession
    SignalsAreFromPeers
    EachFrameOnce
