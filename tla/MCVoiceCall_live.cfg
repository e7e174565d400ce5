\* Liveness: only the peer with the larger id can reach the other unasked.
CONSTANTS
    Peers = {1, 2}
    Opens <- DownwardOnly
    MaxResends = 1
    MaxSeq = 0
    MaxDrops = 1
SPECIFICATION FairSpec
PROPERTIES
    PeersConnect
