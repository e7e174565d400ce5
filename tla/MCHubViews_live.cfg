\* Liveness: two clients, one room, fair goroutines.
CONSTANTS
    Clients = {1, 2}
    Rooms = {r1}
    NoRoom = NoRoom
    MaxPeers = 2
    QueueCap = 3
    MaxServed = 3
    Requests <- AllButLeaving
SPECIFICATION FairViewSpec
PROPERTIES
    DeadPeerIsNoticed
    HelloIsAnswered
