\* Three clients move between two rooms of two, and at most one of them fails while a room is open.
CONSTANTS
    Clients = {1, 2, 3}
    Rooms = {r1, r2}
    NoRoom = NoRoom
    MaxPeers = 2
    QueueCap = 1
    MaxServed = 3
    Requests <- MovesAndRelays
SPECIFICATION Spec
CONSTRAINT OneFailure
SYMMETRY RoomSymmetry
INVARIANTS
    TypeOK
    PeersPointBack
    RoomKnowsItsClients
    RoomsAreSound
    RelaysStayInTheRoom
PROPERTIES
    HostMovesToLeast
    ImplementsService
