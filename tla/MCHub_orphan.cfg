\* A client joins the room it is alone in.
CONSTANTS
    Clients = {1, 2}
    Rooms = {r1, r2}
    NoRoom = NoRoom
    MaxPeers = 2
    QueueCap = 2
    MaxServed = 3
    Requests <- Moves
SPECIFICATION Spec
INVARIANTS
    JoinedRoomIsListed
