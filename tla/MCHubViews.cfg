\* Two clients, two rooms, channels that take three envelopes.
CONSTANTS
    Clients = {1, 2}
    Rooms = {r1, r2}
    NoRoom = NoRoom
    MaxPeers = 2
    QueueCap = 3
    MaxServed = 4
    Requests <- Moves
SPECIFICATION ViewSpec
CONSTRAINT SomebodyLostNothing
SYMMETRY RoomSymmetry
INVARIANTS
    MembershipAddsUp
    ListIsCurrent
