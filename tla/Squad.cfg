\* A client and a coordinator with two rooms of others.
SPECIFICATION Spec
CONSTANTS
    Rooms = {r1, r2}
    Own = Own
    Lan = Lan
    NoRoom = NoRoom
    MaxLists = 2
INVARIANTS TypeOK OneRoom ClientKnowsItsRoom LanIsOffline
PROPERTY StartupEnds
\* A client that has left, or given up, does nothing more.
CHECK_DEADLOCK FALSE
