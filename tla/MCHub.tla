------------------------------- MODULE MCHub -------------------------------
(* Instances of the hub for TLC, and what a document says that it does not do. *)
EXTENDS Hub, TLC

\* Room ids are drawn at random and never compared but for equality.
RoomSymmetry == Permutations(Rooms)

\* What a client sends to move between rooms, and that and what is relayed.
Moves == {"create_room", "join_room", "leave_room"}
MovesAndRelays == Moves \cup {"ice", "peer_status"}

\* Bound: while a room is open, at most one connection has failed.
OneFailure ==
    DOMAIN rooms # {} => Cardinality({c \in Clients : conn[c] \in {"broken", "gone"}}) <= 1
----------------------------------------------------------------------------
(* What the documentation says and the code refutes. *)

\* docs/signaling-protocol.md:41, "joined_room: confirms join": a connected
\* client that has a room is in a room of the table.
JoinedRoomIsListed ==
    \A c \in Registered : roomID[c] # NoRoom => roomID[c] \in DOMAIN rooms
=============================================================================
