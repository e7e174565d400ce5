-------------------------------- MODULE Hub --------------------------------
(***************************************************************************)
(* The coordinator's hub (coordinator/main.go): the room table, the        *)
(* connected clients and the outgoing channel of each of them.             *)
(*                                                                         *)
(* Every websocket has a reader goroutine, which runs one handler at a     *)
(* time, and a writer goroutine, which drains the client's channel.  A     *)
(* handler holds h.mu from its first line to its return, so what it        *)
(* changes changes in one step; its sends are the posts, one per call of   *)
(* broadcastLocked or enqueue, made one after the other while the lock is  *)
(* still held (posts is not empty) and the writers go on popping.  That    *)
(* matters: a channel that is full for one post may have room for the      *)
(* next, so a client can lose a peer_left and still get the room list.     *)
(*                                                                         *)
(* Handlers that hold the lock for reading never overlap here.  In the     *)
(* program two of them can, and then differ from the model only in the     *)
(* order in which two relays of different senders reach two receivers.     *)
(* Left out: nicknames, room names and the locked flag (stored and shown,  *)
(* never tested), times, and the payloads, which the hub does not read.    *)
(***************************************************************************)
EXTENDS Naturals, Sequences, FiniteSets, Functions

CONSTANTS
    Clients,     \* connection ids; "peer_" + randomHex(8) is never drawn twice
    Rooms,       \* room ids; "room_" + randomHex(8) is never drawn twice
    NoRoom,      \* the empty roomID of a client in no room
    MaxPeers,    \* maxPeersPerRoom
    QueueCap,    \* capacity of the channel made in serveWS
    Requests,    \* the message types the clients of this instance send
    MaxServed    \* bound: how many client messages are handled

\* sort.Strings orders the ids; numbers stand for them.
ASSUME ClientsAssumption == Clients \subseteq Nat /\ IsFiniteSet(Clients)
ASSUME RoomsAssumption == NoRoom \notin Rooms
ASSUME BoundsAssumption ==
    MaxPeers \in Nat \ {0} /\ QueueCap \in Nat \ {0} /\ MaxServed \in Nat

VARIABLES
    conn,    \* client -> idle | open | broken (socket dead, still in h.clients) | gone
    pc,      \* client -> what its reader goroutine is doing
    roomID,  \* client -> Client.roomID
    rooms,   \* h.rooms: room id -> host and peers
    drawn,   \* room ids drawn so far
    send,    \* client -> its channel
    posts,   \* what the handler that holds h.mu has yet to enqueue
    lost,    \* clients the hub has logged "dropping message for slow peer" for
    served   \* how many client messages have been handled

hubVars == <<conn, pc, roomID, rooms, drawn, send, posts, lost>>
vars == <<hubVars, served>>
----------------------------------------------------------------------------
\* The three ice_* messages are routed alike, and mute_status like peer_status.
RelayTypes == {"ice", "peer_status", "voice_frame"}

Room == [host : Clients, peers : SUBSET Clients]
Snapshot == [id : Rooms, host : Clients, peerCount : Nat]

Envelope ==
    [type : {"hello", "heartbeat_ack", "error"}]
        \cup [type : {"rooms"}, rooms : SUBSET Snapshot]
        \cup [type : {"room_created", "joined_room"}, room : Rooms, peers : SUBSET Clients]
        \cup [type : {"room_closed"}, room : Rooms]
        \cup [type : {"peer_joined", "peer_left"} \cup RelayTypes, room : Rooms, peer : Clients]

Post == [to : SUBSET Clients, env : Envelope]

TypeOK ==
    /\ conn \in [Clients -> {"idle", "open", "broken", "gone"}]
    /\ pc \in [Clients -> {"reading", "greeting", "posting"}]
    /\ roomID \in [Clients -> Rooms \cup {NoRoom}]
    /\ drawn \in SUBSET Rooms
    /\ DOMAIN rooms \in SUBSET Rooms
    /\ rooms \in [DOMAIN rooms -> Room]
    /\ send \in [Clients -> Seq(Envelope)]
    /\ posts \in Seq(Post)
    /\ lost \in SUBSET Clients
    /\ served \in Nat

Init ==
    /\ conn = [c \in Clients |-> "idle"]
    /\ pc = [c \in Clients |-> "reading"]
    /\ roomID = [c \in Clients |-> NoRoom]
    /\ rooms = [r \in {} |-> <<>>]
    /\ drawn = {}
    /\ send = [c \in Clients |-> <<>>]
    /\ posts = <<>>
    /\ lost = {}
    /\ served = 0
----------------------------------------------------------------------------
(* Rooms. *)

Registered == {c \in Clients : conn[c] \in {"open", "broken"}}    \* h.clients

Least(S) == CHOOSE p \in S : \A q \in S : p <= q

PutRoom(rs, r, room) == [q \in DOMAIN rs \cup {r} |-> IF q = r THEN room ELSE rs[q]]

\* Mutant: the emptied room goes, but nobody is promoted.
WithoutPromotion(rs, r, c) ==
    LET rest == rs[r].peers \ {c}
    IN  IF rest = {} THEN Restrict(rs, DOMAIN rs \ {r})
        ELSE PutRoom(rs, r, [host |-> rs[r].host, peers |-> rest])

\* The table once c is taken out of r: an emptied room is deleted, and a
\* room whose host it was gets the peer with the smallest id.
Without(rs, r, c) ==
    LET rest == rs[r].peers \ {c}
    IN  IF rest = {}
        THEN Restrict(rs, DOMAIN rs \ {r})
        ELSE PutRoom(rs, r, [host |-> IF rs[r].host = c THEN Least(rest) ELSE rs[r].host,
                             peers |-> rest])

\* Mutant: the client is not deleted from Room.Peers.
LeftBehind(c) == rooms

\* The table after leaveRoomLocked(c); a room that is no longer listed is left silently.
Left(c) == IF roomID[c] \in DOMAIN rooms THEN Without(rooms, roomID[c], c) ELSE rooms

\* roomSnapshotsLocked ranges over a map: the list has no order.
RoomList(rs) ==
    [type |-> "rooms",
     rooms |-> {[id |-> r, host |-> rs[r].host, peerCount |-> Cardinality(rs[r].peers)] :
                   r \in DOMAIN rs}]

\* Mutant: peer_left only when the host goes, as if inside the promotion's if.
GoodbyeOfHost(c) ==
    IF roomID[c] \notin DOMAIN rooms \/ rooms[roomID[c]].host # c THEN <<>>
    ELSE <<[to |-> rooms[roomID[c]].peers \ {c},
            env |-> [type |-> "peer_left", room |-> roomID[c], peer |-> c]]>>

\* Mutant: the room says that it is closed whenever its host goes.
GoodbyeClosing(c) ==
    IF roomID[c] \notin DOMAIN rooms THEN <<>>
    ELSE <<[to |-> rooms[roomID[c]].peers \ {c},
            env |-> IF rooms[roomID[c]].host = c THEN [type |-> "room_closed", room |-> roomID[c]]
                    ELSE [type |-> "peer_left", room |-> roomID[c], peer |-> c]]>>

\* What leaveRoomLocked(c) broadcasts to those who stay: nobody hears room_closed.
Goodbye(c) ==
    IF roomID[c] \notin DOMAIN rooms THEN <<>>
    ELSE LET r == roomID[c]
             rest == rooms[r].peers \ {c}
         IN  <<[to |-> rest,
                env |-> IF rest = {} THEN [type |-> "room_closed", room |-> r]
                        ELSE [type |-> "peer_left", room |-> r, peer |-> c]]>>
----------------------------------------------------------------------------
(* Channels. *)

\* The non-blocking send of enqueue: an envelope for a full channel is dropped.
Enqueue(to, env) ==
    LET full == {c \in to : Len(send[c]) >= QueueCap}
    IN  /\ send' = [c \in Clients |-> IF c \in to \ full THEN Append(send[c], env) ELSE send[c]]
        /\ lost' = lost \cup full

\* c's handler returns having changed the tables and with ps still to send.
Sends(c, ps) ==
    /\ posts' = ps
    /\ pc' = [pc EXCEPT ![c] = IF ps = <<>> THEN "reading" ELSE "posting"]

\* The lock is free.
Unlocked == posts = <<>>

\* c's reader has read a message of this type.
Reads(c, type) == type \in Requests /\ c \in Registered /\ pc[c] = "reading"

\* One broadcastLocked or enqueue call of the handler that holds the lock.
Deliver ==
    /\ posts # <<>>
    /\ Enqueue(Head(posts).to, Head(posts).env)
    /\ posts' = Tail(posts)
    /\ pc' = [c \in Clients |->
                 IF pc[c] = "posting" /\ Len(posts) = 1 THEN "reading" ELSE pc[c]]
    /\ UNCHANGED <<conn, roomID, rooms, drawn>>

\* c's writer takes an envelope off the channel and writes it to the socket.
WriteLoop(c) ==
    /\ conn[c] = "open"
    /\ send[c] # <<>>
    /\ send' = [send EXCEPT ![c] = Tail(@)]
    /\ UNCHANGED <<conn, pc, roomID, rooms, drawn, posts, lost>>
----------------------------------------------------------------------------
(* Connections. *)

Connect(c) ==
    /\ conn[c] = "idle"
    /\ Unlocked
    /\ conn' = [conn EXCEPT ![c] = "open"]
    /\ UNCHANGED <<pc, roomID, rooms, drawn, send, posts, lost>>

\* The peer hangs up, the network fails or a write times out.  The client
\* stays in h.clients and in its room until its reader gets the lock; a
\* message it has already read is still handled.
SocketFails(c) ==
    /\ conn[c] = "open"
    /\ conn' = [conn EXCEPT ![c] = "broken"]
    /\ UNCHANGED <<pc, roomID, rooms, drawn, send, posts, lost>>

\* Mutant: the client is taken out of h.clients and its room forgotten.
RemoveClientOnly(c) ==
    /\ conn[c] = "broken" /\ pc[c] = "reading" /\ Unlocked
    /\ conn' = [conn EXCEPT ![c] = "gone"]
    /\ UNCHANGED <<pc, roomID, rooms, drawn, send, posts, lost>>

RemoveClient(c) ==
    /\ conn[c] = "broken"
    /\ pc[c] = "reading"
    /\ Unlocked
    /\ conn' = [conn EXCEPT ![c] = "gone"]
    /\ rooms' = Left(c)
    /\ send' = [send EXCEPT ![c] = <<>>]
    /\ Sends(c, IF roomID[c] \in DOMAIN rooms
                THEN Goodbye(c) \o <<[to |-> Registered \ {c}, env |-> RoomList(Left(c))]>>
                ELSE <<>>)
    /\ UNCHANGED <<roomID, drawn, lost>>
----------------------------------------------------------------------------
(* Messages of a client. *)

\* hello is answered outside the lock, and the room list sent under it: others
\* may run in between.
Hello(c) ==
    /\ Reads(c, "hello")
    /\ Enqueue({c}, [type |-> "hello"])
    /\ pc' = [pc EXCEPT ![c] = "greeting"]
    /\ UNCHANGED <<conn, roomID, rooms, drawn, posts>>

\* Mutant: no room list follows the hello.
HelloAlone(c) ==
    /\ pc[c] = "greeting" /\ Unlocked
    /\ Sends(c, <<>>)
    /\ UNCHANGED <<conn, roomID, rooms, drawn, send, lost>>

HelloRooms(c) ==
    /\ pc[c] = "greeting"
    /\ Unlocked
    /\ Sends(c, <<[to |-> {c}, env |-> RoomList(rooms)]>>)
    /\ UNCHANGED <<conn, roomID, rooms, drawn, send, lost>>

ListRooms(c) ==
    /\ Reads(c, "list_rooms")
    /\ Unlocked
    /\ Sends(c, <<[to |-> {c}, env |-> RoomList(rooms)]>>)
    /\ UNCHANGED <<conn, roomID, rooms, drawn, send, lost>>

CreateRoom(c) ==
    /\ Reads(c, "create_room")
    /\ Unlocked
    /\ \E r \in Rooms \ drawn :
          /\ drawn' = drawn \cup {r}
          /\ rooms' = PutRoom(Left(c), r, [host |-> c, peers |-> {c}])
          /\ roomID' = [roomID EXCEPT ![c] = r]
          /\ Sends(c, Goodbye(c)
                      \o <<[to |-> {c}, env |-> [type |-> "room_created", room |-> r, peers |-> {c}]],
                           [to |-> Registered, env |-> RoomList(rooms')]>>)
    /\ UNCHANGED <<conn, send, lost>>

\* Mutant: off by one.
HasSpaceForOneMore(r) == r \in DOMAIN rooms /\ Cardinality(rooms[r].peers) <= MaxPeers

HasSpace(r) == r \in DOMAIN rooms /\ Cardinality(rooms[r].peers) < MaxPeers

\* The room is looked up before c leaves its own: if c was alone in r, the
\* handler deletes r from the table and goes on with the object it holds.
JoinRoom(c, r) ==
    /\ Reads(c, "join_room")
    /\ Unlocked
    /\ HasSpace(r)
    /\ LET left == Left(c)
           peers == rooms[r].peers \cup {c}
       IN  /\ rooms' = IF r \in DOMAIN left
                       THEN PutRoom(left, r, [host |-> left[r].host, peers |-> peers])
                       ELSE left
           /\ Sends(c, Goodbye(c)
                       \o <<[to |-> {c}, env |-> [type |-> "joined_room", room |-> r, peers |-> peers]],
                            [to |-> peers \ {c}, env |-> [type |-> "peer_joined", room |-> r, peer |-> c]],
                            [to |-> Registered, env |-> RoomList(rooms')]>>)
    /\ roomID' = [roomID EXCEPT ![c] = r]
    /\ UNCHANGED <<conn, drawn, send, lost>>

\* "room not found" and "room is full": c stays where it is.
JoinRefused(c, r) ==
    /\ Reads(c, "join_room")
    /\ Unlocked
    /\ ~HasSpace(r)
    /\ Sends(c, <<[to |-> {c}, env |-> [type |-> "error"]]>>)
    /\ UNCHANGED <<conn, roomID, rooms, drawn, send, lost>>

\* Mutant: Client.roomID is not reset.
LeaveRoomKeepingId(c) ==
    /\ Reads(c, "leave_room") /\ Unlocked
    /\ rooms' = Left(c)
    /\ Sends(c, Goodbye(c) \o <<[to |-> Registered, env |-> RoomList(rooms')]>>)
    /\ UNCHANGED <<conn, roomID, drawn, send, lost>>

\* Mutant: the lobby is not told.
LeaveRoomQuietly(c) ==
    /\ Reads(c, "leave_room") /\ Unlocked
    /\ rooms' = Left(c)
    /\ roomID' = [roomID EXCEPT ![c] = NoRoom]
    /\ Sends(c, Goodbye(c))
    /\ UNCHANGED <<conn, drawn, send, lost>>

LeaveRoom(c) ==
    /\ Reads(c, "leave_room")
    /\ Unlocked
    /\ rooms' = Left(c)
    /\ roomID' = [roomID EXCEPT ![c] = NoRoom]
    /\ Sends(c, Goodbye(c) \o <<[to |-> Registered, env |-> RoomList(rooms')]>>)
    /\ UNCHANGED <<conn, drawn, send, lost>>

\* Mutant: any connected client can be addressed.
RouteAnywhere(c, target) ==
    /\ Reads(c, "ice") /\ Unlocked
    /\ Sends(c, IF target \in Registered
                THEN <<[to |-> {target}, env |-> [type |-> "ice", room |-> roomID[c], peer |-> c]]>>
                ELSE <<[to |-> {c}, env |-> [type |-> "error"]]>>)
    /\ UNCHANGED <<conn, roomID, rooms, drawn, send, lost>>

\* An ICE message goes to one client, which must be in the sender's room.
RouteToPeer(c, target) ==
    /\ Reads(c, "ice")
    /\ Unlocked
    /\ LET reachable == target \in Registered /\ roomID[c] # NoRoom /\ roomID[target] = roomID[c]
       IN  Sends(c, IF reachable
                    THEN <<[to |-> {target}, env |-> [type |-> "ice", room |-> roomID[c], peer |-> c]]>>
                    ELSE <<[to |-> {c}, env |-> [type |-> "error"]]>>)
    /\ UNCHANGED <<conn, roomID, rooms, drawn, send, lost>>

\* Sent to the others in a listed room; a client in no listed room is not told.
Broadcast(c, type) ==
    Sends(c, IF roomID[c] \in DOMAIN rooms
             THEN <<[to |-> rooms[roomID[c]].peers \ {c},
                     env |-> [type |-> type, room |-> roomID[c], peer |-> c]]>>
             ELSE <<>>)

BroadcastPeerStatus(c) ==
    /\ Reads(c, "peer_status")
    /\ Unlocked
    /\ Broadcast(c, "peer_status")
    /\ UNCHANGED <<conn, roomID, rooms, drawn, send, lost>>

\* sized: the payload is neither empty nor longer than maxVoicePayloadBytes.
BroadcastVoiceFrame(c, sized) ==
    /\ Reads(c, "voice_frame")
    /\ Unlocked
    /\ IF sized THEN Broadcast(c, "voice_frame") ELSE UNCHANGED <<posts, pc>>
    /\ UNCHANGED <<conn, roomID, rooms, drawn, send, lost>>

\* heartbeat, an unknown type and invalid JSON are answered without the lock.
Answer(c) ==
    /\ \/ Reads(c, "heartbeat") /\ Enqueue({c}, [type |-> "heartbeat_ack"])
       \/ Reads(c, "unknown") /\ Enqueue({c}, [type |-> "error"])
    /\ UNCHANGED <<conn, pc, roomID, rooms, drawn, posts>>
----------------------------------------------------------------------------
\* readLoop handles one message of c.
Handle(c) ==
    \/ Hello(c)
    \/ ListRooms(c)
    \/ CreateRoom(c)
    \/ \E r \in Rooms : JoinRoom(c, r) \/ JoinRefused(c, r)
    \/ LeaveRoom(c)
    \/ \E target \in Clients : RouteToPeer(c, target)
    \/ BroadcastPeerStatus(c)
    \/ \E sized \in BOOLEAN : BroadcastVoiceFrame(c, sized)
    \/ Answer(c)

Connection(c) == Connect(c) \/ SocketFails(c) \/ RemoveClient(c)

\* Every connection of this instance has come and gone.
AllGone == (\A c \in Clients : conn[c] = "gone") /\ Unlocked /\ UNCHANGED vars

\* What the hub does apart from writing to sockets.
HubStep ==
    \/ \E c \in Clients : Handle(c) /\ served < MaxServed /\ served' = served + 1
    \/ \E c \in Clients : (HelloRooms(c) \/ Connection(c)) /\ UNCHANGED served
    \/ Deliver /\ UNCHANGED served
    \/ AllGone

Next ==
    \/ HubStep
    \/ \E c \in Clients : WriteLoop(c) /\ UNCHANGED served

Spec == Init /\ [][Next]_vars
----------------------------------------------------------------------------
\* The hub implements the room service: the room a connected client is listed
\* in is where it is, and the other state of the hub is not the service's.
Service == INSTANCE RoomService WITH
    at <- [c \in Clients |-> IF conn[c] \in {"open", "broken"} /\ roomID[c] \in DOMAIN rooms
                             THEN roomID[c] ELSE NoRoom],
    host <- [r \in DOMAIN rooms |-> rooms[r].host],
    opened <- drawn

\* Whatever the order of connections, messages, departures and socket
\* failures, each handler is one move of the service or none.
ImplementsService == Service!Spec
----------------------------------------------------------------------------
(* Safety. *)

\* The room table and the clients agree (main.go keeps the membership twice,
\* in Room.Peers and in Client.roomID): who is listed in a room is connected
\* and points back at it, so nobody is in two rooms and no departed client
\* keeps a room alive.
PeersPointBack ==
    \A r \in DOMAIN rooms : \A p \in rooms[r].peers : p \in Registered /\ roomID[p] = r

\* A client whose roomID names a listed room is one of its peers: no one
\* talks into a room whose members do not know it (broadcastPeerStatus and
\* broadcastVoiceFrame test only that the room exists).
RoomKnowsItsClients ==
    \A c \in Registered : roomID[c] \in DOMAIN rooms => c \in rooms[roomID[c]].peers

\* Across every order of joins, departures and promotions a listed room has
\* between 1 and maxPeersPerRoom peers and its host is one of them.
RoomsAreSound ==
    \A r \in DOMAIN rooms :
        /\ rooms[r].host \in rooms[r].peers
        /\ Cardinality(rooms[r].peers) <= MaxPeers

\* A relay about to be sent goes to clients of its sender's own room: no ICE
\* candidate, status or voice frame crosses rooms, whatever rooms its sender
\* and its receivers went through, and only an ICE message addressed to its
\* own sender comes back to it.
RelaysStayInTheRoom ==
    \A i \in DOMAIN posts :
        LET env == posts[i].env
        IN  env.type \in RelayTypes =>
                \A q \in posts[i].to :
                    /\ roomID[q] = env.room
                    /\ roomID[env.peer] = env.room
                    /\ q = env.peer => env.type = "ice"

\* The host role moves only when the host goes, to the smallest id of those
\* who stay, and they are told of the host's departure first: nobody learns of
\* the new host while the old one still seems to be there.
HostMovesToLeast ==
    [][\A r \in DOMAIN rooms \cap DOMAIN rooms' :
          LET old == rooms[r].host
              stay == rooms[r].peers \ {old}
          IN  rooms'[r].host # old =>
                  /\ rooms'[r].host = Least(stay)
                  /\ posts'[1] = [to |-> stay,
                                  env |-> [type |-> "peer_left", room |-> r, peer |-> old]]]_vars
=============================================================================
