----------------------------- MODULE HubProofs -----------------------------
(***************************************************************************)
(* Theorems about the hub, for every set of clients and rooms, every room  *)
(* size, every channel capacity and every number of messages.              *)
(***************************************************************************)
EXTENDS HubViews, Induction, FiniteSetTheorems, SequenceTheorems

USE ClientsAssumption, RoomsAssumption, BoundsAssumption
    DEF ClientsAssumption, RoomsAssumption, BoundsAssumption
----------------------------------------------------------------------------
(* Least. *)

\* sort.Strings puts some id first: a non-empty set of ids has a least one.
LEMMA LeastIsFirst ==
    ASSUME NEW S \in SUBSET Clients, S # {}
    PROVE  Least(S) \in S /\ \A q \in S : Least(S) <= q
<1> DEFINE Below(p) == {q \in S : q < p}
           T == {Below(p) : p \in S}
           R == StrictSubsetOrdering(S)
<1>1. IsFiniteSet(S)
  BY FS_Subset
<1>2. T \subseteq FiniteSubsetsOf(S)
  BY <1>1, FS_FiniteSubsetsOfFinite
<1>3. PICK B \in T : \A A \in T : <<A, B>> \notin R
  <2>1. IsWellFoundedOn(R, FiniteSubsetsOf(S))
    BY FS_StrictSubsetOrderingWellFounded
  <2>2. T # {}
    OBVIOUS
  <2> HIDE DEF T, R
  <2>3. QED
    BY <1>2, <2>1, <2>2, WFMin
<1>4. PICK p \in S : B = Below(p)
  OBVIOUS
<1>5. ASSUME NEW q \in S, q < p
      PROVE  FALSE
  <2>0. S \subseteq Nat
    OBVIOUS
  <2>1. Below(q) \subseteq Below(p) /\ q \in Below(p) /\ q \notin Below(q)
    <3>1. \A z \in S : z < q => z < p
      BY <1>5, <2>0
    <3>2. ~(q < q)
      BY <2>0
    <3>3. QED
      BY <1>5, <3>1, <3>2
  <2>2. <<Below(q), Below(p)>> \in R
    BY <2>1 DEF StrictSubsetOrdering
  <2>3. QED
    BY <1>3, <1>4, <2>2
<1>6. \A q \in S : p <= q
  BY <1>5
<1>7. QED
  BY <1>6 DEF Least
----------------------------------------------------------------------------
(* Types. *)

\* A room table, as TypeOK has it.
Table(rs) == DOMAIN rs \in SUBSET Rooms /\ rs \in [DOMAIN rs -> Room]

LEMMA PutRoomType ==
    ASSUME NEW rs, Table(rs), NEW r \in Rooms, NEW room \in Room
    PROVE  /\ Table(PutRoom(rs, r, room))
           /\ DOMAIN PutRoom(rs, r, room) = DOMAIN rs \cup {r}
           /\ \A q \in DOMAIN rs \cup {r} :
                 PutRoom(rs, r, room)[q] = IF q = r THEN room ELSE rs[q]
BY DEF Table, PutRoom

LEMMA WithoutType ==
    ASSUME NEW rs, Table(rs), NEW r \in DOMAIN rs, NEW c \in Clients
    PROVE  Table(Without(rs, r, c))
<1> DEFINE rest == rs[r].peers \ {c}
<1>1. rest \in SUBSET Clients /\ rs[r].host \in Clients /\ r \in Rooms
  BY DEF Table, Room
<1>2. CASE rest = {}
  BY <1>2 DEF Without, Table, Restrict
<1>3. CASE rest # {}
  <2>1. [host |-> IF rs[r].host = c THEN Least(rest) ELSE rs[r].host, peers |-> rest] \in Room
    BY <1>1, <1>3, LeastIsFirst DEF Room
  <2>2. QED
    BY <1>1, <1>3, <2>1, PutRoomType DEF Without
<1>4. QED
  BY <1>2, <1>3

LEMMA LeftType ==
    ASSUME TypeOK, NEW c \in Clients
    PROVE  Table(Left(c))
BY WithoutType DEF TypeOK, Left, Table

LEMMA RoomListType ==
    ASSUME NEW rs, Table(rs)
    PROVE  RoomList(rs) \in Envelope
<1>1. ASSUME NEW r \in DOMAIN rs
      PROVE  [id |-> r, host |-> rs[r].host, peerCount |-> Cardinality(rs[r].peers)] \in Snapshot
  <2>1. r \in Rooms /\ rs[r].host \in Clients /\ rs[r].peers \in SUBSET Clients
    BY DEF Table, Room
  <2>2. Cardinality(rs[r].peers) \in Nat
    BY <2>1, FS_Subset, FS_CardinalityType
  <2>3. QED
    BY <2>1, <2>2 DEF Snapshot
<1>2. QED
  BY <1>1 DEF RoomList, Envelope

LEMMA EnvelopeTypes ==
    /\ \A type \in {"hello", "heartbeat_ack", "error"} : [type |-> type] \in Envelope
    /\ \A type \in {"room_created", "joined_room"}, r \in Rooms, S \in SUBSET Clients :
          [type |-> type, room |-> r, peers |-> S] \in Envelope
    /\ \A r \in Rooms : [type |-> "room_closed", room |-> r] \in Envelope
    /\ \A type \in {"peer_joined", "peer_left"} \cup RelayTypes, r \in Rooms, p \in Clients :
          [type |-> type, room |-> r, peer |-> p] \in Envelope
BY DEF Envelope

LEMMA PostType ==
    ASSUME NEW S \in SUBSET Clients, NEW env \in Envelope
    PROVE  [to |-> S, env |-> env] \in Post
BY DEF Post

LEMMA GoodbyeType ==
    ASSUME TypeOK, NEW c \in Clients
    PROVE  Goodbye(c) \in Seq(Post)
<1>1. CASE roomID[c] \notin DOMAIN rooms
  BY <1>1 DEF Goodbye
<1>2. CASE roomID[c] \in DOMAIN rooms
  <2> DEFINE r == roomID[c]
             rest == rooms[r].peers \ {c}
             env == IF rest = {} THEN [type |-> "room_closed", room |-> r]
                    ELSE [type |-> "peer_left", room |-> r, peer |-> c]
  <2>1. r \in Rooms /\ rest \in SUBSET Clients
    BY <1>2 DEF TypeOK, Room
  <2>2. env \in Envelope
    BY <2>1, EnvelopeTypes
  <2>3. [to |-> rest, env |-> env] \in Post
    BY <2>1, <2>2, PostType
  <2>4. Goodbye(c) = <<[to |-> rest, env |-> env]>>
    BY <1>2 DEF Goodbye
  <2> HIDE DEF rest, env
  <2>5. QED
    BY <2>3, <2>4
<1>3. QED
  BY <1>1, <1>2

LEMMA SendsType ==
    ASSUME TypeOK, NEW c \in Clients, NEW ps \in Seq(Post), Sends(c, ps)
    PROVE  posts' \in Seq(Post) /\ pc' \in [Clients -> {"reading", "greeting", "posting"}]
BY DEF TypeOK, Sends

LEMMA EnqueueType ==
    ASSUME TypeOK, NEW S \in SUBSET Clients, NEW env \in Envelope, Enqueue(S, env)
    PROVE  send' \in [Clients -> Seq(Envelope)] /\ lost' \in SUBSET Clients
<1>1. \A c \in Clients : Append(send[c], env) \in Seq(Envelope) /\ send[c] \in Seq(Envelope)
  BY DEF TypeOK
<1>2. QED
  BY <1>1 DEF TypeOK, Enqueue

\* The posts of one call each, and of the handlers that change the table.
LEMMA PostsTypes ==
    ASSUME TypeOK
    PROVE  /\ \A S \in SUBSET Clients, env \in Envelope : <<[to |-> S, env |-> env]>> \in Seq(Post)
           /\ \A c \in Clients, p \in Post : Goodbye(c) \o <<p>> \in Seq(Post)
           /\ \A c \in Clients, p, q \in Post : Goodbye(c) \o <<p, q>> \in Seq(Post)
           /\ \A c \in Clients, p, q, r \in Post : Goodbye(c) \o <<p, q, r>> \in Seq(Post)
<1>1. ASSUME NEW S \in SUBSET Clients, NEW env \in Envelope
      PROVE  <<[to |-> S, env |-> env]>> \in Seq(Post)
  <2> DEFINE p == [to |-> S, env |-> env]
  <2>1. p \in Post
    BY PostType
  <2> HIDE DEF p
  <2>2. <<p>> \in Seq(Post)
    BY <2>1
  <2>3. QED
    BY <2>2 DEF p
<1>2. \A p, q, r \in Post : <<p>> \in Seq(Post) /\ <<p, q>> \in Seq(Post) /\ <<p, q, r>> \in Seq(Post)
  OBVIOUS
<1>3. \A c \in Clients, ps \in Seq(Post) : Goodbye(c) \o ps \in Seq(Post)
  BY GoodbyeType, ConcatProperties
<1>4. \A c \in Clients, p \in Post : Goodbye(c) \o <<p>> \in Seq(Post)
  BY <1>2, <1>3
<1>5. \A c \in Clients, p, q \in Post : Goodbye(c) \o <<p, q>> \in Seq(Post)
  BY <1>2, <1>3
<1>6. \A c \in Clients, p, q, r \in Post : Goodbye(c) \o <<p, q, r>> \in Seq(Post)
  BY <1>2, <1>3
<1>7. QED
  BY <1>1, <1>4, <1>5, <1>6

LEMMA RegisteredType == Registered \in SUBSET Clients
BY DEF Registered

LEMMA ConnectionType ==
    ASSUME TypeOK, NEW c \in Clients, Connection(c), UNCHANGED served
    PROVE  TypeOK'
<1>1. CASE Connect(c)
  BY <1>1 DEF Connect, TypeOK
<1>2. CASE SocketFails(c)
  BY <1>2 DEF SocketFails, TypeOK
<1>3. CASE RemoveClient(c)
  <2> DEFINE farewell == IF roomID[c] \in DOMAIN rooms
                         THEN Goodbye(c) \o <<[to |-> Registered \ {c}, env |-> RoomList(Left(c))]>>
                         ELSE <<>>
  <2>1. Table(Left(c)) /\ RoomList(Left(c)) \in Envelope
    BY LeftType, RoomListType
  <2>2. farewell \in Seq(Post)
    <3>1. [to |-> Registered \ {c}, env |-> RoomList(Left(c))] \in Post
      BY <2>1, PostType, RegisteredType
    <3>2. Goodbye(c) \o <<[to |-> Registered \ {c}, env |-> RoomList(Left(c))]>> \in Seq(Post)
      BY <3>1, PostsTypes
    <3>3. <<>> \in Seq(Post)
      BY EmptySeq
    <3>4. QED
      BY <3>2, <3>3
  <2>3. Sends(c, farewell)
    BY <1>3 DEF RemoveClient
  <2> HIDE DEF farewell
  <2>4. posts' \in Seq(Post) /\ pc' \in [Clients -> {"reading", "greeting", "posting"}]
    BY <2>2, <2>3, SendsType
  <2>5. send' \in [Clients -> Seq(Envelope)]
    BY <1>3 DEF RemoveClient, TypeOK
  <2>6. QED
    BY <1>3, <2>1, <2>4, <2>5 DEF RemoveClient, TypeOK, Table
<1>4. QED
  BY <1>1, <1>2, <1>3 DEF Connection

LEMMA DeliverType ==
    ASSUME TypeOK, Deliver, UNCHANGED served
    PROVE  TypeOK'
<1>1. Head(posts) \in Post /\ Tail(posts) \in Seq(Post)
  BY HeadTailProperties DEF Deliver, TypeOK
<1>2. send' \in [Clients -> Seq(Envelope)] /\ lost' \in SUBSET Clients
  BY <1>1, EnqueueType DEF Deliver, Post
<1>3. QED
  BY <1>1, <1>2 DEF Deliver, TypeOK

LEMMA WriteLoopType ==
    ASSUME TypeOK, NEW c \in Clients, WriteLoop(c), UNCHANGED served
    PROVE  TypeOK'
<1>1. Tail(send[c]) \in Seq(Envelope)
  BY HeadTailProperties DEF WriteLoop, TypeOK
<1>2. send' \in [Clients -> Seq(Envelope)]
  BY <1>1 DEF WriteLoop, TypeOK
<1>3. QED
  BY <1>2 DEF WriteLoop, TypeOK

\* The handlers that leave the table alone and send at most one post.
LEMMA OnePostType ==
    ASSUME TypeOK, NEW c \in Clients, NEW S \in SUBSET Clients, NEW env \in Envelope,
           Sends(c, <<[to |-> S, env |-> env]>>),
           UNCHANGED <<conn, roomID, rooms, drawn, send, lost>>, served' \in Nat
    PROVE  TypeOK'
<1>1. <<[to |-> S, env |-> env]>> \in Seq(Post)
  BY PostsTypes
<1>2. posts' \in Seq(Post) /\ pc' \in [Clients -> {"reading", "greeting", "posting"}]
  BY <1>1, SendsType
<1>3. QED
  BY <1>2 DEF TypeOK

LEMMA NoPostType ==
    ASSUME TypeOK, NEW c \in Clients, Sends(c, <<>>),
           UNCHANGED <<conn, roomID, rooms, drawn, send, lost>>, served' \in Nat
    PROVE  TypeOK'
<1>1. posts' \in Seq(Post) /\ pc' \in [Clients -> {"reading", "greeting", "posting"}]
  BY EmptySeq, SendsType
<1>2. QED
  BY <1>1 DEF TypeOK

LEMMA BroadcastType ==
    ASSUME TypeOK, NEW c \in Clients, NEW type \in RelayTypes, Broadcast(c, type),
           UNCHANGED <<conn, roomID, rooms, drawn, send, lost>>, served' \in Nat
    PROVE  TypeOK'
<1>1. CASE roomID[c] \in DOMAIN rooms
  <2>1. rooms[roomID[c]].peers \ {c} \in SUBSET Clients /\ roomID[c] \in Rooms
    BY <1>1 DEF TypeOK, Room
  <2>2. [type |-> type, room |-> roomID[c], peer |-> c] \in Envelope
    BY <2>1, EnvelopeTypes
  <2>3. QED
    BY <1>1, <2>1, <2>2, OnePostType DEF Broadcast
<1>2. CASE roomID[c] \notin DOMAIN rooms
  BY <1>2, NoPostType DEF Broadcast
<1>3. QED
  BY <1>1, <1>2

LEMMA CreateRoomType ==
    ASSUME TypeOK, NEW c \in Clients, CreateRoom(c), served' \in Nat
    PROVE  TypeOK'
<1>1. PICK r \in Rooms \ drawn :
        /\ drawn' = drawn \cup {r}
        /\ rooms' = PutRoom(Left(c), r, [host |-> c, peers |-> {c}])
        /\ roomID' = [roomID EXCEPT ![c] = r]
        /\ Sends(c, Goodbye(c)
                    \o <<[to |-> {c}, env |-> [type |-> "room_created", room |-> r, peers |-> {c}]],
                         [to |-> Registered, env |-> RoomList(rooms')]>>)
  BY DEF CreateRoom
<1>2. Table(rooms')
  <2>1. [host |-> c, peers |-> {c}] \in Room
    BY DEF Room
  <2>2. QED
    BY <1>1, <2>1, LeftType, PutRoomType
<1>3. [to |-> {c}, env |-> [type |-> "room_created", room |-> r, peers |-> {c}]] \in Post
  BY EnvelopeTypes, PostType
<1>4. [to |-> Registered, env |-> RoomList(rooms')] \in Post
  BY <1>2, RoomListType, RegisteredType, PostType
<1>5. posts' \in Seq(Post) /\ pc' \in [Clients -> {"reading", "greeting", "posting"}]
  BY <1>1, <1>3, <1>4, PostsTypes, SendsType
<1>6. QED
  BY <1>1, <1>2, <1>5 DEF CreateRoom, TypeOK, Table

LEMMA JoinRoomTable ==
    ASSUME TypeOK, NEW c \in Clients, NEW r \in Rooms, JoinRoom(c, r)
    PROVE  Table(rooms')
<1> DEFINE left == Left(c)
           peers == rooms[r].peers \cup {c}
<1>1. rooms' = IF r \in DOMAIN left
               THEN PutRoom(left, r, [host |-> left[r].host, peers |-> peers])
               ELSE left
  BY DEF JoinRoom
<1>2. peers \in SUBSET Clients
  BY DEF JoinRoom, HasSpace, TypeOK, Room
<1>3. Table(left)
  BY LeftType
<1>4. r \in DOMAIN left => [host |-> left[r].host, peers |-> peers] \in Room
  BY <1>2, <1>3 DEF Table, Room
<1> HIDE DEF left
<1>5. QED
  BY <1>1, <1>3, <1>4, PutRoomType

LEMMA JoinRoomType ==
    ASSUME TypeOK, NEW c \in Clients, NEW r \in Rooms, JoinRoom(c, r), served' \in Nat
    PROVE  TypeOK'
<1> DEFINE left == Left(c)
           peers == rooms[r].peers \cup {c}
           joined == [type |-> "joined_room", room |-> r, peers |-> peers]
           came == [type |-> "peer_joined", room |-> r, peer |-> c]
<1>1. /\ rooms' = IF r \in DOMAIN left
                  THEN PutRoom(left, r, [host |-> left[r].host, peers |-> peers])
                  ELSE left
      /\ Sends(c, Goodbye(c) \o <<[to |-> {c}, env |-> joined],
                                  [to |-> peers \ {c}, env |-> came],
                                  [to |-> Registered, env |-> RoomList(rooms')]>>)
      /\ roomID' = [roomID EXCEPT ![c] = r]
      /\ r \in DOMAIN rooms
  BY DEF JoinRoom, HasSpace
<1>2. peers \in SUBSET Clients
  BY <1>1 DEF TypeOK, Room
<1>3. Table(rooms')
  BY JoinRoomTable
<1>4. /\ [to |-> {c}, env |-> joined] \in Post
      /\ [to |-> peers \ {c}, env |-> came] \in Post
  <2>1. joined \in Envelope /\ came \in Envelope
    BY <1>2, EnvelopeTypes
  <2> HIDE DEF joined, came
  <2>2. QED
    BY <1>2, <2>1, PostType
<1>5. [to |-> Registered, env |-> RoomList(rooms')] \in Post
  BY <1>3, RoomListType, RegisteredType, PostType
<1> HIDE DEF joined, came
<1>6. posts' \in Seq(Post) /\ pc' \in [Clients -> {"reading", "greeting", "posting"}]
  BY <1>1, <1>4, <1>5, PostsTypes, SendsType
<1>7. QED
  BY <1>1, <1>3, <1>6, ZenonT(40) DEF JoinRoom, TypeOK, Table

LEMMA LeaveRoomType ==
    ASSUME TypeOK, NEW c \in Clients, LeaveRoom(c), served' \in Nat
    PROVE  TypeOK'
<1>1. Table(rooms')
  BY LeftType DEF LeaveRoom
<1>2. [to |-> Registered, env |-> RoomList(rooms')] \in Post
  BY <1>1, RoomListType, RegisteredType, PostType
<1>3. posts' \in Seq(Post) /\ pc' \in [Clients -> {"reading", "greeting", "posting"}]
  BY <1>2, PostsTypes, SendsType DEF LeaveRoom
<1>4. QED
  BY <1>1, <1>3 DEF LeaveRoom, TypeOK, Table

LEMMA HandleType ==
    ASSUME TypeOK, NEW c \in Clients, Handle(c), served' \in Nat
    PROVE  TypeOK'
<1>1. CASE Hello(c) \/ Answer(c)
  <2>1. send' \in [Clients -> Seq(Envelope)] /\ lost' \in SUBSET Clients
    BY <1>1, EnvelopeTypes, EnqueueType DEF Hello, Answer
  <2>2. QED
    BY <1>1, <2>1 DEF Hello, Answer, TypeOK
<1>2. CASE ListRooms(c)
  <2>1. RoomList(rooms) \in Envelope
    BY RoomListType DEF TypeOK, Table
  <2>2. QED
    BY <1>2, <2>1, OnePostType DEF ListRooms
<1>3. CASE CreateRoom(c)
  BY <1>3, CreateRoomType
<1>4. ASSUME NEW r \in Rooms, JoinRoom(c, r)
      PROVE  TypeOK'
  BY <1>4, JoinRoomType
<1>5. ASSUME NEW r \in Rooms, JoinRefused(c, r)
      PROVE  TypeOK'
  BY <1>5, EnvelopeTypes, OnePostType DEF JoinRefused
<1>6. CASE LeaveRoom(c)
  BY <1>6, LeaveRoomType
<1>7. ASSUME NEW target \in Clients, RouteToPeer(c, target)
      PROVE  TypeOK'
  <2> DEFINE reachable == target \in Registered /\ roomID[c] # NoRoom /\ roomID[target] = roomID[c]
  <2>1. CASE reachable
    <3>1. [type |-> "ice", room |-> roomID[c], peer |-> c] \in Envelope
      BY <2>1, EnvelopeTypes DEF TypeOK, RelayTypes
    <3>2. QED
      BY <1>7, <2>1, <3>1, OnePostType DEF RouteToPeer
  <2>2. CASE ~reachable
    BY <1>7, <2>2, EnvelopeTypes, OnePostType DEF RouteToPeer
  <2>3. QED
    BY <2>1, <2>2
<1>8. CASE BroadcastPeerStatus(c)
  BY <1>8, BroadcastType DEF BroadcastPeerStatus, RelayTypes
<1>9. ASSUME NEW sized \in BOOLEAN, BroadcastVoiceFrame(c, sized)
      PROVE  TypeOK'
  <2>1. CASE sized
    BY <1>9, <2>1, BroadcastType DEF BroadcastVoiceFrame, RelayTypes
  <2>2. CASE ~sized
    BY <1>9, <2>2 DEF BroadcastVoiceFrame, TypeOK
  <2>3. QED
    BY <2>1, <2>2
<1>10. QED
  BY <1>1, <1>2, <1>3, <1>4, <1>5, <1>6, <1>7, <1>8, <1>9 DEF Handle

LEMMA TypeStep ==
    ASSUME TypeOK, [Next]_vars
    PROVE  TypeOK'
<1>1. ASSUME NEW c \in Clients, Handle(c), served' = served + 1
      PROVE  TypeOK'
  BY <1>1, HandleType DEF TypeOK
<1>2. ASSUME NEW c \in Clients, HelloRooms(c), UNCHANGED served
      PROVE  TypeOK'
  <2>1. RoomList(rooms) \in Envelope /\ served' \in Nat
    BY <1>2, RoomListType DEF TypeOK, Table
  <2>2. QED
    BY <1>2, <2>1, OnePostType DEF HelloRooms
<1>3. CASE AllGone \/ UNCHANGED vars
  BY <1>3 DEF AllGone, vars, hubVars, TypeOK
<1>4. QED
  BY <1>1, <1>2, <1>3, ConnectionType, DeliverType, WriteLoopType DEF Next, HubStep

\* Every variable keeps its type: in particular a relay always names a room, and
\* a host is always a client.
THEOREM TypeCorrect == Spec => []TypeOK
<1>1. Init => TypeOK
  BY EmptySeq DEF Init, TypeOK, Room
<1>2. TypeOK /\ [Next]_vars => TypeOK'
  BY TypeStep
<1>3. QED
  BY <1>1, <1>2, PTL DEF Spec
----------------------------------------------------------------------------
(* The inductive invariant. *)

\* Room ids are fresh when drawn because all that are in use have been drawn.
IdsAreDrawn ==
    /\ DOMAIN rooms \subseteq drawn
    /\ \A c \in Clients : roomID[c] \in drawn \cup {NoRoom}

\* A client that has yet to connect is in no room.
StrangersAreNowhere == \A c \in Clients : conn[c] = "idle" => roomID[c] = NoRoom

TableInv ==
    /\ IdsAreDrawn
    /\ StrangersAreNowhere
    /\ PeersPointBack
    /\ RoomKnowsItsClients
    /\ RoomsAreSound

\* What leaveRoomLocked does to the table.
LEMMA LeftFacts ==
    ASSUME TypeOK, TableInv, NEW c \in Registered
    PROVE  /\ Table(Left(c))
           /\ DOMAIN Left(c) \subseteq DOMAIN rooms
           /\ \A r \in DOMAIN rooms : r \in DOMAIN Left(c) <=> rooms[r].peers \ {c} # {}
           /\ \A r \in DOMAIN Left(c) :
                 /\ Left(c)[r].peers = rooms[r].peers \ {c}
                 /\ Left(c)[r].host = IF rooms[r].host = c THEN Least(rooms[r].peers \ {c})
                                      ELSE rooms[r].host
<1>0. c \in Clients
  BY DEF Registered
<1>1. Table(Left(c)) /\ Table(rooms)
  BY <1>0, LeftType DEF TypeOK, Table
<1>2. \A r \in DOMAIN rooms : rooms[r].host \in rooms[r].peers
  BY DEF TableInv, RoomsAreSound
<1>3. \A r \in DOMAIN rooms : c \in rooms[r].peers => roomID[c] = r
  BY DEF TableInv, PeersPointBack
<1>4. CASE roomID[c] \notin DOMAIN rooms
  BY <1>1, <1>2, <1>3, <1>4 DEF Left
<1>5. CASE roomID[c] \in DOMAIN rooms
  <2> DEFINE r == roomID[c]
             rest == rooms[r].peers \ {c}
  <2>0. \A q \in DOMAIN rooms \ {r} : rooms[q].peers \ {c} = rooms[q].peers /\ rooms[q].host # c
    BY <1>2, <1>3
  <2>1. Left(c) = Without(rooms, r, c)
    BY <1>5 DEF Left
  <2>2. CASE rest = {}
    <3>1. Left(c) = [q \in DOMAIN rooms \ {r} |-> rooms[q]]
      BY <2>1, <2>2 DEF Without, Restrict
    <3>2. QED
      BY <1>1, <1>2, <1>5, <2>0, <2>2, <3>1
  <2>3. CASE rest # {}
    <3> DEFINE room == [host |-> IF rooms[r].host = c THEN Least(rest) ELSE rooms[r].host,
                        peers |-> rest]
    <3>1. Left(c) = [q \in DOMAIN rooms \cup {r} |-> IF q = r THEN room ELSE rooms[q]]
      BY <2>1, <2>3 DEF Without, PutRoom
    <3>2. DOMAIN Left(c) = DOMAIN rooms
      BY <1>5, <3>1
    <3>3. \A q \in DOMAIN rooms : rooms[q].peers \ {c} # {}
      BY <1>2, <2>0, <2>3
    <3>4. Left(c)[r].peers = rest /\ Left(c)[r].host = room.host
      BY <1>5, <3>1
    <3>5. \A q \in DOMAIN rooms \ {r} : Left(c)[q] = rooms[q]
      BY <1>5, <3>1
    <3>6. QED
      BY <1>1, <2>0, <3>2, <3>3, <3>4, <3>5
  <2>4. QED
    BY <2>2, <2>3
<1>6. QED
  BY <1>4, <1>5

\* The rooms that are left are sound, and hold no trace of c.
LEMMA LeftIsSound ==
    ASSUME TypeOK, TableInv, NEW c \in Registered
    PROVE  \A r \in DOMAIN Left(c) :
              /\ r \in DOMAIN rooms /\ r \in drawn /\ r \in Rooms
              /\ Left(c)[r].host \in Left(c)[r].peers
              /\ Left(c)[r].peers \in SUBSET Clients
              /\ IsFiniteSet(Left(c)[r].peers)
              /\ Cardinality(Left(c)[r].peers) <= MaxPeers
              /\ \A p \in Left(c)[r].peers : p \in Registered /\ roomID[p] = r /\ p # c
<1> SUFFICES ASSUME NEW r \in DOMAIN Left(c)
             PROVE  /\ r \in DOMAIN rooms /\ r \in drawn /\ r \in Rooms
                    /\ Left(c)[r].host \in Left(c)[r].peers
                    /\ Left(c)[r].peers \in SUBSET Clients
                    /\ IsFiniteSet(Left(c)[r].peers)
                    /\ Cardinality(Left(c)[r].peers) <= MaxPeers
                    /\ \A p \in Left(c)[r].peers : p \in Registered /\ roomID[p] = r /\ p # c
  OBVIOUS
<1> DEFINE peers == rooms[r].peers
<1>1. /\ r \in DOMAIN rooms /\ peers \ {c} # {}
      /\ Left(c)[r].peers = peers \ {c}
      /\ Left(c)[r].host = IF rooms[r].host = c THEN Least(peers \ {c}) ELSE rooms[r].host
  <2>1. r \in DOMAIN rooms
    BY LeftFacts
  <2>2. QED
    BY <2>1, LeftFacts
<1>2. /\ peers \in SUBSET Clients /\ r \in Rooms
      /\ rooms[r].host \in peers /\ Cardinality(peers) <= MaxPeers
      /\ r \in drawn
      /\ \A p \in peers : p \in Registered /\ roomID[p] = r
  BY <1>1 DEF TypeOK, Room, TableInv, RoomsAreSound, IdsAreDrawn, PeersPointBack
<1>3. IsFiniteSet(peers)
  BY <1>2, FS_Subset
<1>4. /\ IsFiniteSet(peers \ {c}) /\ Cardinality(peers \ {c}) <= Cardinality(peers)
      /\ Cardinality(peers \ {c}) \in Nat /\ Cardinality(peers) \in Nat
  <2>1. peers \ {c} \in SUBSET peers
    OBVIOUS
  <2>2. QED
    BY <1>3, <2>1, FS_Subset, FS_CardinalityType
<1>5. Least(peers \ {c}) \in peers \ {c}
  BY <1>1, <1>2, LeastIsFirst
<1>6. Cardinality(peers \ {c}) <= MaxPeers
  BY <1>2, <1>4
<1> HIDE DEF peers
<1>7. QED
  BY <1>1, <1>2, <1>4, <1>5, <1>6

LEMMA TableLeave ==
    ASSUME TypeOK, TableInv, NEW c \in Registered, rooms' = Left(c), drawn' = drawn,
           \/ roomID' = [roomID EXCEPT ![c] = NoRoom] /\ conn' = conn
           \/ roomID' = roomID /\ conn' = [conn EXCEPT ![c] = "gone"]
    PROVE  TableInv'
<1>0. c \in Clients
  BY DEF Registered
<1>1. /\ \A p \in Clients \ {c} : roomID'[p] = roomID[p] /\ conn'[p] = conn[p]
      /\ roomID'[c] \in {roomID[c], NoRoom}
      /\ conn'[c] # "idle"
      /\ \A p \in Clients \ {c} : (p \in Registered)' <=> p \in Registered
      /\ (c \in Registered)' => roomID'[c] = NoRoom
  BY <1>0 DEF TypeOK, Registered
<1>2. IdsAreDrawn' /\ StrangersAreNowhere'
  BY <1>0, <1>1, LeftIsSound DEF TableInv, IdsAreDrawn, StrangersAreNowhere
<1>3. PeersPointBack'
  <2> SUFFICES ASSUME NEW r \in DOMAIN Left(c), NEW p \in Left(c)[r].peers
               PROVE  (p \in Registered)' /\ roomID'[p] = r
    BY DEF PeersPointBack
  <2>1. p \in Registered /\ roomID[p] = r /\ p # c /\ p \in Clients
    BY LeftIsSound
  <2>2. QED
    BY <1>1, <2>1
<1>4. RoomKnowsItsClients'
  <2> SUFFICES ASSUME NEW p \in Clients, (p \in Registered)', roomID'[p] \in DOMAIN Left(c)
               PROVE  p \in Left(c)[roomID'[p]].peers
    BY DEF RoomKnowsItsClients, Registered
  <2>1. roomID'[p] \in Rooms
    BY LeftIsSound
  <2>2. p # c
    BY <1>1, <2>1
  <2>3. p \in Registered /\ roomID[p] = roomID'[p] /\ roomID[p] \in DOMAIN rooms
    BY <1>1, <2>2, LeftIsSound
  <2>4. p \in rooms[roomID[p]].peers
    BY <2>3 DEF TableInv, RoomKnowsItsClients
  <2>5. Left(c)[roomID[p]].peers = rooms[roomID[p]].peers \ {c}
    BY <2>3, LeftFacts
  <2>6. QED
    BY <2>2, <2>3, <2>4, <2>5
<1>5. RoomsAreSound'
  BY LeftIsSound DEF RoomsAreSound
<1>6. QED
  BY <1>2, <1>3, <1>4, <1>5 DEF TableInv

LEMMA TableCreate ==
    ASSUME TypeOK, TableInv, NEW c \in Registered, NEW r \in Rooms \ drawn,
           drawn' = drawn \cup {r}, conn' = conn,
           rooms' = PutRoom(Left(c), r, [host |-> c, peers |-> {c}]),
           roomID' = [roomID EXCEPT ![c] = r]
    PROVE  TableInv'
<1>0. c \in Clients /\ [host |-> c, peers |-> {c}] \in Room
  BY DEF Registered, Room
<1>1. /\ Table(Left(c))
      /\ DOMAIN rooms' = DOMAIN Left(c) \cup {r}
      /\ rooms'[r] = [host |-> c, peers |-> {c}]
      /\ \A q \in DOMAIN Left(c) : q # r /\ rooms'[q] = Left(c)[q]
  <2>1. Table(Left(c))
    BY LeftFacts
  <2>2. \A q \in DOMAIN Left(c) : q # r
    BY LeftIsSound
  <2>3. /\ DOMAIN rooms' = DOMAIN Left(c) \cup {r}
        /\ \A q \in DOMAIN Left(c) \cup {r} :
              rooms'[q] = IF q = r THEN [host |-> c, peers |-> {c}] ELSE Left(c)[q]
    BY DEF PutRoom
  <2>4. QED
    BY <2>1, <2>2, <2>3
<1>2. /\ \A p \in Clients \ {c} : roomID'[p] = roomID[p]
      /\ roomID'[c] = r
      /\ Registered' = Registered
  BY <1>0 DEF TypeOK, Registered
<1>3. \A p \in Clients : roomID[p] # r
  BY DEF TableInv, IdsAreDrawn
<1>4. IdsAreDrawn' /\ StrangersAreNowhere'
  <2>1. IdsAreDrawn'
    <3>1. \A q \in DOMAIN Left(c) : q \in drawn
      BY LeftIsSound
    <3>2. \A p \in Clients : roomID'[p] \in {roomID[p], r}
      BY <1>2
    <3>3. QED
      BY <1>1, <3>1, <3>2 DEF TableInv, IdsAreDrawn
  <2>2. StrangersAreNowhere'
    BY <1>0, <1>2 DEF TableInv, StrangersAreNowhere, Registered
  <2>3. QED
    BY <2>1, <2>2
<1>5. PeersPointBack'
  <2> SUFFICES ASSUME NEW q \in DOMAIN rooms', NEW p \in rooms'[q].peers
               PROVE  p \in Registered /\ roomID'[p] = q
    BY <1>2 DEF PeersPointBack
  <2>1. CASE q = r
    BY <1>1, <1>2, <2>1
  <2>2. CASE q # r
    <3>1. q \in DOMAIN Left(c) /\ p \in Left(c)[q].peers
      BY <1>1, <2>2
    <3>2. p \in Registered /\ roomID[p] = q /\ p # c /\ p \in Clients
      BY <3>1, LeftIsSound
    <3>3. QED
      BY <1>2, <3>2
  <2>3. QED
    BY <2>1, <2>2
<1>6. RoomKnowsItsClients'
  <2> SUFFICES ASSUME NEW p \in Registered, roomID'[p] \in DOMAIN rooms'
               PROVE  p \in rooms'[roomID'[p]].peers
    BY <1>2 DEF RoomKnowsItsClients
  <2>0. p \in Clients
    BY DEF Registered
  <2>1. CASE p = c
    BY <1>1, <1>2, <2>1
  <2>2. CASE p # c
    <3>1. roomID'[p] = roomID[p] /\ roomID[p] # r /\ roomID[p] \in DOMAIN Left(c)
      BY <1>1, <1>2, <1>3, <2>0, <2>2
    <3>2. roomID[p] \in DOMAIN rooms
      BY <3>1, LeftIsSound
    <3>3. p \in rooms[roomID[p]].peers
      BY <3>2 DEF TableInv, RoomKnowsItsClients
    <3>4. Left(c)[roomID[p]].peers = rooms[roomID[p]].peers \ {c}
      BY <3>1, LeftFacts
    <3>5. QED
      BY <1>1, <2>2, <3>1, <3>3, <3>4
  <2>3. QED
    BY <2>1, <2>2
<1>7. RoomsAreSound'
  <2>1. Cardinality({c}) = 1 /\ 1 <= MaxPeers
    BY FS_Singleton
  <2>2. \A q \in DOMAIN Left(c) :
           Left(c)[q].host \in Left(c)[q].peers /\ Cardinality(Left(c)[q].peers) <= MaxPeers
    BY LeftIsSound
  <2> SUFFICES ASSUME NEW q \in DOMAIN rooms'
               PROVE  /\ rooms'[q].host \in rooms'[q].peers
                      /\ Cardinality(rooms'[q].peers) <= MaxPeers
    BY DEF RoomsAreSound
  <2>3. CASE q = r
    BY <1>1, <2>1, <2>3
  <2>4. CASE q # r
    BY <1>1, <2>2, <2>4
  <2>5. QED
    BY <2>3, <2>4
<1>8. QED
  BY <1>4, <1>5, <1>6, <1>7 DEF TableInv

LEMMA TableJoin ==
    ASSUME TypeOK, TableInv, NEW c \in Registered, NEW r \in DOMAIN rooms,
           Cardinality(rooms[r].peers) < MaxPeers,
           drawn' = drawn, conn' = conn,
           rooms' = IF r \in DOMAIN Left(c)
                    THEN PutRoom(Left(c), r, [host |-> Left(c)[r].host,
                                              peers |-> rooms[r].peers \cup {c}])
                    ELSE Left(c),
           roomID' = [roomID EXCEPT ![c] = r]
    PROVE  TableInv'
<1> DEFINE peers == rooms[r].peers \cup {c}
<1>0. /\ c \in Clients /\ r \in Rooms /\ r \in drawn
      /\ rooms[r].peers \in SUBSET Clients /\ peers \in SUBSET Clients
      /\ IsFiniteSet(rooms[r].peers)
  <2>1. c \in Clients /\ r \in Rooms /\ r \in drawn /\ rooms[r].peers \in SUBSET Clients
    BY DEF Registered, TypeOK, Room, TableInv, IdsAreDrawn
  <2>2. QED
    BY <2>1, FS_Subset
<1>1. DOMAIN rooms' = DOMAIN Left(c) /\ \A q \in DOMAIN Left(c) \ {r} : rooms'[q] = Left(c)[q]
  <2>1. CASE r \in DOMAIN Left(c)
    <3>1. rooms' = [q \in DOMAIN Left(c) \cup {r} |->
                      IF q = r THEN [host |-> Left(c)[r].host, peers |-> peers] ELSE Left(c)[q]]
      BY <2>1 DEF PutRoom
    <3> HIDE DEF peers
    <3>2. QED
      BY <2>1, <3>1
  <2>2. CASE r \notin DOMAIN Left(c)
    BY <2>2
  <2>3. QED
    BY <2>1, <2>2
<1>2. r \in DOMAIN Left(c) => rooms'[r] = [host |-> Left(c)[r].host, peers |-> peers]
  BY DEF PutRoom
<1>3. /\ \A p \in Clients \ {c} : roomID'[p] = roomID[p]
      /\ roomID'[c] = r
      /\ Registered' = Registered
  BY <1>0 DEF TypeOK, Registered
<1>4. IdsAreDrawn' /\ StrangersAreNowhere'
  <2>1. IdsAreDrawn'
    BY <1>0, <1>1, <1>3, LeftIsSound DEF TableInv, IdsAreDrawn
  <2>2. StrangersAreNowhere'
    BY <1>0, <1>3 DEF TableInv, StrangersAreNowhere, Registered
  <2>3. QED
    BY <2>1, <2>2
<1>5. PeersPointBack'
  <2> SUFFICES ASSUME NEW q \in DOMAIN Left(c), NEW p \in rooms'[q].peers
               PROVE  p \in Registered /\ roomID'[p] = q
    BY <1>1, <1>3 DEF PeersPointBack
  <2>1. CASE p = c /\ q = r
    BY <1>3, <2>1
  <2>2. CASE p # c /\ q = r
    <3>1. p \in rooms[r].peers
      BY <1>2, <2>2
    <3>2. p \in Registered /\ roomID[p] = r
      BY <3>1 DEF TableInv, PeersPointBack
    <3>3. QED
      BY <1>3, <2>2, <3>2 DEF Registered
  <2>3. CASE q # r
    <3>1. p \in Left(c)[q].peers
      BY <1>1, <2>3
    <3>2. p \in Registered /\ roomID[p] = q /\ p # c /\ p \in Clients
      BY <3>1, LeftIsSound
    <3>3. QED
      BY <1>3, <3>2
  <2>4. QED
    BY <2>1, <2>2, <2>3
<1>6. RoomKnowsItsClients'
  <2> SUFFICES ASSUME NEW p \in Registered, roomID'[p] \in DOMAIN Left(c)
               PROVE  p \in rooms'[roomID'[p]].peers
    BY <1>1, <1>3 DEF RoomKnowsItsClients
  <2>0. p \in Clients
    BY DEF Registered
  <2>1. CASE p = c
    BY <1>2, <1>3, <2>1
  <2>2. CASE p # c
    <3>1. roomID'[p] = roomID[p] /\ roomID[p] \in DOMAIN rooms
      BY <1>3, <2>0, <2>2, LeftIsSound
    <3>2. p \in rooms[roomID[p]].peers
      BY <3>1 DEF TableInv, RoomKnowsItsClients
    <3>3. p \in Left(c)[roomID[p]].peers
      <4>1. Left(c)[roomID[p]].peers = rooms[roomID[p]].peers \ {c}
        BY <3>1, LeftFacts
      <4>2. QED
        BY <2>2, <3>2, <4>1
    <3>4. QED
      BY <1>1, <1>2, <3>1, <3>2, <3>3
  <2>3. QED
    BY <2>1, <2>2
<1>7. RoomsAreSound'
  <2>1. Cardinality(peers) <= MaxPeers
    <3>1. /\ Cardinality(rooms[r].peers) \in Nat
          /\ Cardinality(peers) = IF c \in rooms[r].peers THEN Cardinality(rooms[r].peers)
                                  ELSE Cardinality(rooms[r].peers) + 1
      BY <1>0, FS_CardinalityType, FS_AddElement
    <3> HIDE DEF peers
    <3>2. QED
      BY <3>1
  <2>2. \A q \in DOMAIN Left(c) :
           Left(c)[q].host \in Left(c)[q].peers /\ Cardinality(Left(c)[q].peers) <= MaxPeers
    BY LeftIsSound
  <2>3. r \in DOMAIN Left(c) => Left(c)[r].host \in peers
    <3>1. r \in DOMAIN Left(c) => Left(c)[r].peers = rooms[r].peers \ {c}
      BY LeftFacts
    <3>2. QED
      BY <2>2, <3>1
  <2> SUFFICES ASSUME NEW q \in DOMAIN rooms'
               PROVE  /\ rooms'[q].host \in rooms'[q].peers
                      /\ Cardinality(rooms'[q].peers) <= MaxPeers
    BY DEF RoomsAreSound
  <2> HIDE DEF peers
  <2>4. CASE q = r
    BY <1>1, <1>2, <2>1, <2>3, <2>4
  <2>5. CASE q # r
    BY <1>1, <2>2, <2>5
  <2>6. QED
    BY <2>4, <2>5
<1>8. QED
  BY <1>4, <1>5, <1>6, <1>7 DEF TableInv

LEMMA TableUnchanged ==
    ASSUME TypeOK, TableInv, UNCHANGED <<conn, roomID, rooms, drawn>>
    PROVE  TableInv'
BY DEF TableInv, IdsAreDrawn, StrangersAreNowhere, PeersPointBack, RoomKnowsItsClients,
       RoomsAreSound, Registered

\* Nothing is in a room whose state the change of c from idle, or to broken, touches.
LEMMA TableConnection ==
    ASSUME TypeOK, TableInv, NEW c \in Clients, Connect(c) \/ SocketFails(c)
    PROVE  TableInv'
<1>1. /\ roomID' = roomID /\ rooms' = rooms /\ drawn' = drawn
      /\ \A p \in Clients \ {c} : conn'[p] = conn[p]
      /\ conn'[c] \in {"open", "broken"}
      /\ conn[c] \in {"idle", "open"}
  BY DEF Connect, SocketFails, TypeOK
<1>2. Registered \subseteq Registered' /\ Registered' \subseteq Registered \cup {c}
  BY <1>1 DEF Registered
<1>3. c \notin Registered => roomID[c] = NoRoom
  BY <1>1 DEF TableInv, StrangersAreNowhere, Registered
<1>4. IdsAreDrawn' /\ StrangersAreNowhere'
  BY <1>1 DEF TableInv, IdsAreDrawn, StrangersAreNowhere
<1>5. PeersPointBack'
  BY <1>1, <1>2 DEF TableInv, PeersPointBack
<1>6. RoomKnowsItsClients'
  <2>1. NoRoom \notin DOMAIN rooms
    BY DEF TypeOK
  <2>2. QED
    BY <1>1, <1>2, <1>3, <2>1 DEF TableInv, RoomKnowsItsClients
<1>7. RoomsAreSound'
  BY <1>1 DEF TableInv, RoomsAreSound
<1>8. QED
  BY <1>4, <1>5, <1>6, <1>7 DEF TableInv

LEMMA TableStep ==
    ASSUME TypeOK, TableInv, [Next]_vars
    PROVE  TableInv'
<1>1. ASSUME NEW c \in Clients, Handle(c)
      PROVE  TableInv'
  <2>1. CASE CreateRoom(c)
    BY <2>1, TableCreate DEF CreateRoom, Reads
  <2>2. ASSUME NEW r \in Rooms, JoinRoom(c, r)
        PROVE  TableInv'
    BY <2>2, TableJoin DEF JoinRoom, Reads, HasSpace
  <2>3. CASE LeaveRoom(c)
    BY <2>3, TableLeave DEF LeaveRoom, Reads
  <2>4. ASSUME \/ Hello(c) \/ ListRooms(c) \/ BroadcastPeerStatus(c) \/ Answer(c)
               \/ \E r \in Rooms : JoinRefused(c, r)
               \/ \E target \in Clients : RouteToPeer(c, target)
               \/ \E sized \in BOOLEAN : BroadcastVoiceFrame(c, sized)
        PROVE  TableInv'
    <3>1. UNCHANGED <<conn, roomID, rooms, drawn>>
      BY <2>4 DEF Hello, ListRooms, BroadcastPeerStatus, Answer, JoinRefused, RouteToPeer,
                  BroadcastVoiceFrame
    <3>2. QED
      BY <3>1, TableUnchanged
  <2>5. QED
    BY <1>1, <2>1, <2>2, <2>3, <2>4 DEF Handle
<1>2. ASSUME NEW c \in Clients, RemoveClient(c)
      PROVE  TableInv'
  BY <1>2, TableLeave DEF RemoveClient, Registered
<1>3. ASSUME NEW c \in Clients, HelloRooms(c) \/ WriteLoop(c)
      PROVE  TableInv'
  BY <1>3, TableUnchanged DEF HelloRooms, WriteLoop
<1>4. CASE Deliver \/ AllGone \/ UNCHANGED vars
  BY <1>4, TableUnchanged DEF Deliver, AllGone, vars, hubVars
<1>5. QED
  BY <1>1, <1>2, <1>3, <1>4, TableConnection DEF Next, HubStep, Connection

LEMMA TableInit == Init => TableInv
<1> SUFFICES ASSUME Init PROVE TableInv
  OBVIOUS
<1>1. DOMAIN rooms = {} /\ drawn = {} /\ \A c \in Clients : roomID[c] = NoRoom
  BY DEF Init
<1>2. QED
  BY <1>1 DEF TableInv, IdsAreDrawn, StrangersAreNowhere, PeersPointBack, RoomKnowsItsClients,
              RoomsAreSound

THEOREM TableInvariant == Spec => [](TypeOK /\ TableInv)
<1>1. Init => TableInv
  BY TableInit
<1>2. TypeOK /\ TableInv /\ [Next]_vars => TableInv'
  BY TableStep
<1>3. QED
  BY <1>1, <1>2, TypeCorrect, PTL DEF Spec

\* Room.Peers and Client.roomID agree for every number of clients and rooms.
THEOREM TablesAgree == Spec => [](PeersPointBack /\ RoomKnowsItsClients)
<1>1. TableInv => PeersPointBack /\ RoomKnowsItsClients
  BY DEF TableInv
<1>2. QED
  BY <1>1, TableInvariant, PTL

\* No room outgrows maxPeersPerRoom, is listed empty or is hosted by somebody
\* who is not in it.
THEOREM Soundness == Spec => []RoomsAreSound
<1>1. TableInv => RoomsAreSound
  BY DEF TableInv
<1>2. QED
  BY <1>1, TableInvariant, PTL
\* A client that is listed in a room is the one in Room.Peers, on both sides.
THEOREM ClientsAreListed == Spec => []RoomKnowsItsClients
<1>1. TableInv => RoomKnowsItsClients
  BY DEF TableInv
<1>2. QED
  BY <1>1, TableInvariant, PTL
----------------------------------------------------------------------------
(* The host role. *)

\* The conclusion of HostMovesToLeast for one step.
HostMoves ==
    \A r \in DOMAIN rooms \cap DOMAIN rooms' :
        LET old == rooms[r].host
            stay == rooms[r].peers \ {old}
        IN  rooms'[r].host # old =>
                /\ rooms'[r].host = Least(stay)
                /\ posts'[1] = [to |-> stay,
                                env |-> [type |-> "peer_left", room |-> r, peer |-> old]]

\* If leaving changes the host of a room, the host has left it, and says goodbye.
LEMMA HostLeaves ==
    ASSUME TypeOK, TableInv, NEW c \in Registered, NEW r \in DOMAIN Left(c),
           Left(c)[r].host # rooms[r].host
    PROVE  LET stay == rooms[r].peers \ {c}
           IN  /\ rooms[r].host = c /\ Left(c)[r].host = Least(stay)
               /\ Goodbye(c) = <<[to |-> stay,
                                  env |-> [type |-> "peer_left", room |-> r, peer |-> c]]>>
<1>1. r \in DOMAIN rooms /\ rooms[r].peers \ {c} # {}
  BY LeftFacts
<1>2. rooms[r].host = c /\ Left(c)[r].host = Least(rooms[r].peers \ {c})
  BY LeftFacts
<1>3. c \in rooms[r].peers
  BY <1>1, <1>2 DEF TableInv, RoomsAreSound
<1>4. roomID[c] = r
  BY <1>1, <1>3 DEF TableInv, PeersPointBack
<1>5. QED
  BY <1>1, <1>2, <1>4 DEF Goodbye

\* The handlers that let their client leave: what was said first is the goodbye.
LEMMA HostLeft ==
    ASSUME TypeOK, TableInv, NEW c \in Registered, NEW S, NEW rest \in Seq(S),
           posts' = Goodbye(c) \o rest,
           \A r \in DOMAIN rooms \cap DOMAIN rooms' :
               r \in DOMAIN Left(c) /\ rooms'[r].host = Left(c)[r].host
    PROVE  HostMoves
<1> SUFFICES ASSUME NEW r \in DOMAIN rooms \cap DOMAIN rooms', rooms'[r].host # rooms[r].host
             PROVE  LET stay == rooms[r].peers \ {rooms[r].host}
                    IN  /\ rooms'[r].host = Least(stay)
                        /\ posts'[1] = [to |-> stay, env |-> [type |-> "peer_left", room |-> r,
                                                              peer |-> rooms[r].host]]
  BY DEF HostMoves
<1> DEFINE post == [to |-> rooms[r].peers \ {c},
                    env |-> [type |-> "peer_left", room |-> r, peer |-> c]]
<1>1. r \in DOMAIN Left(c) /\ rooms'[r].host = Left(c)[r].host
  OBVIOUS
<1>2. /\ rooms[r].host = c /\ Left(c)[r].host = Least(rooms[r].peers \ {c})
      /\ Goodbye(c) = <<post>>
  BY <1>1, HostLeaves
<1>3. posts' = <<post>> \o rest
  BY <1>2
<1> HIDE DEF post
<1>4. posts'[1] = post
  BY <1>3
<1>5. QED
  BY <1>1, <1>2, <1>4 DEF post

LEMMA HostStep ==
    ASSUME TypeOK, TableInv, [Next]_vars
    PROVE  HostMoves
<1>1. rooms' = rooms => HostMoves
  BY DEF HostMoves
<1>2. ASSUME NEW c \in Clients, CreateRoom(c)
      PROVE  HostMoves
  <2>1. PICK r \in Rooms \ drawn :
          /\ rooms' = PutRoom(Left(c), r, [host |-> c, peers |-> {c}])
          /\ posts' = Goodbye(c)
                \o <<[to |-> {c}, env |-> [type |-> "room_created", room |-> r, peers |-> {c}]],
                     [to |-> Registered, env |-> RoomList(rooms')]>>
    BY <1>2 DEF CreateRoom, Sends
  <2> DEFINE p == [to |-> {c}, env |-> [type |-> "room_created", room |-> r, peers |-> {c}]]
             q == [to |-> Registered, env |-> RoomList(rooms')]
  <2>2. c \in Registered /\ r \notin DOMAIN rooms
    BY <1>2 DEF CreateRoom, Reads, TableInv, IdsAreDrawn
  <2>3. \A x \in DOMAIN rooms \cap DOMAIN rooms' :
            x \in DOMAIN Left(c) /\ rooms'[x].host = Left(c)[x].host
    BY <2>1, <2>2 DEF PutRoom
  <2>4. posts' = Goodbye(c) \o <<p, q>>
    BY <2>1
  <2> HIDE DEF p, q
  <2>5. <<p, q>> \in Seq({p, q})
    OBVIOUS
  <2>6. QED
    BY <2>2, <2>3, <2>4, <2>5, HostLeft
<1>3. ASSUME NEW c \in Clients, NEW r \in Rooms, JoinRoom(c, r)
      PROVE  HostMoves
  <2> DEFINE peers == rooms[r].peers \cup {c}
             p == [to |-> {c}, env |-> [type |-> "joined_room", room |-> r, peers |-> peers]]
             q == [to |-> peers \ {c}, env |-> [type |-> "peer_joined", room |-> r, peer |-> c]]
             x == [to |-> Registered, env |-> RoomList(rooms')]
  <2>1. /\ c \in Registered
        /\ rooms' = IF r \in DOMAIN Left(c)
                    THEN PutRoom(Left(c), r, [host |-> Left(c)[r].host, peers |-> peers])
                    ELSE Left(c)
        /\ posts' = Goodbye(c) \o <<p, q, x>>
    BY <1>3 DEF JoinRoom, Reads, Sends
  <2>2. \A y \in DOMAIN rooms \cap DOMAIN rooms' :
            y \in DOMAIN Left(c) /\ rooms'[y].host = Left(c)[y].host
    <3> HIDE DEF peers
    <3>1. QED
      BY <2>1 DEF PutRoom
  <2> HIDE DEF p, q, x
  <2>3. <<p, q, x>> \in Seq({p, q, x})
    OBVIOUS
  <2>4. QED
    BY <2>1, <2>2, <2>3, HostLeft
<1>4. ASSUME NEW c \in Clients, LeaveRoom(c)
      PROVE  HostMoves
  <2> DEFINE p == [to |-> Registered, env |-> RoomList(rooms')]
  <2>1. c \in Registered /\ rooms' = Left(c) /\ posts' = Goodbye(c) \o <<p>>
    BY <1>4 DEF LeaveRoom, Reads, Sends
  <2> HIDE DEF p
  <2>2. <<p>> \in Seq({p})
    OBVIOUS
  <2>3. QED
    BY <2>1, <2>2, HostLeft
<1>5. ASSUME NEW c \in Clients, RemoveClient(c)
      PROVE  HostMoves
  <2> DEFINE p == [to |-> Registered \ {c}, env |-> RoomList(Left(c))]
  <2>1. CASE roomID[c] \in DOMAIN rooms
    <3>1. c \in Registered /\ rooms' = Left(c) /\ posts' = Goodbye(c) \o <<p>>
      BY <1>5, <2>1 DEF RemoveClient, Registered, Sends
    <3> HIDE DEF p
    <3>2. <<p>> \in Seq({p})
      OBVIOUS
    <3>3. QED
      BY <3>1, <3>2, HostLeft
  <2>2. CASE roomID[c] \notin DOMAIN rooms
    BY <1>1, <1>5, <2>2 DEF RemoveClient, Left
  <2>3. QED
    BY <2>1, <2>2
<1>6. ASSUME NEW c \in Clients,
             \/ Hello(c) \/ ListRooms(c) \/ BroadcastPeerStatus(c) \/ Answer(c)
             \/ \E r \in Rooms : JoinRefused(c, r)
             \/ \E target \in Clients : RouteToPeer(c, target)
             \/ \E sized \in BOOLEAN : BroadcastVoiceFrame(c, sized)
             \/ HelloRooms(c) \/ Connect(c) \/ SocketFails(c) \/ WriteLoop(c)
      PROVE  HostMoves
  BY <1>1, <1>6 DEF Hello, ListRooms, BroadcastPeerStatus, Answer, JoinRefused, RouteToPeer,
                    BroadcastVoiceFrame, HelloRooms, Connect, SocketFails, WriteLoop
<1>7. CASE Deliver \/ AllGone \/ UNCHANGED vars
  BY <1>1, <1>7 DEF Deliver, AllGone, vars, hubVars
<1>8. QED
  BY <1>2, <1>3, <1>4, <1>5, <1>6, <1>7 DEF Next, HubStep, Handle, Connection

\* Nobody learns of a new host before the departure of the old one: the new host
\* is the smallest id of those who stay, for every number of clients and rooms.
THEOREM HostOrder == Spec => HostMovesToLeast
<1>1. TypeOK /\ TableInv /\ [Next]_vars => [HostMoves]_vars
  BY HostStep
<1>2. QED
  BY <1>1, TableInvariant, PTL DEF Spec, HostMovesToLeast, HostMoves
----------------------------------------------------------------------------
(* Relays. *)

NoRelay(ps) == \A i \in DOMAIN ps : ps[i].env.type \notin RelayTypes

LEMMA NoRelayConcat ==
    ASSUME NEW s \in Seq(Post), NEW t \in Seq(Post), NoRelay(s), NoRelay(t)
    PROVE  NoRelay(s \o t)
<1> SUFFICES ASSUME NEW i \in DOMAIN (s \o t)
             PROVE  (s \o t)[i].env.type \notin RelayTypes
  BY DEF NoRelay
<1>1. /\ Len(s) \in Nat /\ Len(t) \in Nat /\ DOMAIN s = 1..Len(s) /\ DOMAIN t = 1..Len(t)
      /\ i \in 1..(Len(s) + Len(t))
      /\ (s \o t)[i] = IF i <= Len(s) THEN s[i] ELSE t[i - Len(s)]
  BY ConcatProperties
<1>2. CASE i <= Len(s)
  BY <1>1, <1>2 DEF NoRelay
<1>3. CASE ~(i <= Len(s))
  <2>1. i - Len(s) \in DOMAIN t
    BY <1>1, <1>3
  <2>2. QED
    BY <1>1, <1>3, <2>1 DEF NoRelay
<1>4. QED
  BY <1>2, <1>3

LEMMA GoodbyeIsNoRelay ==
    ASSUME NEW c \in Clients
    PROVE  NoRelay(Goodbye(c))
BY DEF Goodbye, NoRelay, RelayTypes

\* The handlers that change the table relay nothing.
LEMMA TablePostsAreNoRelay ==
    ASSUME TypeOK, NEW c \in Clients,
           \/ CreateRoom(c) \/ LeaveRoom(c) \/ RemoveClient(c)
           \/ \E r \in Rooms : JoinRoom(c, r)
    PROVE  NoRelay(posts')
<1>1. \A ps \in Seq(Post) : NoRelay(ps) => NoRelay(Goodbye(c) \o ps)
  BY GoodbyeType, GoodbyeIsNoRelay, NoRelayConcat
<1>2. CASE CreateRoom(c)
  <2>1. PICK r \in Rooms \ drawn :
          /\ rooms' = PutRoom(Left(c), r, [host |-> c, peers |-> {c}])
          /\ posts' = Goodbye(c)
                \o <<[to |-> {c}, env |-> [type |-> "room_created", room |-> r, peers |-> {c}]],
                     [to |-> Registered, env |-> RoomList(rooms')]>>
    BY <1>2 DEF CreateRoom, Sends
  <2> DEFINE p == [to |-> {c}, env |-> [type |-> "room_created", room |-> r, peers |-> {c}]]
             q == [to |-> Registered, env |-> RoomList(rooms')]
  <2>2. p \in Post /\ q \in Post
    <3>1. [host |-> c, peers |-> {c}] \in Room
      BY DEF Room
    <3>2. Table(rooms')
      BY <2>1, <3>1, LeftType, PutRoomType
    <3>3. QED
      BY <3>2, EnvelopeTypes, RoomListType, RegisteredType, PostType
  <2>3. p.env.type \notin RelayTypes /\ q.env.type \notin RelayTypes
    BY DEF RelayTypes, RoomList
  <2>4. posts' = Goodbye(c) \o <<p, q>>
    BY <2>1
  <2> HIDE DEF p, q
  <2>5. <<p, q>> \in Seq(Post) /\ NoRelay(<<p, q>>)
    BY <2>2, <2>3 DEF NoRelay
  <2>6. QED
    BY <1>1, <2>4, <2>5
<1>3. CASE LeaveRoom(c)
  <2> DEFINE p == [to |-> Registered, env |-> RoomList(rooms')]
  <2>1. p \in Post /\ p.env.type \notin RelayTypes
    BY <1>3, LeftType, RoomListType, RegisteredType, PostType DEF LeaveRoom, RelayTypes, RoomList
  <2>2. posts' = Goodbye(c) \o <<p>>
    BY <1>3 DEF LeaveRoom, Sends
  <2> HIDE DEF p
  <2>3. <<p>> \in Seq(Post) /\ NoRelay(<<p>>)
    BY <2>1 DEF NoRelay
  <2>4. QED
    BY <1>1, <2>2, <2>3
<1>4. CASE RemoveClient(c)
  <2> DEFINE p == [to |-> Registered \ {c}, env |-> RoomList(Left(c))]
  <2>1. p \in Post /\ p.env.type \notin RelayTypes
    BY LeftType, RoomListType, RegisteredType, PostType DEF RelayTypes, RoomList
  <2>2. posts' = Goodbye(c) \o <<p>> \/ posts' = <<>>
    BY <1>4 DEF RemoveClient, Sends
  <2> HIDE DEF p
  <2>3. <<p>> \in Seq(Post) /\ NoRelay(<<p>>) /\ NoRelay(<<>>)
    BY <2>1 DEF NoRelay
  <2>4. QED
    BY <1>1, <2>2, <2>3
<1>5. ASSUME NEW r \in Rooms, JoinRoom(c, r)
      PROVE  NoRelay(posts')
  <2> DEFINE peers == rooms[r].peers \cup {c}
             p == [to |-> {c}, env |-> [type |-> "joined_room", room |-> r, peers |-> peers]]
             q == [to |-> peers \ {c}, env |-> [type |-> "peer_joined", room |-> r, peer |-> c]]
             l == [to |-> Registered, env |-> RoomList(rooms')]
  <2>1. posts' = Goodbye(c) \o <<p, q, l>>
    BY <1>5 DEF JoinRoom, Sends
  <2>2. peers \in SUBSET Clients
    BY <1>5 DEF JoinRoom, HasSpace, TypeOK, Room
  <2>3. l \in Post
    <3>1. Table(rooms')
      BY <1>5, JoinRoomTable
    <3>2. QED
      BY <3>1, RoomListType, RegisteredType, PostType
  <2>4. p \in Post /\ q \in Post
    BY <2>2, EnvelopeTypes, PostType
  <2>5. p.env.type \notin RelayTypes /\ q.env.type \notin RelayTypes /\ l.env.type \notin RelayTypes
    BY DEF RelayTypes, RoomList
  <2> HIDE DEF p, q, l
  <2>6. <<p, q, l>> \in Seq(Post) /\ NoRelay(<<p, q, l>>)
    BY <2>3, <2>4, <2>5 DEF NoRelay
  <2>7. QED
    BY <1>1, <2>1, <2>6
<1>6. QED
  BY <1>2, <1>3, <1>4, <1>5

LEMMA RelayStep ==
    ASSUME TypeOK, TableInv, RelaysStayInTheRoom, [Next]_vars
    PROVE  RelaysStayInTheRoom'
<1>1. ASSUME posts' = posts, roomID' = roomID
      PROVE  RelaysStayInTheRoom'
  BY <1>1 DEF RelaysStayInTheRoom
<1>2. ASSUME NoRelay(posts')
      PROVE  RelaysStayInTheRoom'
  BY <1>2 DEF RelaysStayInTheRoom, NoRelay
<1>3. ASSUME NEW c \in Clients, NEW type \in RelayTypes, Broadcast(c, type), roomID' = roomID
      PROVE  RelaysStayInTheRoom'
  <2>1. CASE roomID[c] \in DOMAIN rooms
    <3>1. posts' = <<[to |-> rooms[roomID[c]].peers \ {c},
                      env |-> [type |-> type, room |-> roomID[c], peer |-> c]]>>
      BY <1>3, <2>1 DEF Broadcast, Sends
    <3>2. \A q \in rooms[roomID[c]].peers : roomID[q] = roomID[c]
      BY <2>1 DEF TableInv, PeersPointBack
    <3>3. QED
      BY <1>3, <3>1, <3>2 DEF RelaysStayInTheRoom
  <2>2. CASE roomID[c] \notin DOMAIN rooms
    BY <1>2, <1>3, <2>2 DEF Broadcast, Sends, NoRelay
  <2>3. QED
    BY <2>1, <2>2
<1>4. ASSUME NEW c \in Clients, Handle(c)
      PROVE  RelaysStayInTheRoom'
  <2>1. CASE CreateRoom(c) \/ LeaveRoom(c) \/ \E r \in Rooms : JoinRoom(c, r)
    BY <1>2, <2>1, TablePostsAreNoRelay
  <2>2. CASE Hello(c) \/ Answer(c)
    BY <1>1, <2>2 DEF Hello, Answer
  <2>3. CASE ListRooms(c)
    BY <1>2, <2>3 DEF ListRooms, Sends, NoRelay, RoomList, RelayTypes
  <2>4. ASSUME NEW r \in Rooms, JoinRefused(c, r)
        PROVE  RelaysStayInTheRoom'
    BY <1>2, <2>4 DEF JoinRefused, Sends, NoRelay, RelayTypes
  <2>5. ASSUME NEW target \in Clients, RouteToPeer(c, target)
        PROVE  RelaysStayInTheRoom'
    <3> DEFINE reachable == target \in Registered /\ roomID[c] # NoRoom /\ roomID[target] = roomID[c]
    <3>1. CASE reachable
      <4>1. posts' = <<[to |-> {target}, env |-> [type |-> "ice", room |-> roomID[c], peer |-> c]]>>
        BY <2>5, <3>1 DEF RouteToPeer, Sends
      <4>2. QED
        BY <2>5, <3>1, <4>1 DEF RelaysStayInTheRoom, RouteToPeer
    <3>2. CASE ~reachable
      BY <1>2, <2>5, <3>2 DEF RouteToPeer, Sends, NoRelay, RelayTypes
    <3>3. QED
      BY <3>1, <3>2
  <2>6. CASE BroadcastPeerStatus(c)
    BY <1>3, <2>6 DEF BroadcastPeerStatus, RelayTypes
  <2>7. ASSUME NEW sized \in BOOLEAN, BroadcastVoiceFrame(c, sized)
        PROVE  RelaysStayInTheRoom'
    BY <1>1, <1>3, <2>7 DEF BroadcastVoiceFrame, RelayTypes
  <2>8. QED
    BY <1>4, <2>1, <2>2, <2>3, <2>4, <2>5, <2>6, <2>7 DEF Handle
<1>5. ASSUME NEW c \in Clients, HelloRooms(c)
      PROVE  RelaysStayInTheRoom'
  BY <1>2, <1>5 DEF HelloRooms, Sends, NoRelay, RoomList, RelayTypes
<1>6. ASSUME NEW c \in Clients, RemoveClient(c)
      PROVE  RelaysStayInTheRoom'
  BY <1>2, <1>6, TablePostsAreNoRelay
<1>7. CASE Deliver
  <2>1. roomID' = roomID /\ posts' = Tail(posts) /\ posts \in Seq(Post) /\ posts # <<>>
    BY <1>7 DEF Deliver, TypeOK
  <2>2. \A i \in DOMAIN Tail(posts) : i + 1 \in DOMAIN posts /\ Tail(posts)[i] = posts[i + 1]
    BY <2>1, HeadTailProperties
  <2>3. QED
    BY <2>1, <2>2 DEF RelaysStayInTheRoom
<1>8. ASSUME NEW c \in Clients, Connect(c) \/ SocketFails(c) \/ WriteLoop(c)
      PROVE  RelaysStayInTheRoom'
  BY <1>1, <1>8 DEF Connect, SocketFails, WriteLoop
<1>9. CASE AllGone \/ UNCHANGED vars
  BY <1>1, <1>9 DEF AllGone, vars, hubVars
<1>10. QED
  BY <1>4, <1>5, <1>6, <1>7, <1>8, <1>9 DEF Next, HubStep, Connection

\* Nothing a client relays leaves the room it is in, and no broadcast echoes.
THEOREM Confinement == Spec => []RelaysStayInTheRoom
<1>1. Init => RelaysStayInTheRoom
  BY DEF Init, RelaysStayInTheRoom
<1>2. TypeOK /\ TableInv /\ RelaysStayInTheRoom /\ [Next]_vars => RelaysStayInTheRoom'
  BY RelayStep
<1>3. QED
  BY <1>1, <1>2, TableInvariant, PTL DEF Spec
----------------------------------------------------------------------------
(***************************************************************************)
(* The hub implements the room service: every handler is one move of it.   *)
(***************************************************************************)

\* The refinement mapping of Service.
At == [c \in Clients |-> IF conn[c] \in {"open", "broken"} /\ roomID[c] \in DOMAIN rooms
                       THEN roomID[c] ELSE NoRoom]
HostOf == [r \in DOMAIN rooms |-> rooms[r].host]

\* Under the mapping a room's members are its peers.
LEMMA MembersArePeers ==
    ASSUME TypeOK, TableInv, NEW r \in DOMAIN rooms
    PROVE  {c \in Clients : At[c] = r} = rooms[r].peers
<1>1. r \in Rooms /\ r # NoRoom /\ rooms[r].peers \in SUBSET Clients
  BY DEF TypeOK, Room
<1>2. ASSUME NEW c \in rooms[r].peers
      PROVE  At[c] = r
  BY <1>1, <1>2 DEF At, Registered, TableInv, PeersPointBack
<1>3. ASSUME NEW c \in Clients, At[c] = r
      PROVE  c \in rooms[r].peers
  BY <1>1, <1>3 DEF At, Registered, TableInv, RoomKnowsItsClients
<1>4. QED
  BY <1>1, <1>2, <1>3

\* What the hub leaves behind when c goes is what the service does.
LEMMA LeftIsHandover ==
    ASSUME TypeOK, TableInv, NEW c \in Registered
    PROVE  Service!Handover(c) = [r \in DOMAIN Left(c) |-> Left(c)[r].host]
<1>1. \A r \in DOMAIN rooms : Service!Members(r) = rooms[r].peers
  BY MembersArePeers DEF Service!Members, At
<1>2. Service!Handover(c) =
        [r \in {q \in DOMAIN HostOf : Service!Members(q) \ {c} # {}} |->
           IF HostOf[r] = c THEN Service!Least(Service!Members(r) \ {c}) ELSE HostOf[r]]
  BY DEF Service!Handover, HostOf
<1>3. {q \in DOMAIN HostOf : Service!Members(q) \ {c} # {}} = DOMAIN Left(c)
  BY <1>1, LeftFacts DEF HostOf
<1>4. \A S : Service!Least(S) = Least(S)
  BY DEF Service!Least, Least
<1>5. ASSUME NEW r \in DOMAIN Left(c)
      PROVE  (IF HostOf[r] = c THEN Service!Least(Service!Members(r) \ {c}) ELSE HostOf[r])
                = Left(c)[r].host
  <2>1. r \in DOMAIN rooms
    BY LeftFacts
  <2>2. Left(c)[r].host = IF rooms[r].host = c THEN Least(rooms[r].peers \ {c}) ELSE rooms[r].host
    BY LeftFacts
  <2>3. QED
    BY <1>1, <1>4, <2>1, <2>2 DEF HostOf
<1>6. QED
  BY <1>2, <1>3, <1>5

\* A client that is still there after c has gone is where it was.
LEMMA OthersStay ==
    ASSUME TypeOK, TableInv, NEW c \in Registered, NEW p \in Clients, p # c
    PROVE  (p \in Registered /\ roomID[p] \in DOMAIN Left(c)) <=>
           (p \in Registered /\ roomID[p] \in DOMAIN rooms)
<1>1. ASSUME p \in Registered, roomID[p] \in DOMAIN rooms
      PROVE  roomID[p] \in DOMAIN Left(c)
  <2>1. p \in rooms[roomID[p]].peers
    BY <1>1 DEF TableInv, RoomKnowsItsClients
  <2>2. QED
    BY <1>1, <2>1, LeftFacts
<1>2. DOMAIN Left(c) \subseteq DOMAIN rooms
  BY LeftFacts
<1>3. QED
  BY <1>1, <1>2

LEMMA LeaveIsAMove ==
    ASSUME TypeOK, TableInv, NEW c \in Registered, rooms' = Left(c), drawn' = drawn,
           \/ roomID' = [roomID EXCEPT ![c] = NoRoom] /\ conn' = conn
           \/ roomID' = roomID /\ conn' = [conn EXCEPT ![c] = "gone"]
    PROVE  Service!Leave(c) \/ UNCHANGED <<At, HostOf, drawn>>
<1>0. c \in Clients
  BY DEF Registered
<1>1. /\ \A p \in Clients \ {c} : roomID'[p] = roomID[p] /\ ((p \in Registered)' <=> p \in Registered)
      /\ (c \in Registered)' => roomID'[c] = NoRoom
  BY <1>0 DEF TypeOK, Registered
<1>2. NoRoom \notin DOMAIN Left(c)
  <2>1. DOMAIN Left(c) \subseteq DOMAIN rooms
    BY LeftFacts
  <2>2. QED
    BY <2>1 DEF TypeOK
<1>3. At' = [At EXCEPT ![c] = NoRoom]
  <2>1. At'[c] = NoRoom
    BY <1>0, <1>1, <1>2 DEF At, Registered
  <2>2. ASSUME NEW p \in Clients \ {c}
        PROVE  At'[p] = At[p]
    BY <1>1, OthersStay DEF At, Registered
  <2>3. QED
    BY <1>0, <2>1, <2>2 DEF At
<1>4. HostOf' = Service!Handover(c)
  BY LeftIsHandover DEF HostOf
<1>5. CASE At[c] # NoRoom
  BY <1>3, <1>4, <1>5 DEF Service!Leave, At, HostOf
<1>6. CASE At[c] = NoRoom
  <2>1. roomID[c] \notin DOMAIN rooms
    BY <1>0, <1>6 DEF At, Registered, TypeOK
  <2>2. rooms' = rooms
    BY <2>1 DEF Left
  <2>3. At' = At
    BY <1>0, <1>3, <1>6 DEF At
  <2>4. QED
    BY <2>2, <2>3 DEF HostOf
<1>7. QED
  BY <1>5, <1>6

LEMMA CreateIsAMove ==
    ASSUME TypeOK, TableInv, NEW c \in Registered, NEW r \in Rooms \ drawn,
           drawn' = drawn \cup {r}, conn' = conn,
           rooms' = PutRoom(Left(c), r, [host |-> c, peers |-> {c}]),
           roomID' = [roomID EXCEPT ![c] = r]
    PROVE  Service!Open(c, r)
<1>0. c \in Clients
  BY DEF Registered
<1>1. Registered' = Registered
  BY DEF Registered
<1>2. DOMAIN rooms' = DOMAIN Left(c) \cup {r} /\ r \notin DOMAIN Left(c)
  BY LeftIsSound DEF PutRoom
<1>3. At' = [At EXCEPT ![c] = r]
  <2>1. At'[c] = r
    BY <1>0, <1>1, <1>2 DEF At, Registered, TypeOK
  <2>2. ASSUME NEW p \in Clients \ {c}
        PROVE  At'[p] = At[p]
    <3>1. roomID'[p] = roomID[p] /\ roomID[p] # r
      BY <1>0 DEF TypeOK, TableInv, IdsAreDrawn
    <3>2. QED
      BY <1>0, <1>1, <1>2, <3>1, OthersStay DEF At, Registered
  <2>3. QED
    BY <1>0, <2>1, <2>2 DEF At
<1>4. HostOf' = [q \in DOMAIN Service!Handover(c) \cup {r} |->
                   IF q = r THEN c ELSE Service!Handover(c)[q]]
  <2>1. HostOf' = [q \in DOMAIN Left(c) \cup {r} |-> IF q = r THEN c ELSE Left(c)[q].host]
    BY <1>2 DEF HostOf, PutRoom
  <2>2. QED
    BY <2>1, LeftIsHandover
<1>5. QED
  BY <1>3, <1>4 DEF Service!Open, At, HostOf

LEMMA JoinIsAMove ==
    ASSUME TypeOK, TableInv, NEW c \in Registered, NEW r \in DOMAIN rooms,
           Cardinality(rooms[r].peers) < MaxPeers,
           drawn' = drawn, conn' = conn,
           rooms' = IF r \in DOMAIN Left(c)
                    THEN PutRoom(Left(c), r, [host |-> Left(c)[r].host,
                                              peers |-> rooms[r].peers \cup {c}])
                    ELSE Left(c),
           roomID' = [roomID EXCEPT ![c] = r]
    PROVE  Service!Enter(c, r) \/ Service!Return(c) \/ Service!Leave(c)
<1>0. c \in Clients /\ r \in Rooms /\ r # NoRoom
  BY DEF Registered, TypeOK
<1>1. Registered' = Registered
  BY DEF Registered
<1>2. DOMAIN rooms' = DOMAIN Left(c)
  BY DEF PutRoom
<1>3. HostOf' = Service!Handover(c)
  <2>1. \A q \in DOMAIN Left(c) : rooms'[q].host = Left(c)[q].host
    BY DEF PutRoom
  <2>2. QED
    BY <1>2, <2>1, LeftIsHandover DEF HostOf
<1>4. \A p \in Clients \ {c} : At'[p] = At[p]
  <2> SUFFICES ASSUME NEW p \in Clients \ {c} PROVE At'[p] = At[p]
    OBVIOUS
  <2>1. roomID'[p] = roomID[p]
    BY <1>0 DEF TypeOK
  <2>2. QED
    BY <1>1, <1>2, <2>1, OthersStay DEF At, Registered
<1>5. At'[c] = IF r \in DOMAIN Left(c) THEN r ELSE NoRoom
  BY <1>0, <1>1, <1>2 DEF At, Registered, TypeOK
<1>6. r \in DOMAIN Left(c) <=> rooms[r].peers # {c}
  <2>1. r \in DOMAIN Left(c) <=> rooms[r].peers \ {c} # {}
    BY LeftFacts
  <2>2. rooms[r].peers # {}
    BY DEF TableInv, RoomsAreSound
  <2>3. QED
    BY <2>1, <2>2
<1>7. {q \in Clients : At[q] = r} = rooms[r].peers
  BY MembersArePeers
<1>8. CASE At[c] # r
  <2>1. c \notin rooms[r].peers
    BY <1>0, <1>7, <1>8
  <2>2. At' = [At EXCEPT ![c] = r]
    BY <1>0, <1>4, <1>5, <1>6, <2>1 DEF At
  <2>3. Service!Cardinality(Service!Members(r)) < MaxPeers
    <3>1. Service!Members(r) = rooms[r].peers
      BY <1>7 DEF Service!Members, At
    <3>2. \A S : Service!Cardinality(S) = Cardinality(S)
      BY DEF Service!Cardinality, Service!IsFiniteSet, Cardinality
    <3>3. QED
      BY <3>1, <3>2
  <2>4. r \in DOMAIN HostOf /\ At[c] # r /\ drawn' = drawn
    BY <1>8 DEF HostOf
  <2>5. Service!Enter(c, r) <=>
          /\ r \in DOMAIN HostOf
          /\ At[c] # r
          /\ Service!Cardinality(Service!Members(r)) < MaxPeers
          /\ At' = [At EXCEPT ![c] = r]
          /\ HostOf' = Service!Handover(c)
          /\ drawn' = drawn
    BY DEF Service!Enter, At, HostOf
  <2>6. QED
    BY <1>3, <2>2, <2>3, <2>4, <2>5
<1>9. CASE At[c] = r /\ rooms[r].peers # {c}
  <2>1. At' = At
    BY <1>0, <1>4, <1>5, <1>6, <1>9 DEF At
  <2>2. Service!Members(At[c]) # {c}
    BY <1>7, <1>9 DEF Service!Members, At
  <2>3. Service!Return(c)
    BY <1>0, <1>3, <1>9, <2>1, <2>2 DEF Service!Return, At, HostOf
  <2>4. QED
    BY <2>3
<1>10. CASE At[c] = r /\ rooms[r].peers = {c}
  <2>1. At' = [At EXCEPT ![c] = NoRoom]
    BY <1>0, <1>4, <1>5, <1>6, <1>10 DEF At
  <2>2. Service!Leave(c)
    BY <1>0, <1>3, <1>10, <2>1 DEF Service!Leave, At, HostOf
  <2>3. QED
    BY <2>2
<1>11. QED
  BY <1>8, <1>9, <1>10

LEMMA StillIsNoMove ==
    ASSUME UNCHANGED <<conn, roomID, rooms, drawn>>
    PROVE  UNCHANGED <<At, HostOf, drawn>>
BY DEF At, HostOf, Registered

LEMMA ConnectionIsNoMove ==
    ASSUME TypeOK, TableInv, NEW c \in Clients, Connect(c) \/ SocketFails(c)
    PROVE  UNCHANGED <<At, HostOf, drawn>>
<1>1. /\ roomID' = roomID /\ rooms' = rooms /\ drawn' = drawn
      /\ \A p \in Clients \ {c} : (p \in Registered)' <=> p \in Registered
  BY DEF Connect, SocketFails, TypeOK, Registered
<1>2. c \in Registered => (c \in Registered)'
  BY DEF Connect, SocketFails, TypeOK, Registered
<1>3. c \notin Registered => roomID[c] \notin DOMAIN rooms
  BY DEF Connect, SocketFails, TypeOK, Registered, TableInv, StrangersAreNowhere
<1>4. At' = At
  BY <1>1, <1>2, <1>3 DEF At, Registered
<1>5. QED
  BY <1>1, <1>4 DEF HostOf

LEMMA HandleIsAMove ==
    ASSUME TypeOK, TableInv, NEW c \in Clients, Handle(c)
    PROVE  Service!Next \/ UNCHANGED <<At, HostOf, drawn>>
<1>1. CASE CreateRoom(c)
  <2>1. c \in Registered
    BY <1>1 DEF CreateRoom, Reads
  <2>2. PICK r \in Rooms \ drawn :
          /\ drawn' = drawn \cup {r}
          /\ rooms' = PutRoom(Left(c), r, [host |-> c, peers |-> {c}])
          /\ roomID' = [roomID EXCEPT ![c] = r]
    BY <1>1 DEF CreateRoom
  <2>3. Service!Open(c, r)
    BY <1>1, <2>1, <2>2, CreateIsAMove DEF CreateRoom
  <2>4. QED
    BY <2>3 DEF Service!Next
<1>2. ASSUME NEW r \in Rooms, JoinRoom(c, r)
      PROVE  Service!Next
  <2>1. Service!Enter(c, r) \/ Service!Return(c) \/ Service!Leave(c)
    BY <1>2, JoinIsAMove DEF JoinRoom, Reads, HasSpace
  <2>2. QED
    BY <2>1 DEF Service!Next
<1>3. CASE LeaveRoom(c)
  <2>1. Service!Leave(c) \/ UNCHANGED <<At, HostOf, drawn>>
    BY <1>3, LeaveIsAMove DEF LeaveRoom, Reads
  <2>2. QED
    BY <2>1 DEF Service!Next
<1>4. ASSUME \/ Hello(c) \/ ListRooms(c) \/ BroadcastPeerStatus(c) \/ Answer(c)
             \/ \E r \in Rooms : JoinRefused(c, r)
             \/ \E target \in Clients : RouteToPeer(c, target)
             \/ \E sized \in BOOLEAN : BroadcastVoiceFrame(c, sized)
      PROVE  UNCHANGED <<At, HostOf, drawn>>
  <2>1. UNCHANGED <<conn, roomID, rooms, drawn>>
    BY <1>4 DEF Hello, ListRooms, BroadcastPeerStatus, Answer, JoinRefused, RouteToPeer,
                BroadcastVoiceFrame
  <2>2. QED
    BY <2>1, StillIsNoMove
<1>5. QED
  BY <1>1, <1>2, <1>3, <1>4 DEF Handle

LEMMA StepIsAMove ==
    ASSUME TypeOK, TableInv, [Next]_vars
    PROVE  Service!Next \/ UNCHANGED <<At, HostOf, drawn>>
<1>1. ASSUME NEW c \in Clients, Handle(c)
      PROVE  Service!Next \/ UNCHANGED <<At, HostOf, drawn>>
  BY <1>1, HandleIsAMove
<1>2. ASSUME NEW c \in Clients, RemoveClient(c)
      PROVE  Service!Next \/ UNCHANGED <<At, HostOf, drawn>>
  <2>1. c \in Registered
    BY <1>2 DEF RemoveClient, Registered
  <2>2. Service!Leave(c) \/ UNCHANGED <<At, HostOf, drawn>>
    BY <1>2, <2>1, LeaveIsAMove DEF RemoveClient
  <2>3. QED
    BY <2>2 DEF Service!Next
<1>3. ASSUME NEW c \in Clients, HelloRooms(c) \/ WriteLoop(c)
      PROVE  UNCHANGED <<At, HostOf, drawn>>
  BY <1>3, StillIsNoMove DEF HelloRooms, WriteLoop
<1>4. ASSUME NEW c \in Clients, Connect(c) \/ SocketFails(c)
      PROVE  UNCHANGED <<At, HostOf, drawn>>
  BY <1>4, ConnectionIsNoMove
<1>5. CASE Deliver \/ AllGone \/ UNCHANGED vars
  BY <1>5, StillIsNoMove DEF Deliver, AllGone, vars, hubVars
<1>6. QED
  BY <1>1, <1>2, <1>3, <1>4, <1>5 DEF Next, HubStep, Connection

\* The hub keeps the promises of RoomService: whatever is sent to it, whatever
\* fails, and however full the channels are, what happens to the rooms is a
\* sequence of the service's moves, each made whole by one handler.
THEOREM Refinement == Spec => ImplementsService
<1>1. Init => Service!Init
  <2>1. Init => At = [c \in Clients |-> NoRoom]
    BY DEF Init, At, Registered
  <2>2. Init => HostOf = [r \in {} |-> NoRoom]
    BY DEF Init, HostOf
  <2>3. QED
    BY <2>1, <2>2 DEF Init, Service!Init, At, HostOf
<1>2. TypeOK /\ TableInv /\ [Next]_vars => [Service!Next]_(Service!serviceVars)
  BY StepIsAMove DEF Service!serviceVars, At, HostOf
<1>3. QED
  BY <1>1, <1>2, TableInvariant, PTL DEF Spec, Service!Spec, ImplementsService
----------------------------------------------------------------------------
(***************************************************************************)
(* What the clients are told.  Written, queued and posted envelopes are    *)
(* one sequence that a client reads from left to right; a writer moves the *)
(* border between the first two, a delivery that between the others, so    *)
(* what the client will know changes only when a handler posts something,  *)
(* and then by what the handler posts to it.                               *)
(***************************************************************************)

View == [room : Rooms \cup {NoRoom}, peers : SUBSET Clients, list : SUBSET SUBSET Snapshot]

\* The envelopes that change no view.
Silent == {"hello", "heartbeat_ack", "error", "room_closed", "none"} \cup RelayTypes

LEMMA ToldIs ==
    ASSUME NEW v \in View, NEW env
    PROVE  /\ env.type \in Silent => Told(v, env) = v
           /\ env.type \in {"room_created", "joined_room"} =>
                 Told(v, env) = [v EXCEPT !.room = env.room, !.peers = env.peers]
           /\ env.type = "peer_joined" =>
                 Told(v, env) = IF env.room = v.room THEN [v EXCEPT !.peers = @ \cup {env.peer}] ELSE v
           /\ env.type = "peer_left" =>
                 Told(v, env) = IF env.room = v.room THEN [v EXCEPT !.peers = @ \ {env.peer}] ELSE v
           /\ env.type = "rooms" => Told(v, env) = [v EXCEPT !.list = {env.rooms}]
BY DEF Told, Silent, RelayTypes

LEMMA ToldType ==
    ASSUME NEW v \in View, NEW env \in Envelope \cup {Nothing}
    PROVE  Told(v, env) \in View
<1>1. CASE env.type \in Silent
  BY <1>1, ToldIs, ZenonT(40)
<1>2. CASE env.type \in {"room_created", "joined_room"}
  <2>1. env.room \in Rooms /\ env.peers \in SUBSET Clients
    BY <1>2 DEF Envelope, Nothing, RelayTypes
  <2>2. Told(v, env) = [v EXCEPT !.room = env.room, !.peers = env.peers]
    BY <1>2, ToldIs
  <2> QED
    BY <2>1, <2>2 DEF View
<1>3. CASE env.type \in {"peer_joined", "peer_left"}
  <2>1. env.peer \in Clients
    BY <1>3 DEF Envelope, Nothing, RelayTypes
  <2>2. Told(v, env) \in {v, [v EXCEPT !.peers = @ \cup {env.peer}], [v EXCEPT !.peers = @ \ {env.peer}]}
    BY <1>3, ToldIs
  <2> QED
    BY <2>1, <2>2 DEF View
<1>4. CASE env.type = "rooms"
  <2>1. env.rooms \in SUBSET Snapshot
    BY <1>4 DEF Envelope, Nothing, RelayTypes
  <2>2. Told(v, env) = [v EXCEPT !.list = {env.rooms}]
    BY <1>4, ToldIs
  <2> QED
    BY <2>1, <2>2 DEF View
<1>5. env.type \in Silent \cup {"room_created", "joined_room", "peer_joined", "peer_left", "rooms"}
  BY DEF Envelope, Nothing, Silent, RelayTypes
<1> QED
  BY <1>1, <1>2, <1>3, <1>4, <1>5

Readable == Envelope \cup {Nothing}

\* The function that AfterReading defines by recursion.
Read(v, envs) ==
    CHOOSE read : read = [n \in 0..Len(envs) |->
                             IF n = 0 THEN v ELSE Told(read[n - 1], envs[n])]

LEMMA ReadIs ==
    ASSUME NEW v \in View, NEW envs \in Seq(Readable)
    PROVE  /\ AfterReading(v, envs) = Read(v, envs)[Len(envs)]
           /\ Read(v, envs)[0] = v
           /\ \A n \in 1..Len(envs) : Read(v, envs)[n] = Told(Read(v, envs)[n - 1], envs[n])
           /\ \A n \in 0..Len(envs) : Read(v, envs)[n] \in View
<1> DEFINE k == Len(envs)
           step == [n \in 1..k |-> [w \in View |-> Told(w, envs[n])]]
           Body(f) == [n \in 0..k |-> IF n = 0 THEN v ELSE Told(f[n - 1], envs[n])]
<1>1. k \in Nat /\ \A n \in 1..k : envs[n] \in Readable
  OBVIOUS
<1>2. step \in [1..k -> [View -> View]]
  BY <1>1, ToldType DEF Readable
<1>3. \A n \in 1..k : \A w \in View : step[n][w] = Told(w, envs[n])
  OBVIOUS
<1> HIDE DEF step, k
<1>4. PICK g \in [0..k -> View] : Recursion(g, k, v, step)
  BY <1>1, <1>2, RecursiveFunction, Zenon
<1>5. \A n \in 1..k : n \in 0..k /\ n - 1 \in 0..k /\ n # 0
  BY <1>1
<1>6. g[0] = v /\ \A n \in 1..k : g[n] = Told(g[n - 1], envs[n])
  BY <1>3, <1>4, <1>5 DEF Recursion
<1>7. g = Body(g)
  <2>1. \A n \in 0..k : n = 0 \/ n \in 1..k
    BY <1>1
  <2>2. \A n \in 0..k : g[n] = IF n = 0 THEN v ELSE Told(g[n - 1], envs[n])
    BY <1>6, <2>1
  <2> QED
    BY <1>4, <2>2, Zenon
<1> DEFINE r == Read(v, envs)
<1>8. r = Body(r)
  BY <1>7, Zenon DEF Read, k
<1>9. AfterReading(v, envs) = r[k]
  BY Zenon DEF AfterReading, Read, k
<1> HIDE DEF r
<1>10. r[0] = v /\ \A n \in 1..k : r[n] = Told(r[n - 1], envs[n])
  <2>1. \A n \in 0..k : r[n] = IF n = 0 THEN v ELSE Told(r[n - 1], envs[n])
    BY <1>8, Zenon
  <2>2. 0 \in 0..k
    BY <1>1
  <2> QED
    BY <1>5, <2>1, <2>2, Zenon
<1> DEFINE T == {n \in 0..k : r[n] = g[n]}
<1>11. 0..k \subseteq T
  <2>1. 0 \in T
    BY <1>1, <1>6, <1>10
  <2>2. ASSUME NEW n \in 0..(k - 1), n \in T
        PROVE  n + 1 \in T
    <3>1. n + 1 \in 1..k /\ (n + 1) - 1 = n
      BY <1>1
    <3> QED
      BY <1>5, <1>6, <1>10, <2>2, <3>1
  <2> HIDE DEF T
  <2> QED
    BY <1>1, <2>1, <2>2, BoundedInduction
<1>12. \A n \in 0..k : r[n] \in View
  BY <1>4, <1>11
<1> QED
  BY <1>9, <1>10, <1>12 DEF r, k

\* Reading is from left to right, whichever end one looks at.
LEMMA ReadNothing ==
    ASSUME NEW v \in View
    PROVE  AfterReading(v, <<>>) = v
<1>1. <<>> \in Seq(Readable) /\ Len(<<>>) = 0
  OBVIOUS
<1>2. AfterReading(v, <<>>) = Read(v, <<>>)[Len(<<>>)] /\ Read(v, <<>>)[0] = v
  BY <1>1, ReadIs
<1> QED
  BY <1>1, <1>2

LEMMA ReadType ==
    ASSUME NEW v \in View, NEW envs \in Seq(Readable)
    PROVE  AfterReading(v, envs) \in View
BY ReadIs

LEMMA ReadLast ==
    ASSUME NEW v \in View, NEW envs \in Seq(Readable), NEW env \in Readable
    PROVE  AfterReading(v, Append(envs, env)) = Told(AfterReading(v, envs), env)
<1> DEFINE k == Len(envs)
           more == Append(envs, env)
           r == Read(v, envs)
           s == Read(v, more)
           T == {n \in 0..k : s[n] = r[n]}
<1>1. /\ k \in Nat /\ more \in Seq(Readable) /\ Len(more) = k + 1 /\ more[k + 1] = env
      /\ \A n \in 1..k : more[n] = envs[n]
  OBVIOUS
<1>2. /\ AfterReading(v, envs) = r[k] /\ r[0] = v
      /\ \A n \in 1..k : r[n] = Told(r[n - 1], envs[n])
  BY ReadIs
<1> HIDE DEF more
<1>3. /\ AfterReading(v, more) = s[k + 1] /\ s[0] = v
      /\ \A n \in 1..(k + 1) : s[n] = Told(s[n - 1], more[n])
  <2>1. /\ AfterReading(v, more) = Read(v, more)[Len(more)] /\ Read(v, more)[0] = v
        /\ \A n \in 1..Len(more) : Read(v, more)[n] = Told(Read(v, more)[n - 1], more[n])
    BY <1>1, ReadIs, Zenon
  <2> QED
    BY <1>1, <2>1
<1> HIDE DEF r, s, k
<1>4. 0..k \subseteq T
  <2>1. 0 \in T
    BY <1>1, <1>2, <1>3
  <2>2. ASSUME NEW n \in 0..(k - 1), n \in T
        PROVE  n + 1 \in T
    <3>1. n + 1 \in 1..k /\ n + 1 \in 1..(k + 1) /\ (n + 1) - 1 = n /\ n + 1 \in 0..k
      BY <1>1
    <3> QED
      BY <1>1, <1>2, <1>3, <2>2, <3>1
  <2> HIDE DEF T
  <2> QED
    BY <1>1, <2>1, <2>2, BoundedInduction
<1>5. k \in 0..k /\ k + 1 \in 1..(k + 1) /\ (k + 1) - 1 = k
  BY <1>1
<1>6. s[k] = r[k] /\ s[k + 1] = Told(s[k], env)
  BY <1>1, <1>3, <1>4, <1>5
<1> QED
  BY <1>2, <1>3, <1>6 DEF more

LEMMA ReadFirst ==
    ASSUME NEW v \in View, NEW envs \in Seq(Readable), envs # <<>>
    PROVE  AfterReading(v, envs) = AfterReading(Told(v, Head(envs)), Tail(envs))
<1> DEFINE k == Len(envs)
           rest == Tail(envs)
           w == Told(v, Head(envs))
           r == Read(v, envs)
           s == Read(w, rest)
           T == {n \in 0..(k - 1) : s[n] = r[n + 1]}
<1>1. /\ k \in Nat \ {0} /\ rest \in Seq(Readable) /\ Len(rest) = k - 1 /\ Head(envs) = envs[1]
      /\ \A n \in 1..(k - 1) : rest[n] = envs[n + 1]
      /\ Head(envs) \in Readable
  OBVIOUS
<1>2. w \in View
  BY <1>1, ToldType DEF Readable
<1>3. /\ AfterReading(v, envs) = r[k] /\ r[0] = v
      /\ \A n \in 1..k : r[n] = Told(r[n - 1], envs[n])
  BY ReadIs
<1> HIDE DEF rest, w
<1>4. /\ AfterReading(w, rest) = s[k - 1] /\ s[0] = w
      /\ \A n \in 1..(k - 1) : s[n] = Told(s[n - 1], rest[n])
  BY <1>1, <1>2, ReadIs
<1> HIDE DEF r, s, k
<1>5. 0..(k - 1) \subseteq T
  <2>1. 0 \in T
    BY <1>1, <1>3, <1>4 DEF w
  <2>2. ASSUME NEW n \in 0..((k - 1) - 1), n \in T
        PROVE  n + 1 \in T
    <3>1. /\ n + 1 \in 1..(k - 1) /\ (n + 1) - 1 = n /\ n + 1 \in 0..(k - 1)
          /\ (n + 1) + 1 \in 1..k /\ ((n + 1) + 1) - 1 = n + 1
      BY <1>1
    <3> QED
      BY <1>1, <1>3, <1>4, <2>2, <3>1
  <2>3. k - 1 \in Nat
    BY <1>1
  <2> HIDE DEF T
  <2> QED
    BY <2>1, <2>2, <2>3, BoundedInduction
<1>6. k - 1 \in 0..(k - 1) /\ (k - 1) + 1 = k
  BY <1>1
<1> QED
  BY <1>3, <1>4, <1>5, <1>6 DEF rest, w

\* What d knows after these posts.
Hears(d, v, ps) == AfterReading(v, [i \in DOMAIN ps |-> For(d, ps[i])])

LEMMA ForType ==
    ASSUME NEW d, NEW p \in Post
    PROVE  For(d, p) \in Readable
BY DEF For, Post, Readable

LEMMA ForsType ==
    ASSUME NEW d, NEW ps \in Seq(Post)
    PROVE  /\ [i \in DOMAIN ps |-> For(d, ps[i])] \in Seq(Readable)
           /\ Len([i \in DOMAIN ps |-> For(d, ps[i])]) = Len(ps)
<1>1. \A i \in 1..Len(ps) : For(d, ps[i]) \in Readable
  BY ForType
<1> QED
  BY <1>1

LEMMA HearsType ==
    ASSUME NEW d, NEW v \in View, NEW ps \in Seq(Post)
    PROVE  Hears(d, v, ps) \in View
BY ForsType, ReadType DEF Hears

LEMMA HearsNothing ==
    ASSUME NEW d, NEW v \in View
    PROVE  Hears(d, v, <<>>) = v
<1>1. [i \in DOMAIN <<>> |-> For(d, <<>>[i])] = <<>>
  OBVIOUS
<1> QED
  BY <1>1, ReadNothing DEF Hears

LEMMA HearsFirst ==
    ASSUME NEW d, NEW v \in View, NEW ps \in Seq(Post), ps # <<>>
    PROVE  Hears(d, v, ps) = Hears(d, Told(v, For(d, Head(ps))), Tail(ps))
<1> DEFINE es == [i \in DOMAIN ps |-> For(d, ps[i])]
           ts == [i \in DOMAIN Tail(ps) |-> For(d, Tail(ps)[i])]
<1>1. es \in Seq(Readable) /\ Len(es) = Len(ps)
  BY ForsType
<1>2. Tail(ps) \in Seq(Post) /\ Len(ps) \in Nat \ {0} /\ Len(Tail(ps)) = Len(ps) - 1
  OBVIOUS
<1>3. ts \in Seq(Readable) /\ Len(ts) = Len(ps) - 1
  BY <1>2, ForsType
<1>4. es # <<>> /\ Head(es) = For(d, Head(ps))
  BY <1>1, <1>2
<1>5. \A i \in 1..(Len(ps) - 1) : Tail(ps)[i] = ps[i + 1] /\ es[i + 1] = For(d, ps[i + 1])
  BY <1>2
<1>6. \A i \in 1..(Len(ps) - 1) : ts[i] = For(d, ps[i + 1])
  BY <1>2, <1>5
<1> HIDE DEF es, ts
<1>7. Tail(es) = ts
  <2>1. Tail(es) \in Seq(Readable) /\ Len(Tail(es)) = Len(ps) - 1
    BY <1>1, <1>4
  <2>2. \A i \in 1..(Len(ps) - 1) : Tail(es)[i] = es[i + 1]
    BY <1>1, <1>4
  <2>3. \A i \in 1..(Len(ps) - 1) : Tail(es)[i] = ts[i]
    BY <1>5, <1>6, <2>2
  <2> QED
    BY <1>3, <2>1, <2>3, SeqEqual
<1>8. AfterReading(v, es) = AfterReading(Told(v, Head(es)), Tail(es))
  BY <1>1, <1>4, ReadFirst
<1> QED
  BY <1>4, <1>7, <1>8 DEF Hears, es, ts

LEMMA HearsOne ==
    ASSUME NEW d, NEW v \in View, NEW p \in Post
    PROVE  Told(v, For(d, p)) \in View /\ Hears(d, v, <<p>>) = Told(v, For(d, p))
<1>1. Told(v, For(d, p)) \in View
  BY ForType, ToldType DEF Readable
<1>2. <<p>> \in Seq(Post) /\ <<p>> # <<>> /\ Head(<<p>>) = p /\ Tail(<<p>>) = <<>>
  OBVIOUS
<1>3. Hears(d, v, <<p>>) = Hears(d, Told(v, For(d, p)), <<>>)
  BY <1>2, HearsFirst
<1> QED
  BY <1>1, <1>3, HearsNothing

LEMMA HearsTwo ==
    ASSUME NEW d, NEW v \in View, NEW p \in Post, NEW q \in Post
    PROVE  Hears(d, v, <<p, q>>) = Told(Told(v, For(d, p)), For(d, q))
<1>1. /\ <<p, q>> \in Seq(Post) /\ <<p, q>> # <<>> /\ Head(<<p, q>>) = p
      /\ Tail(<<p, q>>) = <<q>>
  OBVIOUS
<1>2. Hears(d, v, <<p, q>>) = Hears(d, Told(v, For(d, p)), <<q>>)
  BY <1>1, HearsFirst
<1> QED
  BY <1>2, HearsOne

LEMMA HearsThree ==
    ASSUME NEW d, NEW v \in View, NEW p \in Post, NEW q \in Post, NEW r \in Post
    PROVE  Hears(d, v, <<p, q, r>>) = Told(Told(Told(v, For(d, p)), For(d, q)), For(d, r))
<1>1. /\ <<p, q, r>> \in Seq(Post) /\ <<p, q, r>> # <<>> /\ Head(<<p, q, r>>) = p
      /\ Tail(<<p, q, r>>) = <<q, r>>
  OBVIOUS
<1>2. Hears(d, v, <<p, q, r>>) = Hears(d, Told(v, For(d, p)), <<q, r>>)
  BY <1>1, HearsFirst
<1> QED
  BY <1>2, HearsOne, HearsTwo, ZenonT(40)

\* A farewell comes before what follows it.
LEMMA HearsGoodbye ==
    ASSUME TypeOK, NEW c \in Clients, NEW d, NEW v \in View, NEW ps \in Seq(Post)
    PROVE  Hears(d, v, Goodbye(c) \o ps) = Hears(d, Hears(d, v, Goodbye(c)), ps)
<1>1. CASE Goodbye(c) = <<>>
  <2>1. Goodbye(c) \o ps = ps
    BY <1>1
  <2> QED
    BY <1>1, <2>1, HearsNothing
<1>2. ASSUME NEW g \in Post, Goodbye(c) = <<g>>
      PROVE  Hears(d, v, Goodbye(c) \o ps) = Hears(d, Hears(d, v, Goodbye(c)), ps)
  <2>1. /\ <<g>> \o ps \in Seq(Post) /\ <<g>> \o ps # <<>>
        /\ Head(<<g>> \o ps) = g /\ Tail(<<g>> \o ps) = ps
    OBVIOUS
  <2>2. Hears(d, v, <<g>> \o ps) = Hears(d, Told(v, For(d, g)), ps)
    BY <2>1, HearsFirst
  <2> QED
    BY <1>2, <2>2, HearsOne
<1>3. Goodbye(c) = <<>> \/ \E g \in Post : Goodbye(c) = <<g>>
  <2>1. Goodbye(c) \in Seq(Post)
    BY GoodbyeType
  <2>2. Goodbye(c) = <<>> \/ \E g : Goodbye(c) = <<g>>
    BY DEF Goodbye
  <2> QED
    BY <2>1, <2>2
<1> QED
  BY <1>1, <1>2, <1>3

\* What those who stay know after a farewell to c: their room without it.
LEMMA FarewellIsHeard ==
    ASSUME TypeOK, TableInv, NEW c \in Registered, NEW d \in Registered, NEW v \in View
    PROVE  /\ Hears(d, v, Goodbye(c)).list = v.list
           /\ d = c => Hears(d, v, Goodbye(c)) = v
           /\ d # c /\ roomID[d] \in DOMAIN Left(c) /\ v.room = roomID[d]
                    /\ v.peers = rooms[roomID[d]].peers =>
                 /\ Hears(d, v, Goodbye(c)).room = roomID[d]
                 /\ Hears(d, v, Goodbye(c)).peers = Left(c)[roomID[d]].peers
<1>0. c \in Clients /\ d \in Clients
  BY DEF Registered
<1>1. CASE roomID[c] \notin DOMAIN rooms
  <2>1. Hears(d, v, Goodbye(c)) = v
    BY <1>1, HearsNothing DEF Goodbye
  <2>2. Left(c) = rooms
    BY <1>1 DEF Left
  <2> QED
    BY <2>1, <2>2
<1>2. CASE roomID[c] \in DOMAIN rooms
  <2> DEFINE r == roomID[c]
             rest == rooms[r].peers \ {c}
             env == IF rest = {} THEN [type |-> "room_closed", room |-> r]
                    ELSE [type |-> "peer_left", room |-> r, peer |-> c]
             g == [to |-> rest, env |-> env]
             w == Hears(d, v, Goodbye(c))
  <2>1. r \in Rooms /\ rest \in SUBSET Clients
    BY <1>2 DEF TypeOK, Room
  <2>2. Goodbye(c) = <<g>>
    BY <1>2 DEF Goodbye
  <2>3. g \in Post
    BY <1>0, <2>1, EnvelopeTypes, PostType
  <2>4. w = Told(v, For(d, g))
    BY <2>2, <2>3, HearsOne
  <2>5. d \in rest => rest # {} /\ For(d, g) = [type |-> "peer_left", room |-> r, peer |-> c]
    BY DEF For
  <2>6. d \notin rest => For(d, g) = Nothing
    BY DEF For
  <2>7. d \in rest <=> d # c /\ roomID[d] = r
    BY <1>0, <1>2 DEF TableInv, PeersPointBack, RoomKnowsItsClients
  <2> HIDE DEF w, g, rest
  <2>8. CASE d \notin rest
    <3>1. w = v
      <4>1. Nothing.type \in Silent
        BY DEF Nothing, Silent
      <4>2. Told(v, Nothing) = v
        BY <4>1, ToldIs
      <4> QED
        BY <2>4, <2>6, <2>8, <4>2
    <3>2. ASSUME d # c, roomID[d] \in DOMAIN Left(c)
          PROVE  Left(c)[roomID[d]].peers = rooms[roomID[d]].peers
      <4>1. roomID[d] \in DOMAIN rooms /\ Left(c)[roomID[d]].peers = rooms[roomID[d]].peers \ {c}
        BY <3>2, LeftFacts
      <4>2. c \notin rooms[roomID[d]].peers
        BY <2>7, <2>8, <3>2, <4>1 DEF TableInv, PeersPointBack
      <4> QED
        BY <4>1, <4>2
    <3> QED
      BY <3>1, <3>2 DEF w
  <2>9. CASE d \in rest
    <3>1. w = IF r = v.room THEN [v EXCEPT !.peers = @ \ {c}] ELSE v
      <4> DEFINE e == [type |-> "peer_left", room |-> r, peer |-> c]
      <4>1. e.type = "peer_left" /\ e.room = r /\ e.peer = c
        OBVIOUS
      <4>2. w = Told(v, e)
        BY <2>4, <2>5, <2>9
      <4> HIDE DEF e
      <4>3. Told(v, e) = IF e.room = v.room THEN [v EXCEPT !.peers = @ \ {e.peer}] ELSE v
        BY <4>1, ToldIs
      <4> QED
        BY <4>1, <4>2, <4>3
    <3>2. w.list = v.list /\ w.room = v.room
      BY <3>1 DEF View
    <3>3. v.room = r => w.peers = v.peers \ {c}
      BY <3>1 DEF View
    <3>4. roomID[d] \in DOMAIN Left(c) => Left(c)[roomID[d]].peers = rooms[roomID[d]].peers \ {c}
      BY LeftFacts
    <3> QED
      BY <2>7, <2>9, <3>2, <3>3, <3>4 DEF w
  <2> QED
    BY <2>8, <2>9
<1> QED
  BY <1>1, <1>2
----------------------------------------------------------------------------
(* The inductive invariant. *)

\* A reader that has answered a hello removes its client only after the room list.
GreetersAreHere == \A c \in Clients : pc[c] = "greeting" => c \in Registered

\* A client that has yet to connect has heard nothing, and nothing is for it.
StrangersHearNothing ==
    \A c \in Clients : conn[c] = "idle" =>
        /\ pc[c] = "reading" /\ seen[c] = NothingSeen /\ send[c] = <<>>
        /\ \A i \in DOMAIN posts : c \notin posts[i].to

\* What MembershipAddsUp and ListIsCurrent say of one client.
Informed(d) ==
    /\ roomID[d] \in DOMAIN rooms =>
          WillSee(d).room = roomID[d] /\ WillSee(d).peers = rooms[roomID[d]].peers
    /\ WillSee(d).list \in {{}, {RoomList(rooms).rooms}}

AllInformed == \A d \in Registered \ lost : Informed(d)

ViewInv ==
    /\ seen \in [Clients -> View]
    /\ GreetersAreHere
    /\ StrangersHearNothing
    /\ AllInformed

\* Before the posts.
HasRead(d) == AfterReading(seen[d], send[d])

LEMMA WillSeeIs ==
    ASSUME TypeOK, seen \in [Clients -> View], NEW d \in Clients
    PROVE  /\ HasRead(d) \in View /\ WillSee(d) \in View
           /\ WillSee(d) = Hears(d, HasRead(d), posts)
           /\ posts = <<>> => WillSee(d) = HasRead(d)
<1>1. seen[d] \in View /\ send[d] \in Seq(Readable) /\ posts \in Seq(Post)
  <2>1. send[d] \in Seq(Envelope) /\ Envelope \subseteq Readable
    BY DEF TypeOK, Readable
  <2>2. Seq(Envelope) \subseteq Seq(Readable)
    BY <2>1
  <2> QED
    BY <2>1, <2>2 DEF TypeOK
<1>2. HasRead(d) \in View
  BY <1>1, ReadType DEF HasRead
<1>3. WillSee(d) = Hears(d, HasRead(d), posts)
  BY Zenon DEF WillSee, Hears, HasRead
<1>4. WillSee(d) \in View
  BY <1>1, <1>2, <1>3, HearsType
<1>5. posts = <<>> => WillSee(d) = HasRead(d)
  BY <1>2, <1>3, HearsNothing
<1> QED
  BY <1>2, <1>3, <1>4, <1>5

\* A handler that only posts changes what d will know by what it posts to it.
LEMMA PostsAreHeard ==
    ASSUME TypeOK, TypeOK', seen \in [Clients -> View], NEW d \in Clients,
           posts = <<>>, seen' = seen, send'[d] = send[d]
    PROVE  WillSee(d)' = Hears(d, WillSee(d), posts') /\ WillSee(d) \in View /\ WillSee(d)' \in View
<1>1. WillSee(d) = HasRead(d) /\ WillSee(d) \in View
  BY WillSeeIs
<1>2. HasRead(d)' = HasRead(d)
  BY DEF HasRead
<1>3. TypeOK' /\ (seen \in [Clients -> View])'
  OBVIOUS
<1>4. WillSee(d)' = Hears(d, HasRead(d)', posts')
  BY Zenon DEF WillSee, Hears, HasRead
<1>5. WillSee(d)' \in View
  <2>1. posts' \in Seq(Post)
    BY DEF TypeOK
  <2> QED
    BY <1>1, <1>2, <1>4, <2>1, HearsType
<1> QED
  BY <1>1, <1>2, <1>4, <1>5

\* A room list tells its readers the table.
LEMMA ListIsHeard ==
    ASSUME NEW d, NEW v \in View, NEW S, NEW rs
    PROVE  LET p == [to |-> S, env |-> RoomList(rs)]
           IN  /\ d \in S => Told(v, For(d, p)) = [v EXCEPT !.list = {RoomList(rs).rooms}]
               /\ d \notin S => Told(v, For(d, p)) = v
<1> DEFINE p == [to |-> S, env |-> RoomList(rs)]
           e == RoomList(rs)
<1>1. e.type = "rooms"
  BY DEF RoomList
<1>2. d \in S => For(d, p) = e
  BY DEF For
<1>3. d \notin S => For(d, p) = Nothing
  BY DEF For
<1> HIDE DEF e, p
<1>4. Told(v, e) = [v EXCEPT !.list = {e.rooms}]
  BY <1>1, ToldIs
<1>5. Nothing.type \in Silent
  BY DEF Nothing, Silent
<1>6. Told(v, Nothing) = v
  BY <1>5, ToldIs
<1> QED
  BY <1>2, <1>3, <1>4, <1>6 DEF e, p

\* What is for others is not heard.
LEMMA OthersAreNotHeard ==
    ASSUME NEW d, NEW v \in View, NEW p, d \notin p.to \/ p.env.type \in Silent
    PROVE  Told(v, For(d, p)) = v
<1>1. For(d, p).type \in Silent
  BY DEF For, Nothing, Silent
<1> QED
  BY <1>1, ToldIs

\* c leaves its room and posts ps to all after its farewell.
LEMMA LeaverIsHeard ==
    ASSUME TypeOK, TypeOK', TableInv, ViewInv, NEW c \in Registered, NEW d \in Registered \ lost,
           NEW ps \in Seq(Post), posts = <<>>, posts' = Goodbye(c) \o ps,
           seen' = seen, send'[d] = send[d]
    PROVE  \E w \in View :
              /\ WillSee(d)' = Hears(d, w, ps)
              /\ w.list = WillSee(d).list
              /\ d # c /\ roomID[d] \in DOMAIN Left(c) =>
                    w.room = roomID[d] /\ w.peers = Left(c)[roomID[d]].peers
<1> DEFINE v == WillSee(d)
           w == Hears(d, v, Goodbye(c))
<1>0. c \in Clients /\ d \in Clients
  BY DEF Registered
<1>1. v \in View /\ WillSee(d)' = Hears(d, v, Goodbye(c) \o ps)
  BY <1>0, PostsAreHeard DEF ViewInv
<1>2. roomID[d] \in DOMAIN rooms => v.room = roomID[d] /\ v.peers = rooms[roomID[d]].peers
  BY DEF ViewInv, AllInformed, Informed
<1> HIDE DEF v
<1>3. Goodbye(c) \in Seq(Post)
  BY <1>0, GoodbyeType
<1>4. w \in View
  BY <1>1, <1>3, HearsType
<1>5. WillSee(d)' = Hears(d, w, ps)
  BY <1>0, <1>1, HearsGoodbye
<1>6. w.list = v.list
  BY <1>1, FarewellIsHeard
<1>7. DOMAIN Left(c) \subseteq DOMAIN rooms
  BY LeftFacts
<1>8. d # c /\ roomID[d] \in DOMAIN Left(c) =>
          w.room = roomID[d] /\ w.peers = Left(c)[roomID[d]].peers
  BY <1>1, <1>2, <1>7, FarewellIsHeard
<1> QED
  BY <1>4, <1>5, <1>6, <1>8 DEF v
----------------------------------------------------------------------------
(* Strangers. *)

\* Posts to connected clients only.
Reaches(ps) == \A i \in DOMAIN ps : ps[i].to \subseteq Registered

LEMMA ReachesConcat ==
    ASSUME NEW s \in Seq(Post), NEW t \in Seq(Post), Reaches(s), Reaches(t)
    PROVE  Reaches(s \o t)
<1> SUFFICES ASSUME NEW i \in DOMAIN (s \o t)
             PROVE  (s \o t)[i].to \subseteq Registered
  BY DEF Reaches
<1>1. /\ Len(s) \in Nat /\ Len(t) \in Nat /\ DOMAIN s = 1..Len(s) /\ DOMAIN t = 1..Len(t)
      /\ i \in 1..(Len(s) + Len(t))
      /\ (s \o t)[i] = IF i <= Len(s) THEN s[i] ELSE t[i - Len(s)]
  BY ConcatProperties
<1>2. CASE i <= Len(s)
  BY <1>1, <1>2 DEF Reaches
<1>3. CASE ~(i <= Len(s))
  <2>1. i - Len(s) \in DOMAIN t
    BY <1>1, <1>3
  <2> QED
    BY <1>1, <1>3, <2>1 DEF Reaches
<1> QED
  BY <1>2, <1>3

LEMMA GoodbyeReaches ==
    ASSUME TypeOK, TableInv, NEW c \in Clients
    PROVE  Reaches(Goodbye(c))
<1>1. CASE roomID[c] \notin DOMAIN rooms
  BY <1>1 DEF Goodbye, Reaches
<1>2. CASE roomID[c] \in DOMAIN rooms
  <2>1. rooms[roomID[c]].peers \subseteq Registered
    BY <1>2 DEF TableInv, PeersPointBack
  <2> QED
    BY <1>2, <2>1 DEF Goodbye, Reaches
<1> QED
  BY <1>1, <1>2

\* What the handlers that change the table post reaches connected clients only.
LEMMA TablePostsReach ==
    ASSUME TypeOK, TableInv, NEW c \in Clients,
           \/ CreateRoom(c) \/ LeaveRoom(c) \/ RemoveClient(c)
           \/ \E r \in Rooms : JoinRoom(c, r)
    PROVE  Reaches(posts')
<1>1. \A ps \in Seq(Post) : Reaches(ps) => Reaches(Goodbye(c) \o ps)
  BY GoodbyeType, GoodbyeReaches, ReachesConcat
<1>2. CASE CreateRoom(c)
  <2>1. PICK r \in Rooms \ drawn :
          /\ rooms' = PutRoom(Left(c), r, [host |-> c, peers |-> {c}])
          /\ posts' = Goodbye(c)
                \o <<[to |-> {c}, env |-> [type |-> "room_created", room |-> r, peers |-> {c}]],
                     [to |-> Registered, env |-> RoomList(rooms')]>>
    BY <1>2 DEF CreateRoom, Sends
  <2> DEFINE p == [to |-> {c}, env |-> [type |-> "room_created", room |-> r, peers |-> {c}]]
             q == [to |-> Registered, env |-> RoomList(rooms')]
  <2>2. p \in Post /\ q \in Post
    <3>1. [host |-> c, peers |-> {c}] \in Room
      BY DEF Room
    <3>2. Table(rooms')
      BY <2>1, <3>1, LeftType, PutRoomType
    <3> QED
      BY <3>2, EnvelopeTypes, RoomListType, RegisteredType, PostType
  <2>3. p.to \subseteq Registered /\ q.to \subseteq Registered
    BY <1>2 DEF CreateRoom, Reads
  <2>4. posts' = Goodbye(c) \o <<p, q>>
    BY <2>1
  <2> HIDE DEF p, q
  <2>5. <<p, q>> \in Seq(Post) /\ Reaches(<<p, q>>)
    BY <2>2, <2>3 DEF Reaches
  <2> QED
    BY <1>1, <2>4, <2>5
<1>3. CASE LeaveRoom(c)
  <2> DEFINE p == [to |-> Registered, env |-> RoomList(rooms')]
  <2>1. p \in Post /\ p.to \subseteq Registered
    BY <1>3, LeftType, RoomListType, RegisteredType, PostType DEF LeaveRoom
  <2>2. posts' = Goodbye(c) \o <<p>>
    BY <1>3 DEF LeaveRoom, Sends
  <2> HIDE DEF p
  <2>3. <<p>> \in Seq(Post) /\ Reaches(<<p>>)
    BY <2>1 DEF Reaches
  <2> QED
    BY <1>1, <2>2, <2>3
<1>4. CASE RemoveClient(c)
  <2> DEFINE p == [to |-> Registered \ {c}, env |-> RoomList(Left(c))]
  <2>1. p \in Post /\ p.to \subseteq Registered
    BY LeftType, RoomListType, RegisteredType, PostType
  <2>2. posts' = Goodbye(c) \o <<p>> \/ posts' = <<>>
    BY <1>4 DEF RemoveClient, Sends
  <2> HIDE DEF p
  <2>3. <<p>> \in Seq(Post) /\ Reaches(<<p>>) /\ Reaches(<<>>)
    BY <2>1 DEF Reaches
  <2> QED
    BY <1>1, <2>2, <2>3
<1>5. ASSUME NEW r \in Rooms, JoinRoom(c, r)
      PROVE  Reaches(posts')
  <2> DEFINE peers == rooms[r].peers \cup {c}
             p == [to |-> {c}, env |-> [type |-> "joined_room", room |-> r, peers |-> peers]]
             q == [to |-> peers \ {c}, env |-> [type |-> "peer_joined", room |-> r, peer |-> c]]
             l == [to |-> Registered, env |-> RoomList(rooms')]
  <2>1. posts' = Goodbye(c) \o <<p, q, l>>
    BY <1>5 DEF JoinRoom, Sends
  <2>2. peers \in SUBSET Clients /\ peers \subseteq Registered
    BY <1>5 DEF JoinRoom, HasSpace, Reads, TypeOK, Room, TableInv, PeersPointBack
  <2>3. l \in Post
    <3>1. Table(rooms')
      BY <1>5, JoinRoomTable
    <3> QED
      BY <3>1, RoomListType, RegisteredType, PostType
  <2>4. p \in Post /\ q \in Post
    BY <2>2, EnvelopeTypes, PostType
  <2>5. p.to \subseteq Registered /\ q.to \subseteq Registered /\ l.to \subseteq Registered
    BY <1>5, <2>2 DEF JoinRoom, Reads
  <2> HIDE DEF p, q, l
  <2>6. <<p, q, l>> \in Seq(Post) /\ Reaches(<<p, q, l>>)
    BY <2>3, <2>4, <2>5 DEF Reaches
  <2> QED
    BY <1>1, <2>1, <2>6
<1> QED
  BY <1>2, <1>3, <1>4, <1>5

\* A handler posts to connected clients only.
LEMMA HandlersReach ==
    ASSUME TypeOK, TableInv, NEW c \in Clients, Handle(c)
    PROVE  Reaches(posts') \/ posts' = posts
<1>1. CASE CreateRoom(c) \/ LeaveRoom(c) \/ \E r \in Rooms : JoinRoom(c, r)
  BY <1>1, TablePostsReach
<1>2. CASE Hello(c) \/ Answer(c)
  BY <1>2 DEF Hello, Answer
<1>3. CASE ListRooms(c) \/ \E r \in Rooms : JoinRefused(c, r)
  <2>1. c \in Registered /\ \E env : posts' = <<[to |-> {c}, env |-> env]>>
    BY <1>3 DEF ListRooms, JoinRefused, Sends, Reads
  <2> QED
    BY <2>1 DEF Reaches
<1>4. ASSUME NEW target \in Clients, RouteToPeer(c, target)
      PROVE  Reaches(posts')
  <2>1. \E q \in Registered : \E env : posts' = <<[to |-> {q}, env |-> env]>>
    BY <1>4 DEF RouteToPeer, Sends, Reads
  <2> QED
    BY <2>1 DEF Reaches
<1>5. ASSUME NEW type, Broadcast(c, type)
      PROVE  Reaches(posts')
  <2>1. CASE roomID[c] \in DOMAIN rooms
    <3>1. rooms[roomID[c]].peers \subseteq Registered
      BY <2>1 DEF TableInv, PeersPointBack
    <3> QED
      BY <1>5, <2>1, <3>1 DEF Broadcast, Sends, Reaches
  <2>2. CASE roomID[c] \notin DOMAIN rooms
    BY <1>5, <2>2 DEF Broadcast, Sends, Reaches
  <2> QED
    BY <2>1, <2>2
<1>6. CASE BroadcastPeerStatus(c) \/ \E sized \in BOOLEAN : BroadcastVoiceFrame(c, sized)
  BY <1>5, <1>6 DEF BroadcastPeerStatus, BroadcastVoiceFrame
<1> QED
  BY <1>1, <1>2, <1>3, <1>4, <1>6 DEF Handle

LEMMA StrangersStep ==
    ASSUME TypeOK, TableInv, GreetersAreHere, StrangersHearNothing, ViewNext
    PROVE  StrangersHearNothing'
<1>1. ASSUME NEW d \in Clients, conn'[d] = "idle", conn[d] = "idle", seen'[d] = seen[d],
             send'[d] = send[d], pc'[d] = pc[d],
             Reaches(posts') \/ posts' = posts \/ (posts # <<>> /\ posts' = Tail(posts))
      PROVE  /\ pc'[d] = "reading" /\ seen'[d] = NothingSeen /\ send'[d] = <<>>
             /\ \A i \in DOMAIN posts' : d \notin posts'[i].to
  <2>1. /\ pc[d] = "reading" /\ seen[d] = NothingSeen /\ send[d] = <<>>
        /\ \A i \in DOMAIN posts : d \notin posts[i].to
    BY <1>1 DEF StrangersHearNothing
  <2>2. d \notin Registered
    BY <1>1 DEF Registered
  <2>3. CASE Reaches(posts')
    BY <1>1, <2>1, <2>2, <2>3 DEF Reaches
  <2>4. CASE posts' = posts
    BY <1>1, <2>1, <2>4
  <2>5. CASE posts # <<>> /\ posts' = Tail(posts)
    <3>1. posts \in Seq(Post)
      BY DEF TypeOK
    <3>2. \A i \in DOMAIN Tail(posts) : i + 1 \in DOMAIN posts /\ Tail(posts)[i] = posts[i + 1]
      BY <2>5, <3>1, HeadTailProperties
    <3> QED
      BY <1>1, <2>1, <2>5, <3>2
  <2> QED
    BY <1>1, <2>3, <2>4, <2>5
<1> SUFFICES ASSUME NEW d \in Clients, conn'[d] = "idle"
             PROVE  /\ conn[d] = "idle" /\ seen'[d] = seen[d] /\ send'[d] = send[d]
                    /\ pc'[d] = pc[d]
                    /\ Reaches(posts') \/ posts' = posts \/ (posts # <<>> /\ posts' = Tail(posts))
  BY <1>1 DEF StrangersHearNothing
<1>2. ASSUME NEW c \in Registered, conn' = conn
      PROVE  c # d
  BY <1>2 DEF Registered
<1>3. ASSUME NEW c \in Clients, Handle(c), seen' = seen
      PROVE  /\ conn[d] = "idle" /\ seen'[d] = seen[d] /\ send'[d] = send[d]
             /\ pc'[d] = pc[d]
             /\ Reaches(posts') \/ posts' = posts \/ (posts # <<>> /\ posts' = Tail(posts))
  <2>1. c \in Registered /\ conn' = conn
    BY <1>3 DEF Handle, Hello, ListRooms, CreateRoom, JoinRoom, JoinRefused, LeaveRoom, RouteToPeer,
                BroadcastPeerStatus, BroadcastVoiceFrame, Answer, Reads
  <2>2. c # d
    BY <1>2, <2>1
  <2>3. pc'[d] = pc[d]
    BY <1>3, <2>2 DEF Handle, Hello, ListRooms, CreateRoom, JoinRoom, JoinRefused, LeaveRoom,
                RouteToPeer, BroadcastPeerStatus, BroadcastVoiceFrame, Broadcast, Answer, Sends, TypeOK
  <2>4. send'[d] = send[d]
    BY <1>3, <2>2 DEF Handle, Hello, ListRooms, CreateRoom, JoinRoom, JoinRefused, LeaveRoom,
                RouteToPeer, BroadcastPeerStatus, BroadcastVoiceFrame, Answer, Enqueue
  <2> QED
    BY <1>3, <2>1, <2>3, <2>4, HandlersReach
<1>4. ASSUME NEW c \in Clients, HelloRooms(c), seen' = seen
      PROVE  /\ conn[d] = "idle" /\ seen'[d] = seen[d] /\ send'[d] = send[d]
             /\ pc'[d] = pc[d] /\ Reaches(posts')
  <2>1. conn' = conn /\ pc[c] = "greeting" /\ conn[d] = "idle" /\ send' = send
    BY <1>4 DEF HelloRooms
  <2>2. conn[c] # "idle" /\ c # d
    BY <2>1 DEF StrangersHearNothing
  <2>3. pc'[d] = pc[d]
    BY <1>4, <2>2 DEF HelloRooms, Sends, TypeOK
  <2>4. c \in Registered
    BY <2>1 DEF GreetersAreHere
  <2>5. posts' = <<[to |-> {c}, env |-> RoomList(rooms)]>>
    BY <1>4 DEF HelloRooms, Sends
  <2> QED
    BY <1>4, <2>1, <2>3, <2>4, <2>5 DEF Reaches
<1>5. ASSUME NEW c \in Clients, Connect(c) \/ SocketFails(c), seen' = seen
      PROVE  /\ conn[d] = "idle" /\ seen'[d] = seen[d] /\ send'[d] = send[d]
             /\ pc'[d] = pc[d] /\ posts' = posts
  BY <1>5 DEF Connect, SocketFails, TypeOK
<1>6. ASSUME NEW c \in Clients, RemoveClient(c), seen' = seen
      PROVE  /\ conn[d] = "idle" /\ seen'[d] = seen[d] /\ send'[d] = send[d]
             /\ pc'[d] = pc[d] /\ Reaches(posts')
  <2>1. conn'[c] = "gone" /\ c # d
    BY <1>6 DEF RemoveClient, TypeOK
  <2>2. conn[d] = "idle" /\ send'[d] = send[d] /\ pc'[d] = pc[d]
    BY <1>6, <2>1 DEF RemoveClient, Sends, TypeOK
  <2> QED
    BY <1>6, <2>2, TablePostsReach
<1>7. ASSUME Deliver, seen' = seen
      PROVE  /\ conn[d] = "idle" /\ seen'[d] = seen[d] /\ send'[d] = send[d]
             /\ pc'[d] = pc[d] /\ posts # <<>> /\ posts' = Tail(posts)
  <2>1. conn[d] = "idle" /\ posts # <<>> /\ posts' = Tail(posts) /\ posts \in Seq(Post)
    BY <1>7 DEF Deliver, TypeOK
  <2>2. 1 \in DOMAIN posts /\ Head(posts) = posts[1]
    BY <2>1
  <2>3. d \notin Head(posts).to /\ pc[d] = "reading"
    BY <2>1, <2>2 DEF StrangersHearNothing
  <2> QED
    BY <1>7, <2>1, <2>3 DEF Deliver, Enqueue
<1>8. ASSUME NEW c \in Clients, Written(c)
      PROVE  /\ conn[d] = "idle" /\ seen'[d] = seen[d] /\ send'[d] = send[d]
             /\ pc'[d] = pc[d] /\ posts' = posts
  <2>1. conn' = conn /\ conn[c] = "open" /\ pc' = pc /\ posts' = posts
    BY <1>8 DEF Written, WriteLoop
  <2>2. c # d
    BY <2>1
  <2> QED
    BY <1>8, <2>1, <2>2 DEF Written, WriteLoop, TypeOK
<1>9. ASSUME AllGone, seen' = seen
      PROVE  /\ conn[d] = "idle" /\ seen'[d] = seen[d] /\ send'[d] = send[d]
             /\ pc'[d] = pc[d] /\ posts' = posts
  BY <1>9 DEF AllGone, vars, hubVars
<1> QED
  BY <1>3, <1>4, <1>5, <1>6, <1>7, <1>8, <1>9 DEF ViewNext, HubStep, Connection

LEMMA GreetersStep ==
    ASSUME TypeOK, GreetersAreHere, ViewNext
    PROVE  GreetersAreHere'
<1> SUFFICES ASSUME NEW d \in Clients, pc'[d] = "greeting"
             PROVE  (d \in Registered)'
  BY DEF GreetersAreHere
<1>1. ASSUME pc'[d] = pc[d], conn'[d] = conn[d] \/ conn'[d] \in {"open", "broken"}
      PROVE  (d \in Registered)'
  BY <1>1 DEF GreetersAreHere, Registered
<1>2. ASSUME NEW c \in Clients, Handle(c) \/ HelloRooms(c)
      PROVE  (d \in Registered)'
  <2>1. conn' = conn
    BY <1>2 DEF Handle, Hello, ListRooms, CreateRoom, JoinRoom, JoinRefused, LeaveRoom, RouteToPeer,
                BroadcastPeerStatus, BroadcastVoiceFrame, Answer, HelloRooms
  <2>2. CASE Hello(c)
    <3>1. d = c \/ pc'[d] = pc[d]
      BY <2>2 DEF Hello, TypeOK
    <3> QED
      BY <1>1, <2>1, <2>2, <3>1 DEF Hello, Reads, Registered
  <2>3. CASE ~Hello(c)
    <3>1. pc' = pc \/ \E ps : Sends(c, ps)
      BY <1>2, <2>3 DEF Handle, ListRooms, CreateRoom, JoinRoom, JoinRefused, LeaveRoom, RouteToPeer,
                BroadcastPeerStatus, BroadcastVoiceFrame, Broadcast, Answer, HelloRooms
    <3>2. pc'[d] = pc[d]
      BY <3>1 DEF Sends, TypeOK
    <3> QED
      BY <1>1, <2>1, <3>2
  <2> QED
    BY <2>2, <2>3
<1>3. ASSUME NEW c \in Clients, Connect(c) \/ SocketFails(c)
      PROVE  (d \in Registered)'
  BY <1>1, <1>3 DEF Connect, SocketFails, TypeOK
<1>4. ASSUME NEW c \in Clients, RemoveClient(c)
      PROVE  (d \in Registered)'
  <2>1. pc'[d] = pc[d] /\ d # c
    BY <1>4 DEF RemoveClient, Sends, TypeOK
  <2>2. conn'[d] = conn[d]
    BY <1>4, <2>1 DEF RemoveClient, TypeOK
  <2> QED
    BY <1>1, <2>1, <2>2
<1>5. CASE Deliver
  BY <1>1, <1>5 DEF Deliver
<1>6. CASE AllGone \/ \E c \in Clients : Written(c)
  BY <1>1, <1>6 DEF AllGone, vars, hubVars, Written, WriteLoop
<1> QED
  BY <1>2, <1>3, <1>4, <1>5, <1>6 DEF ViewNext, HubStep, Connection

LEMMA SeenType ==
    ASSUME TypeOK, seen \in [Clients -> View], ViewNext
    PROVE  seen' \in [Clients -> View]
<1>1. ASSUME NEW c \in Clients, Written(c)
      PROVE  seen' \in [Clients -> View]
  <2>1. send[c] \in Seq(Envelope) /\ send[c] # <<>>
    BY <1>1 DEF Written, WriteLoop, TypeOK
  <2>2. Head(send[c]) \in Envelope
    BY <2>1
  <2>3. Told(seen[c], Head(send[c])) \in View
    BY <2>2, ToldType
  <2>4. seen' = [seen EXCEPT ![c] = Told(seen[c], Head(send[c]))]
    BY <1>1 DEF Written
  <2> QED
    BY <2>3, <2>4
<1> QED
  BY <1>1 DEF ViewNext
----------------------------------------------------------------------------
(* Every client stays informed. *)

\* An enqueue that is not refused is an envelope more to read.
LEMMA EnqueueIsRead ==
    ASSUME TypeOK, seen \in [Clients -> View], NEW d \in Clients, NEW p \in Post,
           Enqueue(p.to, p.env), d \notin lost', seen' = seen
    PROVE  HasRead(d)' = Told(HasRead(d), For(d, p))
<1>1. seen[d] \in View /\ send[d] \in Seq(Readable) /\ HasRead(d) \in View
  <2>1. send[d] \in Seq(Envelope) /\ Envelope \subseteq Readable
    BY DEF TypeOK, Readable
  <2> QED
    BY <2>1, WillSeeIs
<1>2. CASE d \in p.to
  <2>1. send'[d] = Append(send[d], p.env) /\ For(d, p) = p.env
    BY <1>2 DEF Enqueue, For
  <2>2. For(d, p) \in Readable
    BY ForType
  <2> QED
    BY <1>1, <2>1, <2>2, ReadLast DEF HasRead
<1>3. CASE d \notin p.to
  <2>1. send'[d] = send[d]
    BY <1>3 DEF Enqueue
  <2>2. Told(HasRead(d), For(d, p)) = HasRead(d)
    BY <1>1, <1>3, OthersAreNotHeard
  <2> QED
    BY <2>1, <2>2 DEF HasRead
<1> QED
  BY <1>2, <1>3

\* d's room and the table are as before, and so is what d will know.
LEMMA InformedStill ==
    ASSUME NEW d \in Registered \ lost, AllInformed, roomID'[d] = roomID[d], rooms' = rooms,
           WillSee(d)' = WillSee(d)
    PROVE  Informed(d)'
<1>1. Informed(d)
  BY DEF AllInformed
<1> QED
  BY <1>1 DEF Informed

\* The reader and the deliverer only move envelopes on.
LEMMA MovingInforms ==
    ASSUME TypeOK, ViewInv, NEW d \in Registered \ lost', lost \subseteq lost',
           (Deliver /\ seen' = seen) \/ \E c \in Clients : Written(c)
    PROVE  Informed(d)'
<1>0. d \in Clients /\ seen \in [Clients -> View] /\ posts \in Seq(Post)
  BY DEF ViewInv, Registered, TypeOK
<1>1. WillSee(d) = Hears(d, HasRead(d), posts) /\ HasRead(d) \in View
  BY <1>0, WillSeeIs
<1>2. WillSee(d)' = Hears(d, HasRead(d)', posts')
  BY Zenon DEF WillSee, Hears, HasRead
<1>3. CASE Deliver /\ seen' = seen
  <2> DEFINE p == Head(posts)
  <2>1. p \in Post /\ posts # <<>> /\ posts' = Tail(posts)
    BY <1>0, <1>3 DEF Deliver
  <2>2. Enqueue(p.to, p.env)
    BY <1>3 DEF Deliver
  <2> HIDE DEF p
  <2>3. HasRead(d)' = Told(HasRead(d), For(d, p))
    BY <1>0, <1>3, <2>1, <2>2, EnqueueIsRead
  <2>4. Hears(d, HasRead(d), posts) = Hears(d, Told(HasRead(d), For(d, p)), Tail(posts))
    BY <1>0, <1>1, <2>1, HearsFirst DEF p
  <2>5. WillSee(d)' = WillSee(d)
    BY <1>1, <1>2, <2>1, <2>3, <2>4
  <2> QED
    BY <1>3, <2>5, InformedStill DEF Deliver, ViewInv
<1>4. ASSUME NEW c \in Clients, Written(c)
      PROVE  Informed(d)'
  <2>1. posts' = posts /\ roomID' = roomID /\ rooms' = rooms
    BY <1>4 DEF Written, WriteLoop
  <2>2. HasRead(d)' = HasRead(d)
    <3>1. CASE d = c
      <4>1. /\ send[c] \in Seq(Readable) /\ send[c] # <<>> /\ seen[c] \in View
            /\ send'[c] = Tail(send[c]) /\ seen'[c] = Told(seen[c], Head(send[c]))
        <5>1. send[c] \in Seq(Envelope) /\ Envelope \subseteq Readable
          BY DEF TypeOK, Readable
        <5> QED
          BY <1>0, <1>4, <5>1 DEF Written, WriteLoop, TypeOK
      <4> QED
        BY <3>1, <4>1, ReadFirst DEF HasRead
    <3>2. CASE d # c
      <4>1. send'[d] = send[d] /\ seen'[d] = seen[d]
        BY <1>0, <1>4, <3>2 DEF Written, WriteLoop, TypeOK
      <4> QED
        BY <4>1 DEF HasRead
    <3> QED
      BY <3>1, <3>2
  <2>3. WillSee(d)' = WillSee(d)
    BY <1>1, <1>2, <2>1, <2>2
  <2> QED
    BY <2>1, <2>3, InformedStill DEF ViewInv
<1> QED
  BY <1>3, <1>4

\* The answers given without the lock say nothing that a view holds.
LEMMA AnswersInform ==
    ASSUME TypeOK, ViewInv, NEW c \in Clients, Hello(c) \/ Answer(c), seen' = seen,
           NEW d \in Registered \ lost', lost \subseteq lost'
    PROVE  Informed(d)'
<1>0. d \in Clients /\ seen \in [Clients -> View]
  BY DEF ViewInv, Registered
<1>1. PICK env \in Envelope : env.type \in Silent /\ Enqueue({c}, env)
  BY EnvelopeTypes DEF Hello, Answer, Silent
<1> DEFINE p == [to |-> {c}, env |-> env]
<1>2. p \in Post /\ p.to = {c} /\ p.env = env
  BY PostType
<1> HIDE DEF p
<1>3. HasRead(d)' = Told(HasRead(d), For(d, p))
  BY <1>0, <1>1, <1>2, EnqueueIsRead
<1>4. HasRead(d) \in View /\ WillSee(d) = Hears(d, HasRead(d), posts)
  BY <1>0, WillSeeIs
<1>5. HasRead(d)' = HasRead(d)
  BY <1>1, <1>2, <1>3, <1>4, OthersAreNotHeard
<1>6. WillSee(d)' = Hears(d, HasRead(d)', posts')
  BY Zenon DEF WillSee, Hears, HasRead
<1>7. posts' = posts /\ rooms' = rooms /\ roomID' = roomID
  BY DEF Hello, Answer
<1>8. WillSee(d)' = WillSee(d)
  BY <1>4, <1>5, <1>6, <1>7
<1> QED
  BY <1>7, <1>8, InformedStill DEF ViewInv

\* One post that is no news, or the list of a table that has not changed.
LEMMA PostInforms ==
    ASSUME TypeOK, TypeOK', ViewInv, NEW d \in Registered \ lost, NEW p \in Post,
           p.env.type \in Silent \/ p.env = RoomList(rooms),
           posts = <<>>, posts' = <<p>>, seen' = seen, send' = send,
           UNCHANGED <<roomID, rooms>>
    PROVE  Informed(d)'
<1> DEFINE v == WillSee(d)
<1>0. d \in Clients /\ seen \in [Clients -> View] /\ Informed(d)
  BY DEF ViewInv, AllInformed, Registered
<1>1. v \in View /\ WillSee(d)' = Hears(d, v, <<p>>)
  BY <1>0, PostsAreHeard
<1> HIDE DEF v
<1>2. WillSee(d)' = Told(v, For(d, p))
  BY <1>1, HearsOne
<1>3. CASE d \notin p.to \/ p.env.type \in Silent
  <2>1. WillSee(d)' = v
    BY <1>1, <1>2, <1>3, OthersAreNotHeard
  <2> QED
    BY <2>1, InformedStill DEF ViewInv, v
<1>4. CASE d \in p.to /\ p.env = RoomList(rooms)
  <2>1. p = [to |-> p.to, env |-> RoomList(rooms)]
    BY <1>4 DEF Post
  <2>2. Told(v, For(d, p)) = [v EXCEPT !.list = {RoomList(rooms).rooms}]
    <3>1. \A S : d \in S => Told(v, For(d, [to |-> S, env |-> RoomList(rooms)]))
                            = [v EXCEPT !.list = {RoomList(rooms).rooms}]
      BY <1>1, ListIsHeard
    <3> QED
      BY <1>4, <2>1, <3>1, Zenon
  <2> DEFINE w == WillSee(d)'
  <2>3. w.room = v.room /\ w.peers = v.peers /\ w.list = {RoomList(rooms).rooms}
    BY <1>1, <1>2, <2>2 DEF View
  <2> QED
    BY <1>0, <2>3 DEF Informed, v
<1> QED
  BY <1>3, <1>4

LEMMA SilenceInforms ==
    ASSUME TypeOK, TypeOK', ViewInv, NEW d \in Registered \ lost,
           posts = <<>>, posts' = <<>>, seen' = seen, send'[d] = send[d],
           roomID'[d] = roomID[d], rooms' = rooms
    PROVE  Informed(d)'
<1>1. d \in Clients /\ seen \in [Clients -> View]
  BY DEF ViewInv, Registered
<1>2. WillSee(d)' = Hears(d, WillSee(d), <<>>) /\ WillSee(d) \in View
  BY <1>1, PostsAreHeard
<1>3. WillSee(d)' = WillSee(d)
  BY <1>2, HearsNothing
<1> QED
  BY <1>3, InformedStill DEF ViewInv

\* The lists of the lobby, the refusals and the relays.
LEMMA QuietHandlersInform ==
    ASSUME TypeOK, TypeOK', ViewInv, NEW c \in Clients, NEW d \in Registered \ lost, seen' = seen,
           \/ ListRooms(c) \/ HelloRooms(c) \/ BroadcastPeerStatus(c)
           \/ \E r \in Rooms : JoinRefused(c, r)
           \/ \E target \in Clients : RouteToPeer(c, target)
           \/ \E sized \in BOOLEAN : BroadcastVoiceFrame(c, sized)
    PROVE  Informed(d)'
<1>1. /\ posts = <<>> /\ send' = send /\ roomID' = roomID /\ rooms' = rooms
      /\ posts' \in Seq(Post)
  BY DEF ListRooms, HelloRooms, BroadcastPeerStatus, JoinRefused, RouteToPeer, BroadcastVoiceFrame,
         Unlocked, TypeOK
<1>2. CASE posts' = <<>>
  BY <1>1, <1>2, SilenceInforms
<1>3. ASSUME NEW p, posts' = <<p>>, p.env.type \in Silent \/ p.env = RoomList(rooms)
      PROVE  Informed(d)'
  <2>1. p \in Post
    BY <1>1, <1>3
  <2> QED
    BY <1>1, <1>3, <2>1, PostInforms
<1>4. ASSUME NEW type \in RelayTypes, Broadcast(c, type)
      PROVE  \/ posts' = <<>>
             \/ \E p : posts' = <<p>> /\ p.env.type \in Silent
  <2>1. CASE roomID[c] \in DOMAIN rooms
    <3> DEFINE p == [to |-> rooms[roomID[c]].peers \ {c},
                     env |-> [type |-> type, room |-> roomID[c], peer |-> c]]
    <3>1. posts' = <<p>> /\ p.env.type \in Silent
      BY <1>4, <2>1 DEF Broadcast, Sends, Silent
    <3> HIDE DEF p
    <3> QED
      BY <3>1
  <2>2. CASE roomID[c] \notin DOMAIN rooms
    BY <1>4, <2>2 DEF Broadcast, Sends
  <2> QED
    BY <2>1, <2>2
<1>5. CASE ListRooms(c) \/ HelloRooms(c)
  <2> DEFINE p == [to |-> {c}, env |-> RoomList(rooms)]
  <2>1. posts' = <<p>> /\ p.env = RoomList(rooms)
    BY <1>5 DEF ListRooms, HelloRooms, Sends
  <2> HIDE DEF p
  <2> QED
    BY <1>3, <2>1
<1>6. CASE BroadcastPeerStatus(c)
  BY <1>2, <1>3, <1>4, <1>6 DEF BroadcastPeerStatus, RelayTypes
<1>7. ASSUME NEW r \in Rooms, JoinRefused(c, r)
      PROVE  Informed(d)'
  <2> DEFINE p == [to |-> {c}, env |-> [type |-> "error"]]
  <2>1. posts' = <<p>> /\ p.env.type \in Silent
    BY <1>7 DEF JoinRefused, Sends, Silent
  <2> HIDE DEF p
  <2> QED
    BY <1>3, <2>1
<1>8. ASSUME NEW target \in Clients, RouteToPeer(c, target)
      PROVE  Informed(d)'
  <2> DEFINE ice == [to |-> {target}, env |-> [type |-> "ice", room |-> roomID[c], peer |-> c]]
             error == [to |-> {c}, env |-> [type |-> "error"]]
  <2>1. posts' = <<ice>> \/ posts' = <<error>>
    BY <1>8 DEF RouteToPeer, Sends
  <2>2. ice.env.type \in Silent /\ error.env.type \in Silent
    BY DEF Silent, RelayTypes
  <2> HIDE DEF ice, error
  <2> QED
    BY <1>3, <2>1, <2>2
<1>9. ASSUME NEW sized \in BOOLEAN, BroadcastVoiceFrame(c, sized)
      PROVE  Informed(d)'
  <2>1. posts' = posts \/ Broadcast(c, "voice_frame")
    BY <1>9 DEF BroadcastVoiceFrame
  <2> QED
    BY <1>1, <1>2, <1>3, <1>4, <2>1 DEF RelayTypes
<1> QED
  BY <1>5, <1>6, <1>7, <1>8, <1>9

\* Who connects knows nothing, and is nowhere.
LEMMA ConnectionInforms ==
    ASSUME TypeOK, TypeOK', TableInv, ViewInv, NEW c \in Clients, Connect(c) \/ SocketFails(c),
           NEW d \in Clients, (d \in Registered)', d \notin lost, seen' = seen
    PROVE  Informed(d)'
<1>1. /\ send' = send /\ posts' = posts /\ roomID' = roomID /\ rooms' = rooms
      /\ seen \in [Clients -> View]
  BY DEF Connect, SocketFails, ViewInv
<1>2. WillSee(d)' = WillSee(d)
  BY <1>1, Zenon DEF WillSee
<1>3. CASE d \in Registered
  BY <1>1, <1>2, <1>3, InformedStill DEF ViewInv
<1>4. CASE d \notin Registered
  <2>1. conn[d] = "idle" /\ posts = <<>>
    BY <1>4 DEF Connect, SocketFails, Registered, TypeOK, Unlocked
  <2>2. seen[d] = NothingSeen /\ send[d] = <<>> /\ roomID[d] = NoRoom
    BY <2>1 DEF ViewInv, StrangersHearNothing, TableInv, StrangersAreNowhere
  <2>3. NothingSeen \in View /\ NothingSeen.list = {}
    BY DEF View, NothingSeen
  <2>4. WillSee(d) = NothingSeen
    BY <1>1, <2>1, <2>2, <2>3, WillSeeIs, ReadNothing DEF HasRead
  <2>5. NoRoom \notin DOMAIN rooms
    BY DEF TypeOK
  <2> QED
    BY <1>1, <1>2, <2>2, <2>3, <2>4, <2>5 DEF Informed
<1> QED
  BY <1>3, <1>4

\* A handler that changes the table ends with the new list to everybody.
LEMMA ListInforms ==
    ASSUME NEW d \in Clients, NEW u \in View, NEW S, d \in S,
           WillSee(d)' = Told(u, For(d, [to |-> S, env |-> RoomList(rooms')])),
           roomID'[d] \in DOMAIN rooms' => u.room = roomID'[d] /\ u.peers = rooms'[roomID'[d]].peers
    PROVE  Informed(d)'
<1> DEFINE w == WillSee(d)'
<1>1. w = [u EXCEPT !.list = {RoomList(rooms').rooms}]
  BY ListIsHeard
<1>2. w.room = u.room /\ w.peers = u.peers /\ w.list = {RoomList(rooms').rooms}
  BY <1>1 DEF View
<1> QED
  BY <1>2 DEF Informed

LEMMA RemovalInforms ==
    ASSUME TypeOK, TypeOK', TableInv, ViewInv, NEW c \in Clients, RemoveClient(c),
           NEW d \in Clients, (d \in Registered)', d \notin lost, seen' = seen
    PROVE  Informed(d)'
<1>1. d # c /\ d \in Registered /\ c \in Registered
  <2>1. conn[c] = "broken" /\ conn' = [conn EXCEPT ![c] = "gone"]
    BY DEF RemoveClient
  <2> QED
    BY <2>1 DEF Registered, TypeOK
<1>2. posts = <<>> /\ rooms' = Left(c) /\ roomID' = roomID /\ send'[d] = send[d]
  BY <1>1 DEF RemoveClient, Unlocked, TypeOK
<1>3. CASE roomID[c] \notin DOMAIN rooms
  <2>1. posts' = <<>> /\ rooms' = rooms
    BY <1>2, <1>3 DEF RemoveClient, Sends, Left
  <2> QED
    BY <1>1, <1>2, <2>1, SilenceInforms
<1>4. CASE roomID[c] \in DOMAIN rooms
  <2> DEFINE l == [to |-> Registered \ {c}, env |-> RoomList(rooms')]
  <2>1. posts' = Goodbye(c) \o <<l>>
    BY <1>2, <1>4 DEF RemoveClient, Sends
  <2>2. l \in Post
    BY <1>2, LeftType, RoomListType, RegisteredType, PostType
  <2> HIDE DEF l
  <2>3. <<l>> \in Seq(Post)
    BY <2>2
  <2>4. PICK u \in View :
           /\ WillSee(d)' = Hears(d, u, <<l>>)
           /\ u.list = WillSee(d).list
           /\ d # c /\ roomID[d] \in DOMAIN Left(c) =>
                 u.room = roomID[d] /\ u.peers = Left(c)[roomID[d]].peers
    <3>1. c \in Registered /\ d \in Registered \ lost /\ posts = <<>> /\ send'[d] = send[d]
      BY <1>1, <1>2
    <3> QED
      BY <2>1, <2>3, <3>1, LeaverIsHeard, Zenon
  <2>5. WillSee(d)' = Told(u, For(d, l))
    BY <2>2, <2>4, HearsOne
  <2>6. roomID'[d] \in DOMAIN rooms' => u.room = roomID'[d] /\ u.peers = rooms'[roomID'[d]].peers
    BY <1>1, <1>2, <2>4
  <2> QED
    BY <1>1, <2>5, <2>6, ListInforms DEF l
<1> QED
  BY <1>3, <1>4

LEMMA LeavingInforms ==
    ASSUME TypeOK, TypeOK', TableInv, ViewInv, NEW c \in Clients, LeaveRoom(c),
           NEW d \in Registered \ lost, seen' = seen
    PROVE  Informed(d)'
<1>1. /\ c \in Registered /\ posts = <<>> /\ rooms' = Left(c) /\ send' = send
      /\ roomID' = [roomID EXCEPT ![c] = NoRoom]
  BY DEF LeaveRoom, Unlocked, Reads
<1> DEFINE l == [to |-> Registered, env |-> RoomList(rooms')]
<1>2. posts' = Goodbye(c) \o <<l>>
  BY DEF LeaveRoom, Sends
<1>3. l \in Post
  BY <1>1, LeftType, RoomListType, RegisteredType, PostType
<1> HIDE DEF l
<1>4. <<l>> \in Seq(Post)
  BY <1>3
<1>5. PICK u \in View :
         /\ WillSee(d)' = Hears(d, u, <<l>>)
         /\ u.list = WillSee(d).list
         /\ d # c /\ roomID[d] \in DOMAIN Left(c) =>
               u.room = roomID[d] /\ u.peers = Left(c)[roomID[d]].peers
  <2>1. c \in Registered /\ posts = <<>> /\ send'[d] = send[d]
    BY <1>1
  <2> QED
    BY <1>2, <1>4, <2>1, LeaverIsHeard, Zenon
<1>6. WillSee(d)' = Told(u, For(d, l))
  BY <1>3, <1>5, HearsOne
<1>7. d \in Clients /\ NoRoom \notin DOMAIN Left(c)
  <2>1. Table(Left(c))
    BY LeftType
  <2> QED
    BY <2>1 DEF Registered, Table
<1>8. roomID'[d] \in DOMAIN rooms' => u.room = roomID'[d] /\ u.peers = rooms'[roomID'[d]].peers
  BY <1>1, <1>5, <1>7 DEF TypeOK
<1> QED
  BY <1>6, <1>7, <1>8, ListInforms DEF l

LEMMA CreationInforms ==
    ASSUME TypeOK, TypeOK', TableInv, ViewInv, NEW c \in Clients, CreateRoom(c),
           NEW d \in Registered \ lost, seen' = seen
    PROVE  Informed(d)'
<1>0. d \in Clients /\ c \in Registered /\ posts = <<>> /\ send' = send
  BY DEF CreateRoom, Unlocked, Reads, Registered
<1>1. PICK r \in Rooms \ drawn :
        /\ rooms' = PutRoom(Left(c), r, [host |-> c, peers |-> {c}])
        /\ roomID' = [roomID EXCEPT ![c] = r]
        /\ posts' = Goodbye(c)
              \o <<[to |-> {c}, env |-> [type |-> "room_created", room |-> r, peers |-> {c}]],
                   [to |-> Registered, env |-> RoomList(rooms')]>>
  BY DEF CreateRoom, Sends
<1> DEFINE e == [type |-> "room_created", room |-> r, peers |-> {c}]
           p == [to |-> {c}, env |-> e]
           l == [to |-> Registered, env |-> RoomList(rooms')]
<1>2. /\ DOMAIN rooms' = DOMAIN Left(c) \cup {r}
      /\ rooms'[r].peers = {c}
      /\ \A q \in DOMAIN Left(c) : q # r => rooms'[q] = Left(c)[q]
      /\ Table(rooms')
  <2> DEFINE room == [host |-> c, peers |-> {c}]
             left == Left(c)
  <2>0. r \in Rooms
    OBVIOUS
  <2>1. Table(left) /\ room \in Room /\ room.peers = {c} /\ rooms' = PutRoom(left, r, room)
    BY <1>1, LeftType DEF Room
  <2> HIDE DEF room, left
  <2> DEFINE put == PutRoom(left, r, room)
  <2>2. /\ Table(put) /\ DOMAIN put = DOMAIN left \cup {r}
        /\ \A q \in DOMAIN left \cup {r} : put[q] = IF q = r THEN room ELSE left[q]
    BY <2>0, <2>1, PutRoomType
  <2>3. rooms' = put
    BY <2>1
  <2> HIDE DEF put
  <2> QED
    BY <2>1, <2>2, <2>3 DEF left
<1>3. p \in Post /\ l \in Post
  BY <1>2, EnvelopeTypes, RoomListType, RegisteredType, PostType
<1>4. posts' = Goodbye(c) \o <<p, l>> /\ p.to = {c} /\ p.env = e
  BY <1>1
<1>5. e.type = "room_created" /\ e.room = r /\ e.peers = {c}
  OBVIOUS
<1> HIDE DEF p, l, e
<1> DEFINE news == <<p, l>>
<1>6. news \in Seq(Post) /\ posts' = Goodbye(c) \o news /\ send'[d] = send[d]
  BY <1>0, <1>3, <1>4
<1> HIDE DEF news
<1>7. PICK w \in View :
         /\ WillSee(d)' = Hears(d, w, news)
         /\ w.list = WillSee(d).list
         /\ d # c /\ roomID[d] \in DOMAIN Left(c) =>
               w.room = roomID[d] /\ w.peers = Left(c)[roomID[d]].peers
  <2>1. c \in Registered /\ posts = <<>>
    BY <1>0
  <2> QED
    BY <1>6, <2>1, LeaverIsHeard, ZenonT(40)
<1> DEFINE u == Told(w, For(d, p))
<1>8. WillSee(d)' = Told(u, For(d, l)) /\ u \in View
  BY <1>3, <1>7, HearsTwo, HearsOne DEF news
<1>9. roomID'[d] \in DOMAIN rooms' => u.room = roomID'[d] /\ u.peers = rooms'[roomID'[d]].peers
  <2>1. CASE d = c
    <3>1. For(d, p) = e /\ roomID'[d] = r
      BY <1>0, <1>1, <1>4, <2>1 DEF For, TypeOK
    <3>2. Told(w, e) = [w EXCEPT !.room = e.room, !.peers = e.peers]
      BY <1>5, ToldIs
    <3>3. u.room = r /\ u.peers = {c}
      BY <1>5, <3>1, <3>2 DEF View
    <3> QED
      BY <1>2, <3>1, <3>3
  <2>2. CASE d # c
    <3>1. u = w
      BY <1>4, <2>2, OthersAreNotHeard
    <3>2. roomID'[d] = roomID[d] /\ roomID[d] # r
      BY <1>0, <1>1, <2>2 DEF TypeOK, TableInv, IdsAreDrawn
    <3> QED
      BY <1>2, <1>7, <2>2, <3>1, <3>2
  <2> QED
    BY <2>1, <2>2
<1> HIDE DEF u
<1> QED
  BY <1>0, <1>8, <1>9, ListInforms DEF l

LEMMA JoiningInforms ==
    ASSUME TypeOK, TypeOK', TableInv, ViewInv, NEW c \in Clients, NEW r \in Rooms, JoinRoom(c, r),
           NEW d \in Registered \ lost, seen' = seen
    PROVE  Informed(d)'
<1> DEFINE left == Left(c)
           peers == rooms[r].peers \cup {c}
           joined == [type |-> "joined_room", room |-> r, peers |-> peers]
           came == [type |-> "peer_joined", room |-> r, peer |-> c]
           p == [to |-> {c}, env |-> joined]
           q == [to |-> peers \ {c}, env |-> came]
           l == [to |-> Registered, env |-> RoomList(rooms')]
<1>0. /\ d \in Clients /\ c \in Registered /\ posts = <<>> /\ send' = send
      /\ r \in DOMAIN rooms /\ roomID' = [roomID EXCEPT ![c] = r]
      /\ rooms' = IF r \in DOMAIN left
                  THEN PutRoom(left, r, [host |-> left[r].host, peers |-> peers])
                  ELSE left
  BY DEF JoinRoom, Unlocked, Reads, Registered, HasSpace
<1>1. posts' = Goodbye(c) \o <<p, q, l>>
  BY DEF JoinRoom, Sends
<1>2. peers \in SUBSET Clients
  BY <1>0 DEF TypeOK, Room
<1>3. p \in Post /\ q \in Post /\ l \in Post
  <2>1. Table(rooms')
    BY JoinRoomTable
  <2>2. joined \in Envelope /\ came \in Envelope
    BY <1>2, EnvelopeTypes
  <2> HIDE DEF joined, came, peers
  <2> QED
    BY <1>2, <2>1, <2>2, RoomListType, RegisteredType, PostType
<1>4. /\ DOMAIN rooms' = DOMAIN left
      /\ \A s \in DOMAIN left : s # r => rooms'[s] = left[s]
      /\ r \in DOMAIN left => rooms'[r].peers = peers
  <2>1. CASE r \in DOMAIN left
    <3> DEFINE room == [host |-> left[r].host, peers |-> peers]
    <3>1. Table(left)
      BY LeftType
    <3> HIDE DEF left, peers
    <3>2. room \in Room /\ room.peers = peers /\ rooms' = PutRoom(left, r, room)
      BY <1>0, <1>2, <2>1, <3>1 DEF Table, Room
    <3> HIDE DEF room
    <3> DEFINE put == PutRoom(left, r, room)
    <3>3. /\ DOMAIN put = DOMAIN left \cup {r}
          /\ \A s \in DOMAIN left \cup {r} : put[s] = IF s = r THEN room ELSE left[s]
      <4>1. room \in Room /\ r \in Rooms
        BY <3>2
      <4> QED
        BY <3>1, <4>1, PutRoomType
    <3>4. rooms' = put
      BY <3>2
    <3> HIDE DEF put
    <3> QED
      BY <2>1, <3>2, <3>3, <3>4
  <2>2. CASE r \notin DOMAIN left
    BY <1>0, <2>2
  <2> QED
    BY <2>1, <2>2
<1>5. /\ joined.type = "joined_room" /\ joined.room = r /\ joined.peers = peers
      /\ came.type = "peer_joined" /\ came.room = r /\ came.peer = c
      /\ p.to = {c} /\ p.env = joined /\ q.to = peers \ {c} /\ q.env = came
  OBVIOUS
<1>6. d \in rooms[r].peers <=> roomID[d] = r
  BY <1>0 DEF TableInv, PeersPointBack, RoomKnowsItsClients
<1>7. /\ \A s \in DOMAIN left : left[s].peers = rooms[s].peers \ {c}
      /\ r \in DOMAIN left <=> rooms[r].peers \ {c} # {}
  BY <1>0, LeftFacts
<1>8. d \in peers \ {c} <=> d # c /\ roomID[d] = r
  BY <1>6
<1>9. r \in DOMAIN left => left[r].peers \cup {c} = peers
  BY <1>7
<1>10. d # c /\ roomID[d] = r => r \in DOMAIN left
  BY <1>6, <1>7
<1> HIDE DEF left, peers, joined, came, p, q, l
<1> DEFINE news == <<p, q, l>>
<1>11. news \in Seq(Post) /\ posts' = Goodbye(c) \o news /\ send'[d] = send[d]
  BY <1>0, <1>1, <1>3
<1> HIDE DEF news
<1>12. PICK w \in View :
         /\ WillSee(d)' = Hears(d, w, news)
         /\ d # c /\ roomID[d] \in DOMAIN left =>
               w.room = roomID[d] /\ w.peers = left[roomID[d]].peers
  <2>1. \E w \in View :
         /\ WillSee(d)' = Hears(d, w, news)
         /\ w.list = WillSee(d).list
         /\ d # c /\ roomID[d] \in DOMAIN Left(c) =>
               w.room = roomID[d] /\ w.peers = Left(c)[roomID[d]].peers
    <3>1. c \in Registered /\ posts = <<>>
      BY <1>0
    <3> QED
      BY <1>11, <3>1, LeaverIsHeard, Zenon
  <2> QED
    BY <2>1 DEF left
<1> DEFINE v == Told(w, For(d, p))
           u == Told(v, For(d, q))
<1>13. v \in View /\ u \in View
  BY <1>3, HearsOne
<1>14. WillSee(d)' = Told(u, For(d, l))
  BY <1>3, <1>12, HearsThree DEF news
<1>15. d = c => v = [w EXCEPT !.room = r, !.peers = peers]
  <2>1. d = c => For(d, p) = joined
    BY <1>5 DEF For
  <2>2. Told(w, joined) = [w EXCEPT !.room = joined.room, !.peers = joined.peers]
    <3>1. joined.type \in {"room_created", "joined_room"}
      BY <1>5
    <3> QED
      BY <3>1, ToldIs
  <2> QED
    BY <1>5, <2>1, <2>2
<1>16. d # c => v = w
  BY <1>5, OthersAreNotHeard
<1> HIDE DEF v
<1>17. d \notin peers \ {c} => u = v
  BY <1>5, <1>13, OthersAreNotHeard
<1>18. d \in peers \ {c} /\ v.room = r => u = [v EXCEPT !.peers = @ \cup {c}]
  <2>1. d \in peers \ {c} => For(d, q) = came
    BY <1>5 DEF For
  <2>2. Told(v, came) = IF came.room = v.room THEN [v EXCEPT !.peers = @ \cup {came.peer}] ELSE v
    BY <1>5, <1>13, ToldIs, ZenonT(40)
  <2> QED
    BY <1>5, <2>1, <2>2
<1> HIDE DEF u
<1>19. roomID'[d] \in DOMAIN rooms' => u.room = roomID'[d] /\ u.peers = rooms'[roomID'[d]].peers
  <2>1. CASE d = c
    <3>1. roomID'[d] = r /\ u.room = r /\ u.peers = peers
      BY <1>0, <1>8, <1>15, <1>17, <2>1, ZenonT(40) DEF TypeOK, View
    <3> QED
      BY <1>4, <3>1
  <2>2. CASE d # c /\ roomID[d] = r
    <3>1. roomID'[d] = r /\ w.room = r /\ w.peers \cup {c} = peers
      BY <1>0, <1>9, <1>10, <1>12, <2>2 DEF TypeOK
    <3>2. u.room = r /\ u.peers = peers
      BY <1>8, <1>13, <1>16, <1>18, <2>2, <3>1 DEF View
    <3> QED
      BY <1>4, <3>1, <3>2
  <2>3. CASE d # c /\ roomID[d] # r
    <3>1. roomID'[d] = roomID[d] /\ u = w
      BY <1>0, <1>8, <1>16, <1>17, <2>3 DEF TypeOK
    <3> QED
      BY <1>4, <1>12, <2>3, <3>1
  <2> QED
    BY <2>1, <2>2, <2>3
<1> QED
  BY <1>0, <1>13, <1>14, <1>19, ListInforms DEF l

LEMMA ViewStep ==
    ASSUME TypeOK, TypeOK', TableInv, ViewInv, ViewNext
    PROVE  ViewInv'
<1>1. lost \subseteq lost'
  BY DEF ViewNext, HubStep, Handle, Hello, ListRooms, CreateRoom, JoinRoom, JoinRefused, LeaveRoom,
         RouteToPeer, BroadcastPeerStatus, BroadcastVoiceFrame, Answer, HelloRooms, Connection, Connect,
         SocketFails, RemoveClient, Deliver, AllGone, Written, WriteLoop, Enqueue, vars, hubVars
<1>2. AllInformed'
  <2> SUFFICES ASSUME NEW d \in Clients, (d \in Registered)', d \notin lost'
               PROVE  Informed(d)'
    BY DEF AllInformed, Registered
  <2>1. d \notin lost
    BY <1>1
  <2>2. ASSUME NEW c \in Clients, Handle(c) \/ HelloRooms(c), seen' = seen
        PROVE  Informed(d)'
    <3>1. conn' = conn
      BY <2>2 DEF Handle, Hello, ListRooms, CreateRoom, JoinRoom, JoinRefused, LeaveRoom, RouteToPeer,
                BroadcastPeerStatus, BroadcastVoiceFrame, Answer, HelloRooms
    <3>2. d \in Registered \ lost /\ d \in Registered \ lost'
      BY <2>1, <3>1 DEF Registered
    <3>3. CASE Hello(c) \/ Answer(c)
      BY <1>1, <2>2, <3>2, <3>3, AnswersInform
    <3>4. CASE CreateRoom(c)
      BY <2>2, <3>2, <3>4, CreationInforms
    <3>5. ASSUME NEW r \in Rooms, JoinRoom(c, r)
          PROVE  Informed(d)'
      BY <2>2, <3>2, <3>5, JoiningInforms
    <3>6. CASE LeaveRoom(c)
      BY <2>2, <3>2, <3>6, LeavingInforms
    <3>7. ASSUME \/ ListRooms(c) \/ HelloRooms(c) \/ BroadcastPeerStatus(c)
                 \/ \E r \in Rooms : JoinRefused(c, r)
                 \/ \E target \in Clients : RouteToPeer(c, target)
                 \/ \E sized \in BOOLEAN : BroadcastVoiceFrame(c, sized)
          PROVE  Informed(d)'
      BY <2>2, <3>2, <3>7, QuietHandlersInform
    <3> QED
      BY <2>2, <3>3, <3>4, <3>5, <3>6, <3>7 DEF Handle
  <2>3. ASSUME NEW c \in Clients, Connect(c) \/ SocketFails(c), seen' = seen
        PROVE  Informed(d)'
    BY <2>1, <2>3, ConnectionInforms
  <2>4. ASSUME NEW c \in Clients, RemoveClient(c), seen' = seen
        PROVE  Informed(d)'
    BY <2>1, <2>4, RemovalInforms
  <2>5. ASSUME (Deliver /\ seen' = seen) \/ \E c \in Clients : Written(c)
        PROVE  Informed(d)'
    <3>1. conn' = conn
      BY <2>5 DEF Deliver, Written, WriteLoop
    <3>2. d \in Registered \ lost'
      BY <3>1 DEF Registered
    <3> QED
      BY <1>1, <2>5, <3>2, MovingInforms
  <2>6. ASSUME AllGone
        PROVE  Informed(d)'
    BY <2>6 DEF AllGone, Registered, vars, hubVars
  <2> QED
    BY <2>2, <2>3, <2>4, <2>5, <2>6 DEF ViewNext, HubStep, Connection
<1> QED
  BY <1>2, SeenType, GreetersStep, StrangersStep DEF ViewInv

\* What is recorded of the clients adds nothing to what the hub may do.
THEOREM ViewsFollowTheHub == ViewSpec => Spec
<1>1. ViewInit => Init
  BY DEF ViewInit
<1>2. [ViewNext]_viewVars => [Next]_vars
  BY DEF ViewNext, Written, Next, viewVars
<1> QED
  BY <1>1, <1>2, PTL DEF ViewSpec, Spec

LEMMA ViewsAreRight == ViewSpec => [](TypeOK /\ TableInv /\ ViewInv)
<1>1. ViewInit => ViewInv
  <2> SUFFICES ASSUME ViewInit PROVE ViewInv
    OBVIOUS
  <2>1. /\ posts = <<>> /\ Registered = {} /\ seen = [c \in Clients |-> NothingSeen]
        /\ \A c \in Clients : pc[c] = "reading" /\ send[c] = <<>>
    BY DEF ViewInit, Init, Registered
  <2>2. NothingSeen \in View
    BY DEF NothingSeen, View
  <2> QED
    BY <2>1, <2>2 DEF ViewInv, GreetersAreHere, StrangersHearNothing, AllInformed
<1>2. TypeOK /\ TypeOK' /\ TableInv /\ ViewInv /\ [ViewNext]_viewVars => ViewInv'
  <2>1. ASSUME ViewInv, UNCHANGED viewVars
        PROVE  ViewInv'
    <3>1. UNCHANGED <<conn, pc, roomID, rooms, send, posts, lost, seen>>
      BY <2>1 DEF viewVars, vars, hubVars
    <3>2. \A d : WillSee(d)' = WillSee(d)
      BY <3>1, Zenon DEF WillSee
    <3>3. AllInformed'
      BY <2>1, <3>1, <3>2 DEF ViewInv, AllInformed, Informed, Registered
    <3> QED
      BY <2>1, <3>1, <3>3 DEF ViewInv, GreetersAreHere, StrangersHearNothing, Registered
  <2> QED
    BY <2>1, ViewStep
<1> QED
  BY <1>1, <1>2, TableInvariant, ViewsFollowTheHub, PTL DEF ViewSpec

\* However the clients move between rooms, and whoever goes: once what is
\* queued and posted for it is read, a client that lost nothing has been told
\* exactly the peers of the room it is in.
THEOREM Membership == ViewSpec => []MembershipAddsUp
<1>1. ViewInv => MembershipAddsUp
  BY DEF ViewInv, AllInformed, Informed, MembershipAddsUp
<1> QED
  BY <1>1, ViewsAreRight, PTL

\* The last room list on its way to a client that lost nothing is the table.
THEOREM Lists == ViewSpec => []ListIsCurrent
<1>1. ViewInv => ListIsCurrent
  BY DEF ViewInv, AllInformed, Informed, ListIsCurrent
<1> QED
  BY <1>1, ViewsAreRight, PTL
=============================================================================
