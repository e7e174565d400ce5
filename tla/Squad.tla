------------------------------- MODULE Squad -------------------------------
(***************************************************************************)
(* How a client comes to its room: Application::run up to and around its   *)
(* main loop (client/src/core/Application.cpp), on SignalingClient         *)
(* (client/src/net/SignalingClient.cpp), whose receiver thread fills the   *)
(* fields the main thread waits for, five seconds at the most.             *)
(*                                                                         *)
(* The coordinator is as Hub has it, seen over one connection: it takes    *)
(* requests in order, answers in order, and sends the room list to         *)
(* everyone whenever a room changes, also before hello is answered.        *)
(* Messages between members are VoiceCall's subject and left out, and so   *)
(* are the WinHTTP handles' number, names, urls and log lines.             *)
(***************************************************************************)
EXTENDS Naturals, Sequences, FiniteSets

CONSTANTS
    Rooms,      \* rooms of other players
    Own,        \* the room this client creates on the coordinator
    Lan,        \* the room of the LAN fallback
    NoRoom,     \* std::nullopt
    MaxLists    \* bound: how often a room of others opens or fills up

ASSUME RoomsAssumption ==
    /\ IsFiniteSet(Rooms) /\ MaxLists \in Nat
    /\ Own \notin Rooms /\ Lan \notin Rooms \cup {Own}
    /\ NoRoom \notin Rooms \cup {Own, Lan}

VARIABLES
    pc,             \* where the main thread is
    after,          \* where it goes when disconnect returns
    candidates,     \* rooms of listRooms() not yet tried
    asked,          \* the candidate joinRoom was called with
    session,        \* VoiceSession::room_
    met,            \* rooms whose members handleSignalingEvent added to the session
    connected,      \* connected_
    handle,         \* websocketHandle_ # nullptr
    stopRequested,  \* stopRequested_
    thread,         \* receiverThread_: none | running | ended (and joinable)
    received,       \* receivedHello_ and receivedRooms_, as a set
    rooms,          \* rooms_: those with a place
    pending,        \* pendingJoinedRoom_, pendingCreatedRoom_, pendingError_
    currentRoomId,  \* currentRoomId_
    events,         \* events_: rooms of the joined_room events
    link,           \* the connection: none | open | broken
    up, down,       \* messages on their way
    hubRoom,        \* the room the coordinator has this client in
    open,           \* rooms of others with a place
    lists,          \* how often open changed
    timedOut        \* a wait for a room ended without an answer (history)

appVars == <<pc, after, candidates, asked, session, met>>
lockedVars == <<received, rooms, pending, currentRoomId, events>>
clientVars == <<connected, handle, stopRequested, thread, lockedVars>>
hubVars == <<hubRoom, open, lists>>
netVars == <<link, up, down, hubVars>>
vars == <<appVars, clientVars, netVars, timedOut>>

Requests == [type : {"hello", "create_room"}] \cup [type : {"join_room"}, room : Rooms]
Answers ==
    [type : {"hello", "error"}] \cup [type : {"rooms"}, rooms : SUBSET Rooms]
        \cup [type : {"joined_room", "room_created"}, room : Rooms \cup {Own}]

Waiting == {"awaitHello", "awaitJoin", "awaitCreate"}
NothingPending == [joined |-> NoRoom, created |-> NoRoom, error |-> FALSE]

TypeOK ==
    /\ pc \in Waiting \cup {"boot", "greet", "choose", "lan", "loop",
                            "disconnect", "join", "exited", "aborted"}
    /\ after \in {"lan", "exited"}
    /\ candidates \subseteq Rooms /\ asked \in Rooms \cup {NoRoom}
    /\ session \in Rooms \cup {Own, Lan, NoRoom} /\ met \subseteq Rooms
    /\ connected \in BOOLEAN /\ handle \in BOOLEAN /\ stopRequested \in BOOLEAN
    /\ thread \in {"none", "running", "ended"}
    /\ received \subseteq {"hello", "rooms"} /\ rooms \subseteq Rooms
    /\ pending \in [joined : Rooms \cup {NoRoom}, created : {Own, NoRoom}, error : BOOLEAN]
    /\ currentRoomId \in Rooms \cup {Own, NoRoom} /\ events \subseteq Rooms
    /\ link \in {"none", "open", "broken"}
    /\ up \in Seq(Requests) /\ down \in Seq(Answers)
    /\ hubRoom \in Rooms \cup {Own, NoRoom} /\ open \subseteq Rooms
    /\ lists \in 0..MaxLists /\ timedOut \in BOOLEAN

Init ==
    /\ pc = "boot" /\ after = "lan"
    /\ candidates = {} /\ asked = NoRoom /\ session = NoRoom /\ met = {}
    /\ connected = FALSE /\ handle = FALSE /\ stopRequested = FALSE /\ thread = "none"
    /\ received = {} /\ rooms = {} /\ pending = NothingPending
    /\ currentRoomId = NoRoom /\ events = {}
    /\ link = "none" /\ up = <<>> /\ down = <<>>
    /\ hubRoom = NoRoom /\ open \in SUBSET Rooms /\ lists = 0 /\ timedOut = FALSE
----------------------------------------------------------------------------
(* SignalingClient, called by the main thread. *)

\* sendText succeeds.  What is written to a broken connection is lost.
SendText(msg) ==
    /\ connected /\ handle
    /\ up' = IF link = "open" THEN Append(up, msg) ELSE up

\* sendText, and with it the request, fails.
SendFails ==
    /\ ~(connected /\ handle) \/ link = "broken"
    /\ UNCHANGED up

\* connect: the handshake fails at one of its steps, or the receiver starts.
Connect ==
    /\ pc = "boot"
    /\ \/ pc' = "lan" /\ UNCHANGED <<connected, handle, thread, link>>
       \/ /\ pc' = "greet"
          /\ connected' = TRUE /\ handle' = TRUE /\ thread' = "running" /\ link' = "open"
    /\ UNCHANGED <<after, candidates, asked, session, met, stopRequested, lockedVars,
                   up, down, hubVars, timedOut>>

Disconnecting(next) == pc' = "disconnect" /\ after' = next

\* connect sends hello.
Greet ==
    /\ pc = "greet"
    /\ \/ SendText([type |-> "hello"]) /\ pc' = "awaitHello" /\ UNCHANGED after
       \/ SendFails /\ Disconnecting("lan")
    /\ UNCHANGED <<candidates, asked, session, met, clientVars, link, down, hubVars, timedOut>>

\* Mutant: connect gives up without disconnect.
GiveUpConnected ==
    /\ pc = "awaitHello"
    /\ pc' = IF "hello" \in received THEN "choose" ELSE "lan"
    /\ candidates' = IF "hello" \in received THEN rooms ELSE candidates
    /\ UNCHANGED <<after, asked, session, met, clientVars, netVars, timedOut>>

\* connect's wait ends: the answer is there or the time is up.  run then asks
\* for the rooms.
AwaitHello ==
    /\ pc = "awaitHello"
    /\ IF "hello" \in received
       THEN pc' = "choose" /\ candidates' = rooms /\ UNCHANGED after
       ELSE Disconnecting("lan") /\ UNCHANGED candidates
    /\ UNCHANGED <<asked, session, met, clientVars, netVars, timedOut>>

\* disconnect closes the handles ...
CloseHandles ==
    /\ pc = "disconnect"
    /\ pc' = "join"
    /\ stopRequested' = TRUE /\ connected' = FALSE /\ handle' = FALSE
    /\ UNCHANGED <<after, candidates, asked, session, met, thread, lockedVars,
                   netVars, timedOut>>

\* ... and returns when the receiver has ended.
JoinReceiver ==
    /\ pc = "join" /\ thread # "running"
    /\ pc' = after
    /\ thread' = "none"
    /\ received' = {} /\ pending' = NothingPending /\ currentRoomId' = NoRoom
    /\ UNCHANGED <<after, candidates, asked, session, met, connected, handle, stopRequested,
                   rooms, events, netVars, timedOut>>

\* joinRoom up to its wait.  No answer can come between its reset and its
\* request that could not come after both.
JoinRoom(r) ==
    /\ pc = "choose" /\ r \in candidates
    /\ candidates' = candidates \ {r}
    /\ \/ /\ SendText([type |-> "join_room", room |-> r])
          /\ pending' = [pending EXCEPT !.joined = NoRoom, !.error = FALSE]
          /\ pc' = "awaitJoin" /\ asked' = r
       \/ SendFails /\ UNCHANGED <<pc, asked, pending>>
    /\ UNCHANGED <<after, session, met, connected, handle, stopRequested, thread, received,
                   rooms, currentRoomId, events, link, down, hubVars, timedOut>>

\* A wait for an answer ends: answered, disconnected, or out of time.
WaitEnds(answer) ==
    timedOut' = (timedOut \/ ~(answer # NoRoom \/ pending.error \/ ~connected))

\* joinRoom returns from its wait, with or without success.
JoinEnds(success, noted, next) ==
    /\ pc = "awaitJoin"
    /\ WaitEnds(pending.joined)
    /\ IF success
       THEN /\ pc' = next /\ session' = asked
            /\ currentRoomId' = noted
            /\ pending' = [pending EXCEPT !.joined = NoRoom]
       ELSE pc' = "choose" /\ UNCHANGED <<session, currentRoomId, pending>>
    /\ UNCHANGED <<after, candidates, asked, met, connected, handle, stopRequested, thread,
                   received, rooms, events, netVars>>

\* Mutants: the client notes the room it asked for; the loop over the candidates
\* goes on; the wait has no end.
JoinNotesTheAsked == JoinEnds(pending.joined # NoRoom, asked, "loop")
JoinGoesOn == JoinEnds(pending.joined # NoRoom, pending.joined, "choose")
JoinWaits ==
    /\ pending.joined # NoRoom \/ pending.error \/ ~connected
    /\ JoinEnds(pending.joined # NoRoom, pending.joined, "loop")

\* run stores the candidate, not the room of the answer.
AwaitJoin == JoinEnds(pending.joined # NoRoom, pending.joined, "loop")

\* createRoom up to its wait.  Without a room run returns 2, and the process
\* ends in std::terminate: ~SignalingClient finds a thread nobody joined.
CreateRoom ==
    /\ pc = "choose" /\ candidates = {}
    /\ \/ /\ SendText([type |-> "create_room"])
          /\ pending' = [pending EXCEPT !.created = NoRoom, !.error = FALSE]
          /\ pc' = "awaitCreate"
       \/ SendFails /\ pc' = "aborted" /\ UNCHANGED pending
    /\ UNCHANGED <<after, candidates, asked, session, met, connected, handle, stopRequested,
                   thread, received, rooms, currentRoomId, events, link, down, hubVars, timedOut>>

\* createRoom wakes up.
AwaitCreate ==
    /\ pc = "awaitCreate"
    /\ WaitEnds(pending.created)
    /\ IF pending.created # NoRoom
       THEN /\ pc' = "loop" /\ session' = pending.created
            /\ currentRoomId' = pending.created
            /\ pending' = [pending EXCEPT !.created = NoRoom]
       ELSE pc' = "aborted" /\ UNCHANGED <<session, currentRoomId, pending>>
    /\ UNCHANGED <<after, candidates, asked, met, connected, handle, stopRequested, thread,
                   received, rooms, events, netVars>>

\* The coordinator is unavailable: a room of one's own, on the LAN.
UseLan ==
    /\ pc = "lan"
    /\ pc' = "loop" /\ session' = Lan
    /\ UNCHANGED <<after, candidates, asked, met, clientVars, netVars, timedOut>>

\* The main loop pumps the events: the members of a joined room, whichever it
\* is, become peers.  room_created has no branch in handleSignalingEvent.
Pump ==
    /\ pc = "loop" /\ events # {}
    /\ met' = met \cup events /\ events' = {}
    /\ UNCHANGED <<pc, after, candidates, asked, session, connected, handle, stopRequested,
                   thread, received, rooms, pending, currentRoomId, netVars,
                   timedOut>>

\* The user leaves; the main loop ends.
Exit ==
    /\ pc = "loop"
    /\ Disconnecting("exited")
    /\ UNCHANGED <<candidates, asked, session, met, clientVars, netVars, timedOut>>
----------------------------------------------------------------------------
(* The receiver thread. *)

\* Mutant: the two confirmations share a field.
OnePending(msg) ==
    /\ received' = received \cup ({msg.type} \cap {"hello", "rooms"})
    /\ rooms' = IF msg.type = "rooms" THEN msg.rooms ELSE rooms
    /\ pending' = CASE msg.type \in {"joined_room", "room_created"} ->
                            [pending EXCEPT !.created = msg.room]
                    [] msg.type = "error" -> [pending EXCEPT !.error = TRUE]
                    [] OTHER -> pending
    /\ currentRoomId' = IF msg.type \in {"joined_room", "room_created"}
                        THEN msg.room ELSE currentRoomId
    /\ events' = IF msg.type = "joined_room" THEN events \cup {msg.room} ELSE events

\* handleServerMessage, for one message.
HandleServerMessage(msg) ==
    /\ received' = received \cup ({msg.type} \cap {"hello", "rooms"})
    /\ rooms' = IF msg.type = "rooms" THEN msg.rooms ELSE rooms
    /\ pending' = CASE msg.type = "joined_room" -> [pending EXCEPT !.joined = msg.room]
                    [] msg.type = "room_created" -> [pending EXCEPT !.created = msg.room]
                    [] msg.type = "error" -> [pending EXCEPT !.error = TRUE]
                    [] OTHER -> pending
    /\ currentRoomId' = IF msg.type \in {"joined_room", "room_created"}
                        THEN msg.room ELSE currentRoomId
    /\ events' = IF msg.type = "joined_room" THEN events \cup {msg.room} ELSE events

\* receiveLoop gets a message.
Receive ==
    /\ thread = "running" /\ ~stopRequested /\ handle
    /\ down # <<>>
    /\ HandleServerMessage(Head(down))
    /\ down' = Tail(down)
    /\ UNCHANGED <<appVars, connected, handle, stopRequested, thread, link, up, hubVars, timedOut>>

\* receiveLoop fails, is closed or is asked to stop.
EndReceiver ==
    /\ thread = "running"
    /\ link = "broken" \/ ~handle
    /\ thread' = "ended" /\ connected' = FALSE
    /\ UNCHANGED <<appVars, handle, stopRequested, lockedVars, netVars, timedOut>>
----------------------------------------------------------------------------
(* The coordinator and the network. *)

List(places) == [type |-> "rooms", rooms |-> places]

\* handle, for the next request of this client.  A change of rooms is followed
\* by the list, to everyone.
HubHandle ==
    /\ link = "open" /\ up # <<>>
    /\ up' = Tail(up)
    /\ LET req == Head(up)
           Answer(type, r) ==
               /\ hubRoom' = r
               /\ down' = down \o <<[type |-> type, room |-> r], List(open)>>
       IN  \/ /\ req.type = "hello"
              /\ down' = down \o <<[type |-> "hello"], List(open)>> /\ UNCHANGED hubRoom
           \/ req.type = "create_room" /\ Answer("room_created", Own)
           \/ req.type = "join_room" /\ req.room \in open /\ Answer("joined_room", req.room)
           \/ /\ req.type = "join_room" /\ req.room \notin open
              /\ down' = Append(down, [type |-> "error"]) /\ UNCHANGED hubRoom
    /\ UNCHANGED <<appVars, clientVars, link, open, lists, timedOut>>

\* A room opens, fills up or goes; the list is broadcast.
OthersMove(r) ==
    /\ lists < MaxLists /\ lists' = lists + 1
    /\ open' = IF r \in open THEN open \ {r} ELSE open \cup {r}
    /\ down' = IF link = "open" THEN Append(down, List(open')) ELSE down
    /\ UNCHANGED <<appVars, clientVars, link, up, hubRoom, timedOut>>

Break ==
    /\ link = "open" /\ link' = "broken"
    /\ UNCHANGED <<appVars, clientVars, up, down, hubVars, timedOut>>
----------------------------------------------------------------------------
MainThread ==
    \/ Connect \/ Greet \/ AwaitHello \/ CloseHandles \/ JoinReceiver
    \/ \E r \in Rooms : JoinRoom(r)
    \/ AwaitJoin \/ CreateRoom \/ AwaitCreate \/ UseLan \/ Pump
ReceiverThread == Receive \/ EndReceiver
Hub == HubHandle \/ \E r \in Rooms : OthersMove(r)

Next == MainThread \/ Exit \/ ReceiverThread \/ Hub \/ Break

\* Both threads run; nothing is asked of the network or the coordinator.
Spec == Init /\ [][Next]_vars /\ WF_vars(MainThread) /\ WF_vars(ReceiverThread)
----------------------------------------------------------------------------
(* Properties. *)

\* The room that the session shows and the transport uses is the room the
\* coordinator has the client in (joinRoom and createRoom, SignalingClient.cpp
\* 722-788), and peers are only taken from it (handleSignalingEvent,
\* Application.cpp 404-416, which does not ask of which room an event is), as
\* long as every request was answered in time.
OneRoom ==
    pc = "loop" /\ ~timedOut =>
        /\ link = "open" /\ session # Lan => session = hubRoom
        /\ met \cup events \subseteq {session}

\* Late answers or not, currentRoomId_, which the main thread and the receiver
\* both write, is the coordinator's room as of the last answer that has been
\* read (SignalingClient.cpp 749, 783 and 959).
RoomAnswers == {i \in DOMAIN down : down[i].type \in {"joined_room", "room_created"}}
ClientKnowsItsRoom ==
    link = "open" /\ pc \notin {"lan", "exited"} /\ session # Lan =>
        IF RoomAnswers = {} THEN currentRoomId = hubRoom
        ELSE \A i \in RoomAnswers :
                (\A j \in RoomAnswers : j <= i) => down[i].room = hubRoom

\* A client that fell back to the LAN has nothing left of the connection it
\* tried: no thread that would queue events, no handle, nothing sent (connect,
\* SignalingClient.cpp 641-678).
LanIsOffline == session = Lan => ~connected /\ ~handle /\ thread = "none" /\ events = {}

\* The start comes to an end, whatever coordinator and network do: the client
\* has a room, or gave up (the waits of five seconds, and disconnect's join).
StartupEnds == <>(pc \in {"loop", "aborted"})
=============================================================================
