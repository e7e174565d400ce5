------------------------------ MODULE HubViews ------------------------------
(***************************************************************************)
(* What the clients of the hub have been told.  seen[c] is what a client   *)
(* that believes every envelope written to its socket knows: its room, the *)
(* peers in it and the latest room list.  It is a history of the hub, not  *)
(* state of the program; the shipped client's own bookkeeping is in Squad. *)
(***************************************************************************)
EXTENDS Hub

VARIABLE seen    \* client -> what the envelopes written to it say

viewVars == <<vars, seen>>

NothingSeen == [room |-> NoRoom, peers |-> {}, list |-> {}]

\* One envelope read; list is {} until a room list has come, then {the list}.
Told(view, env) ==
    CASE env.type \in {"room_created", "joined_room"} ->
            [view EXCEPT !.room = env.room, !.peers = env.peers]
      [] env.type = "peer_joined" /\ env.room = view.room ->
            [view EXCEPT !.peers = @ \cup {env.peer}]
      [] env.type = "peer_left" /\ env.room = view.room ->
            [view EXCEPT !.peers = @ \ {env.peer}]
      [] env.type = "rooms" -> [view EXCEPT !.list = {env.rooms}]
      [] OTHER -> view

ViewInit == Init /\ seen = [c \in Clients |-> NothingSeen]

\* c's client reads what the writer wrote.
Written(c) ==
    /\ WriteLoop(c)
    /\ seen' = [seen EXCEPT ![c] = Told(@, Head(send[c]))]
    /\ UNCHANGED served

ViewNext == (HubStep /\ UNCHANGED seen) \/ \E c \in Clients : Written(c)

ViewSpec == ViewInit /\ [][ViewNext]_viewVars

\* The goroutines run: a handler that holds the lock ends (enqueue never
\* blocks), a writer with something to write writes it or fails within its five
\* seconds, and a reader waiting for h.mu gets it (sync.RWMutex starves nobody)
\* although others take it again and again.  Clients owe the hub nothing.
Fairness ==
    /\ WF_viewVars(Deliver /\ UNCHANGED <<served, seen>>)
    /\ \A c \in Clients :
          /\ WF_viewVars(Written(c))
          /\ SF_viewVars(RemoveClient(c) /\ UNCHANGED <<served, seen>>)
          /\ SF_viewVars(HelloRooms(c) /\ UNCHANGED <<served, seen>>)

FairViewSpec == ViewSpec /\ Fairness
----------------------------------------------------------------------------
\* What a client knows that has read these envelopes one after the other.
AfterReading(view, envs) ==
    LET read[n \in 0..Len(envs)] == IF n = 0 THEN view ELSE Told(read[n - 1], envs[n])
    IN  read[Len(envs)]

\* What a post brings to c: its envelope, or nothing if it goes to others.
Nothing == [type |-> "none"]
For(c, post) == IF c \in post.to THEN post.env ELSE Nothing

\* What c will know once its channel, and the posts still to be made, are read.
WillSee(c) ==
    AfterReading(AfterReading(seen[c], send[c]), [i \in DOMAIN posts |-> For(c, posts[i])])

\* Membership events come in an order that adds up: a client that lost nothing,
\* however it and the others moved between rooms, ends up believing exactly the
\* peers that the hub has in its room (snapshot first, each peer_joined and
\* peer_left once, none of the room it left).
MembershipAddsUp ==
    \A c \in Registered \ lost :
        roomID[c] \in DOMAIN rooms =>
            /\ WillSee(c).room = roomID[c]
            /\ WillSee(c).peers = rooms[roomID[c]].peers

\* Every change of the room table reaches every connected client: the last
\* list on its way to a client that lost nothing is the table as it is now, so
\* the lobby never goes on showing a host or a peer count that has changed.
ListIsCurrent ==
    \A c \in Registered \ lost : WillSee(c).list \in {{}, {RoomList(rooms).rooms}}

\* A peer whose socket died is noticed: whoever still sees it in its own room,
\* loses nothing and stays connected there is told that it left.
DeadPeerIsNoticed ==
    \A c, d \in Clients : \A r \in Rooms :
        (conn[d] = "broken" /\ conn[c] = "open" /\ seen[c].room = r /\ d \in seen[c].peers)
            ~> (d \notin seen[c].peers \/ seen[c].room # r \/ roomID[c] # r
                \/ conn[c] # "open" \/ c \in lost)

\* A hello is answered with a room list unless the client overflows or goes.
HelloIsAnswered ==
    \A c \in Clients :
        pc[c] = "greeting" ~> (seen[c].list # {} \/ c \in lost \/ conn[c] # "open")
=============================================================================
