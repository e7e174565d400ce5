---------------------------- MODULE SquadProofs ----------------------------
(***************************************************************************)
(* Theorems about Squad, for any rooms of others and any number of lists:  *)
(* types, what is left of a connection that was given up, and whose room   *)
(* the client takes for its own.  That the start ends is model-checked.    *)
(***************************************************************************)
EXTENDS Squad, SequenceTheorems, TLAPS

USE RoomsAssumption DEF RoomsAssumption

\* Queues of messages: none of these types, a single one, and the last one.
No(s, types) == \A i \in 1..Len(s) : s[i].type \notin types
OnlyOne(s, types, m) ==
    \E i \in 1..Len(s) : s[i] = m /\ \A j \in 1..Len(s) : s[j].type \in types => j = i
EndsIn(s, types, r) ==
    \E i \in 1..Len(s) :
        /\ s[i].type \in types /\ s[i].room = r
        /\ \A j \in 1..Len(s) : s[j].type \in types => j <= i

Asking == {"join_room", "create_room"}
Placing == {"joined_room", "room_created"}
Replying == Placing \cup {"error"}

\* Answers, each with a room it can be about.
FineAnswers ==
    [type : {"hello", "error"}] \cup [type : {"rooms"}, rooms : SUBSET Rooms]
        \cup [type : {"joined_room"}, room : Rooms] \cup [type : {"room_created"}, room : {Own}]

\* TypeOK, by the owners of the variables.
AppTypes ==
    /\ pc \in Waiting \cup {"boot", "greet", "choose", "lan", "loop",
                            "disconnect", "join", "exited", "aborted"}
    /\ after \in {"lan", "exited"}
    /\ candidates \subseteq Rooms /\ asked \in Rooms \cup {NoRoom}
    /\ session \in Rooms \cup {Own, Lan, NoRoom} /\ met \subseteq Rooms
ClientTypes ==
    /\ connected \in BOOLEAN /\ handle \in BOOLEAN /\ stopRequested \in BOOLEAN
    /\ thread \in {"none", "running", "ended"}
    /\ received \subseteq {"hello", "rooms"} /\ rooms \subseteq Rooms
    /\ pending \in [joined : Rooms \cup {NoRoom}, created : {Own, NoRoom}, error : BOOLEAN]
    /\ currentRoomId \in Rooms \cup {Own, NoRoom} /\ events \subseteq Rooms
NetTypes ==
    /\ link \in {"none", "open", "broken"}
    /\ up \in Seq(Requests) /\ down \in Seq(FineAnswers)
    /\ hubRoom \in Rooms \cup {Own, NoRoom} /\ open \subseteq Rooms
    /\ lists \in 0..MaxLists /\ timedOut \in BOOLEAN

Types == AppTypes /\ ClientTypes /\ NetTypes

\* No room was asked for, and none will be.
Early ==
    \/ pc \in {"boot", "greet", "awaitHello", "lan"}
    \/ pc \in {"disconnect", "join"} /\ after = "lan"
    \/ session = Lan

NothingAsked ==
    Early =>
        /\ No(up, Asking) /\ No(down, Replying)
        /\ events = {} /\ met = {} /\ hubRoom = NoRoom /\ currentRoomId = NoRoom
        /\ pending.joined = NoRoom /\ pending.created = NoRoom
        /\ session \in {NoRoom, Lan}

Offline ==
    /\ pc \in {"boot", "lan"} \/ session = Lan => ~connected /\ ~handle /\ thread = "none"
    /\ pc = "join" => ~connected /\ ~handle
    /\ session = Lan => pc \in {"loop", "disconnect", "join", "exited"}
    /\ session = Lan /\ pc \in {"disconnect", "join"} => after = "exited"
    /\ connected => link # "none"
    /\ thread = "running" /\ pc # "join" => connected

\* create_room is the last request: nothing is asked, and no other room
\* answered, after it.
LastCreated(s, r) ==
    \A i \in 1..Len(s) : s[i].type = "room_created" =>
        r = Own /\ \A j \in 1..Len(s) : s[j].type \in Placing => j <= i

CreateIsLast ==
    /\ \A i \in 1..Len(up) : up[i].type = "create_room" => i = Len(up)
    /\ hubRoom = Own => up = <<>>
    /\ hubRoom = Own \/ ~No(up, {"create_room"}) => ~Early /\ pc \notin {"choose", "awaitJoin"}
    /\ LastCreated(down, hubRoom)
    /\ pending.created # NoRoom => hubRoom = Own /\ currentRoomId = Own /\ No(down, Placing)
    /\ pending.joined # NoRoom /\ pc \in {"choose", "awaitJoin"} => pending.joined = currentRoomId

\* What the coordinator has told, or is about to.
Known ==
    pc \notin {"lan", "exited"} /\ session # Lan =>
        \/ No(down, Placing) /\ currentRoomId = hubRoom
        \/ EndsIn(down, Placing, hubRoom)

Inv == Types /\ NothingAsked /\ Offline /\ CreateIsLast /\ Known
----------------------------------------------------------------------------
(* Queues. *)

LEMMA NoneAppended ==
    ASSUME NEW S, NEW s \in Seq(S), NEW types, NEW m \in S, No(s, types), m.type \notin types
    PROVE  No(Append(s, m), types)
BY AppendProperties, LenProperties DEF No

LEMMA NoneInTail ==
    ASSUME NEW S, NEW s \in Seq(S), s # <<>>, NEW types, No(s, types)
    PROVE  No(Tail(s), types)
BY HeadTailProperties, LenProperties DEF No

LEMMA TailShifts ==
    ASSUME NEW S, NEW s \in Seq(S), s # <<>>
    PROVE  /\ Len(s) \in Nat /\ Len(Tail(s)) = Len(s) - 1 /\ Len(s) > 0 /\ Head(s) = s[1]
           /\ Tail(s) \in Seq(S)
           /\ \A i \in 1..Len(Tail(s)) : i + 1 \in 1..Len(s) /\ Tail(s)[i] = s[i + 1]
           /\ \A i \in 2..Len(s) : i - 1 \in 1..Len(Tail(s)) /\ s[i] = Tail(s)[i - 1]
<1>1. Len(s) \in Nat /\ Len(s) > 0
  BY LenProperties, EmptySeq
<1>2. /\ Len(Tail(s)) = Len(s) - 1 /\ Tail(s) \in Seq(S)
      /\ \A i \in 1..Len(Tail(s)) : Tail(s)[i] = s[i + 1]
  BY HeadTailProperties
<1>3. Head(s) = s[1]
  OBVIOUS
<1>4. \A i \in 2..Len(s) : i - 1 \in 1..Len(Tail(s)) /\ s[i] = Tail(s)[i - 1]
  <2> SUFFICES ASSUME NEW i \in 2..Len(s)
               PROVE  i - 1 \in 1..Len(Tail(s)) /\ s[i] = Tail(s)[i - 1]
    OBVIOUS
  <2>1. i - 1 \in 1..Len(Tail(s)) /\ (i - 1) + 1 = i
    BY <1>1, <1>2
  <2> QED
    BY <1>2, <2>1
<1> QED
  BY <1>1, <1>2, <1>3, <1>4

LEMMA AppendShifts ==
    ASSUME NEW S, NEW s \in Seq(S), NEW m \in S
    PROVE  /\ Len(s) \in Nat /\ Len(Append(s, m)) = Len(s) + 1
           /\ Append(s, m) \in Seq(S) /\ Append(s, m)[Len(s) + 1] = m
           /\ \A i \in 1..Len(s) : Append(s, m)[i] = s[i]
           /\ \A i \in 1..Len(Append(s, m)) : i = Len(s) + 1 \/ i \in 1..Len(s)
<1>1. Len(s) \in Nat /\ Len(Append(s, m)) = Len(s) + 1
  BY LenProperties, AppendProperties
<1> QED
  BY <1>1, AppendProperties

LEMMA OneAppended ==
    ASSUME NEW S, NEW s \in Seq(S), NEW types, NEW m \in S, No(s, types)
    PROVE  OnlyOne(Append(s, m), types, m)
<1>1. \A j \in 1..Len(Append(s, m)) : Append(s, m)[j].type \in types => j = Len(s) + 1
  BY AppendShifts DEF No
<1>2. Len(s) + 1 \in 1..Len(Append(s, m)) /\ Append(s, m)[Len(s) + 1] = m
  BY AppendShifts
<1> QED
  BY <1>1, <1>2 DEF OnlyOne

LEMMA OneStays ==
    ASSUME NEW S, NEW s \in Seq(S), NEW types, NEW m \in S, NEW x \in S,
           OnlyOne(s, types, m), x.type \notin types
    PROVE  OnlyOne(Append(s, x), types, m)
<1>1. PICK i \in 1..Len(s) : s[i] = m /\ \A j \in 1..Len(s) : s[j].type \in types => j = i
  BY DEF OnlyOne
<1>2. i \in 1..Len(Append(s, x)) /\ Append(s, x)[i] = m
  BY <1>1, AppendShifts
<1>3. \A j \in 1..Len(Append(s, x)) : Append(s, x)[j].type \in types => j = i
  BY <1>1, AppendShifts
<1> QED
  BY <1>2, <1>3 DEF OnlyOne

LEMMA OneInTail ==
    ASSUME NEW S, NEW s \in Seq(S), s # <<>>, NEW types, NEW m, OnlyOne(s, types, m)
    PROVE  /\ Head(s).type \in types => Head(s) = m /\ No(Tail(s), types)
           /\ m.type \in types /\ Head(s).type \notin types => OnlyOne(Tail(s), types, m)
<1>1. PICK i \in 1..Len(s) : s[i] = m /\ \A j \in 1..Len(s) : s[j].type \in types => j = i
  BY DEF OnlyOne
<1>2. ASSUME Head(s).type \in types PROVE Head(s) = m /\ No(Tail(s), types)
  <2>1. i = 1
    BY <1>1, <1>2, TailShifts
  <2>2. \A j \in 1..Len(Tail(s)) : Tail(s)[j].type \notin types
    BY <1>1, <2>1, TailShifts
  <2> QED
    BY <1>1, <2>1, <2>2, TailShifts DEF No
<1>3. ASSUME m.type \in types, Head(s).type \notin types PROVE OnlyOne(Tail(s), types, m)
  <2>1. i \in 2..Len(s)
    BY <1>1, <1>3, TailShifts
  <2>2. i - 1 \in 1..Len(Tail(s)) /\ Tail(s)[i - 1] = m
    BY <1>1, <2>1, TailShifts
  <2>3. \A j \in 1..Len(Tail(s)) : Tail(s)[j].type \in types => j = i - 1
    BY <1>1, TailShifts
  <2> QED
    BY <2>2, <2>3 DEF OnlyOne
<1> QED
  BY <1>2, <1>3

LEMMA EndAppended ==
    ASSUME NEW S, NEW s \in Seq(S), NEW types, NEW m \in S
    PROVE  /\ m.type \in types => EndsIn(Append(s, m), types, m.room)
           /\ m.type \notin types => \A r : EndsIn(s, types, r) => EndsIn(Append(s, m), types, r)
<1>1. ASSUME m.type \in types PROVE EndsIn(Append(s, m), types, m.room)
  <2>1. Len(s) + 1 \in 1..Len(Append(s, m)) /\ Append(s, m)[Len(s) + 1] = m
    BY AppendShifts
  <2>2. \A j \in 1..Len(Append(s, m)) : j <= Len(s) + 1
    BY AppendShifts
  <2> QED
    BY <1>1, <2>1, <2>2 DEF EndsIn
<1>2. ASSUME m.type \notin types, NEW r, EndsIn(s, types, r)
      PROVE  EndsIn(Append(s, m), types, r)
  <2>1. PICK i \in 1..Len(s) : /\ s[i].type \in types /\ s[i].room = r
                               /\ \A j \in 1..Len(s) : s[j].type \in types => j <= i
    BY <1>2 DEF EndsIn
  <2>2. i \in 1..Len(Append(s, m)) /\ Append(s, m)[i] = s[i]
    BY AppendShifts
  <2>3. \A j \in 1..Len(Append(s, m)) : Append(s, m)[j].type \in types => j <= i
    BY <1>2, <2>1, AppendShifts
  <2> QED
    BY <2>1, <2>2, <2>3 DEF EndsIn
<1> QED
  BY <1>1, <1>2

LEMMA EndInTail ==
    ASSUME NEW S, NEW s \in Seq(S), s # <<>>, NEW types, NEW r, EndsIn(s, types, r)
    PROVE  \/ EndsIn(Tail(s), types, r)
           \/ Head(s).type \in types /\ Head(s).room = r /\ No(Tail(s), types)
<1>1. PICK i \in 1..Len(s) : /\ s[i].type \in types /\ s[i].room = r
                             /\ \A j \in 1..Len(s) : s[j].type \in types => j <= i
  BY DEF EndsIn
<1>2. CASE i = 1
  <2>1. \A j \in 1..Len(Tail(s)) : Tail(s)[j].type \notin types
    BY <1>1, <1>2, TailShifts
  <2> QED
    BY <1>1, <1>2, <2>1, TailShifts DEF No
<1>3. CASE i \in 2..Len(s)
  <2>1. i - 1 \in 1..Len(Tail(s)) /\ Tail(s)[i - 1] = s[i]
    BY <1>3, TailShifts
  <2>2. \A j \in 1..Len(Tail(s)) : Tail(s)[j].type \in types => j <= i - 1
    BY <1>1, <1>3, TailShifts
  <2> QED
    BY <1>1, <2>1, <2>2 DEF EndsIn
<1> QED
  BY <1>2, <1>3, TailShifts

LEMMA TwoAppended ==
    ASSUME NEW S, NEW s \in Seq(S), NEW a \in S, NEW b \in S
    PROVE  s \o <<a, b>> = Append(Append(s, a), b)
<1> DEFINE t == Append(Append(s, a), b)  u == <<a, b>>
<1>1. u \in Seq(S) /\ Len(u) = 2 /\ u[1] = a /\ u[2] = b
  OBVIOUS
<1>2. Append(s, a) \in Seq(S)
  BY AppendProperties
<1>3. /\ t \in Seq(S) /\ Len(t) = Len(s) + 2 /\ t[Len(s) + 1] = a /\ t[Len(s) + 2] = b
      /\ \A i \in 1..Len(s) : t[i] = s[i]
      /\ Len(s) \in Nat
  <2>1. /\ Len(s) \in Nat /\ Len(Append(s, a)) = Len(s) + 1 /\ Append(s, a)[Len(s) + 1] = a
        /\ \A i \in 1..Len(s) : Append(s, a)[i] = s[i]
    BY AppendShifts
  <2>2. /\ Len(t) = Len(Append(s, a)) + 1 /\ t \in Seq(S) /\ t[Len(Append(s, a)) + 1] = b
        /\ \A i \in 1..Len(Append(s, a)) : t[i] = Append(s, a)[i]
    BY <1>2, AppendShifts
  <2> QED
    BY <2>1, <2>2
<1> HIDE DEF u, t
<1>4. /\ s \o u \in Seq(S) /\ Len(s \o u) = Len(s) + Len(u)
      /\ \A i \in 1..(Len(s) + Len(u)) : (s \o u)[i] = IF i <= Len(s) THEN s[i] ELSE u[i - Len(s)]
  BY <1>1, ConcatProperties
<1>5. \A i \in 1..Len(t) : (s \o u)[i] = t[i]
  <2> SUFFICES ASSUME NEW i \in 1..Len(t) PROVE (s \o u)[i] = t[i]
    OBVIOUS
  <2>1. CASE i \in 1..Len(s)
    BY <1>1, <1>3, <1>4, <2>1
  <2>2. CASE i = Len(s) + 1
    BY <1>1, <1>3, <1>4, <2>2
  <2>3. CASE i = Len(s) + 2
    BY <1>1, <1>3, <1>4, <2>3
  <2>4. Len(t) = Len(s) + 2 /\ Len(s) \in Nat
    BY <1>3
  <2>5. i \in 1..Len(s) \/ i = Len(s) + 1 \/ i = Len(s) + 2
    BY <2>4
  <2> QED
    BY <2>1, <2>2, <2>3, <2>5
<1>6. s \o u = t
  BY <1>1, <1>3, <1>4, <1>5, SeqEqual
<1> QED
  BY <1>6 DEF t, u

LEMMA FineAnswersAreAnswers == FineAnswers \subseteq Answers
BY DEF FineAnswers, Answers

LEMMA NoSubset ==
    ASSUME NEW s, NEW T, NEW U, T \subseteq U, No(s, U)
    PROVE  No(s, T)
BY DEF No
----------------------------------------------------------------------------
(* Steps. *)

LEMMA InitInv == Init => Inv
<1> SUFFICES ASSUME Init PROVE Inv
  OBVIOUS
<1>1. Types
  <2>1. up \in Seq(Requests) /\ down \in Seq(FineAnswers)
    BY DEF Init
  <2>2. pending \in [joined : Rooms \cup {NoRoom}, created : {Own, NoRoom}, error : BOOLEAN]
    BY DEF Init, NothingPending
  <2>3. open \subseteq Rooms
    BY DEF Init
  <2>4. AppTypes
    BY DEF AppTypes, Waiting, Init
  <2>5. ClientTypes
    BY <2>2 DEF ClientTypes, Init
  <2>6. NetTypes
    <3>1. link = "none" /\ hubRoom = NoRoom /\ lists = 0 /\ timedOut = FALSE
      BY DEF Init
    <3>2. lists \in 0..MaxLists
      BY <3>1
    <3> QED
      BY <2>1, <2>3, <3>1, <3>2 DEF NetTypes
  <2> QED
    BY <2>4, <2>5, <2>6 DEF Types
<1>2. NothingAsked /\ Offline /\ CreateIsLast
  BY DEF NothingAsked, Offline, CreateIsLast, LastCreated, Init, No, NothingPending
<1>3. Known
  BY DEF Known, Init, No
<1> QED
  BY <1>1, <1>2, <1>3 DEF Inv

\* Where the main thread goes without a message or a room: what the coordinator
\* and the client know of each other stays.
LEMMA SameKnowledge ==
    ASSUME Inv, UNCHANGED <<up, down, hubRoom, currentRoomId, pending, events, met, session>>,
           Early' <=> Early, pc \notin {"lan", "exited"} \/ pc' \in {"lan", "exited"} \/ session = Lan,
           pc' \in {"choose", "awaitJoin"} => pc \in {"choose", "awaitJoin"} \/ Early
    PROVE  NothingAsked' /\ CreateIsLast' /\ Known'
<1>1. NothingAsked'
  BY DEF Inv, NothingAsked
<1>2. CreateIsLast'
  BY DEF Inv, CreateIsLast, NothingAsked
<1>3. Known'
  BY DEF Inv, Known
<1> QED
  BY <1>1, <1>2, <1>3

LEMMA ConnectKeeps == Inv /\ Connect => Inv'
<1> SUFFICES ASSUME Inv, Connect PROVE Inv'
  OBVIOUS
<1>1. /\ pc = "boot" /\ pc' \in {"lan", "greet"}
      /\ UNCHANGED <<after, candidates, asked, session, met, stopRequested, received, rooms,
                     pending, currentRoomId, events, up, down, hubRoom, open, lists, timedOut>>
  BY DEF Connect, lockedVars, hubVars
<1>2. \/ pc' = "lan" /\ UNCHANGED <<connected, handle, thread, link>>
      \/ pc' = "greet" /\ connected' = TRUE /\ handle' = TRUE /\ thread' = "running" /\ link' = "open"
  BY DEF Connect
<1>3. Types'
  <2>1. AppTypes'
    BY <1>1, <1>2 DEF Inv, Types, AppTypes, Waiting
  <2>2. ClientTypes'
    BY <1>1, <1>2 DEF Inv, Types, ClientTypes
  <2>3. NetTypes'
    BY <1>1, <1>2 DEF Inv, Types, NetTypes
  <2> QED
    BY <2>1, <2>2, <2>3 DEF Types
<1>4. Offline'
  BY <1>1, <1>2 DEF Inv, Offline
<1>5. NothingAsked' /\ CreateIsLast' /\ Known'
  <2>1. Early /\ Early'
    BY <1>1 DEF Early
  <2>2. NothingAsked' /\ CreateIsLast'
    BY <1>1, <2>1 DEF Inv, NothingAsked, CreateIsLast
  <2>3. Known'
    BY <1>1 DEF Inv, Known
  <2> QED
    BY <2>2, <2>3
<1> QED
  BY <1>3, <1>4, <1>5 DEF Inv

LEMMA GreetKeeps == Inv /\ Greet => Inv'
<1> SUFFICES ASSUME Inv, Greet PROVE Inv'
  OBVIOUS
<1> DEFINE m == [type |-> "hello"]
<1>1. /\ pc = "greet"
      /\ UNCHANGED <<candidates, asked, session, met, connected, handle, stopRequested, thread,
                     received, rooms, pending, currentRoomId, events, link, down, hubRoom, open,
                     lists, timedOut>>
  BY DEF Greet, clientVars, lockedVars, hubVars
<1>2. \/ pc' = "awaitHello" /\ after' = after /\ up' \in {up, Append(up, m)}
      \/ pc' = "disconnect" /\ after' = "lan" /\ up' = up
  BY DEF Greet, SendText, SendFails, Disconnecting
<1>3. m \in Requests /\ m.type \notin Asking /\ up \in Seq(Requests)
  BY DEF Requests, Asking, Inv, Types, AppTypes, ClientTypes, NetTypes
<1>4. Early /\ Early' /\ No(up, Asking)
  BY <1>1, <1>2 DEF Early, Inv, NothingAsked
<1> HIDE DEF m
<1>5. up' \in Seq(Requests) /\ No(up', Asking)
  <2>1. Append(up, m) \in Seq(Requests) /\ No(Append(up, m), Asking)
    BY <1>3, <1>4, NoneAppended, AppendShifts
  <2> QED
    BY <1>2, <1>3, <1>4, <2>1
<1>6. Types'
  BY <1>1, <1>2, <1>5 DEF Inv, Types, AppTypes, ClientTypes, NetTypes, Waiting
<1>7. Offline'
  BY <1>1, <1>2 DEF Inv, Offline
<1>8. NothingAsked'
  BY <1>1, <1>4, <1>5 DEF Inv, NothingAsked
<1>9. CreateIsLast'
  <2>1. No(up', {"create_room"}) /\ \A i \in 1..Len(up') : up'[i].type # "create_room"
    BY <1>5 DEF No, Asking
  <2>2. hubRoom' = NoRoom /\ NoRoom # Own /\ pending'.created = NoRoom /\ pending'.joined = NoRoom
    BY <1>1, <1>4 DEF Inv, NothingAsked
  <2> QED
    BY <1>1, <1>2, <2>1, <2>2 DEF Inv, CreateIsLast
<1>10. Known'
  BY <1>1, <1>2 DEF Inv, Known
<1> QED
  BY <1>6, <1>7, <1>8, <1>9, <1>10 DEF Inv

LEMMA AwaitHelloKeeps == Inv /\ AwaitHello => Inv'
<1> SUFFICES ASSUME Inv, AwaitHello PROVE Inv'
  OBVIOUS
<1>1. /\ pc = "awaitHello"
      /\ UNCHANGED <<asked, session, met, connected, handle, stopRequested, thread, received, rooms,
                     pending, currentRoomId, events, link, up, down, hubRoom, open, lists, timedOut>>
  BY DEF AwaitHello, clientVars, netVars, lockedVars, hubVars
<1>2. \/ pc' = "choose" /\ candidates' = rooms /\ after' = after
      \/ pc' = "disconnect" /\ after' = "lan" /\ candidates' = candidates
  BY DEF AwaitHello, Disconnecting
<1>3. Types'
  <2>1. AppTypes'
    BY <1>1, <1>2 DEF Inv, Types, AppTypes, ClientTypes, Waiting
  <2>2. ClientTypes'
    BY <1>1, <1>2 DEF Inv, Types, ClientTypes
  <2>3. NetTypes'
    BY <1>1, <1>2 DEF Inv, Types, NetTypes
  <2> QED
    BY <2>1, <2>2, <2>3 DEF Types
<1>4. Offline'
  BY <1>1, <1>2 DEF Inv, Offline
<1>5. Early /\ session # Lan /\ session = NoRoom
  BY <1>1 DEF Early, Inv, Offline, NothingAsked
<1>6. NothingAsked'
  BY <1>1, <1>2, <1>5 DEF Inv, NothingAsked
<1>7. CreateIsLast'
  BY <1>1, <1>2, <1>5 DEF Inv, CreateIsLast, NothingAsked
<1>8. Known'
  BY <1>1, <1>2 DEF Inv, Known
<1> QED
  BY <1>3, <1>4, <1>6, <1>7, <1>8 DEF Inv

LEMMA DisconnectKeeps == Inv /\ (CloseHandles \/ JoinReceiver) => Inv'
<1> SUFFICES ASSUME Inv, CloseHandles \/ JoinReceiver PROVE Inv'
  OBVIOUS
<1>1. CASE CloseHandles
  <2>1. /\ pc = "disconnect" /\ pc' = "join" /\ connected' = FALSE /\ handle' = FALSE
        /\ stopRequested' = TRUE
        /\ UNCHANGED <<after, candidates, asked, session, met, thread, received, rooms, pending,
                       currentRoomId, events, link, up, down, hubRoom, open, lists, timedOut>>
    BY <1>1 DEF CloseHandles, lockedVars, netVars, hubVars
  <2>2. Types'
    <3>1. AppTypes'
      BY <2>1 DEF Inv, Types, AppTypes, Waiting
    <3>2. ClientTypes'
      BY <2>1 DEF Inv, Types, ClientTypes
    <3>3. NetTypes'
      BY <2>1 DEF Inv, Types, NetTypes
    <3> QED
      BY <3>1, <3>2, <3>3 DEF Types
  <2>3. Offline'
    BY <2>1 DEF Inv, Offline
  <2>4. Early' <=> Early
    BY <2>1 DEF Early
  <2> QED
    BY <2>1, <2>2, <2>3, <2>4, SameKnowledge DEF Inv
<1>2. CASE JoinReceiver
  <2>1. /\ pc = "join" /\ pc' = after /\ thread' = "none"
        /\ received' = {} /\ pending' = NothingPending /\ currentRoomId' = NoRoom
        /\ UNCHANGED <<after, candidates, asked, session, met, connected, handle, stopRequested,
                       rooms, events, link, up, down, hubRoom, open, lists, timedOut>>
    BY <1>2 DEF JoinReceiver, netVars, hubVars
  <2>2. pc' \in {"lan", "exited"} /\ pending'.joined = NoRoom /\ pending'.created = NoRoom
    BY <2>1 DEF Inv, Types, AppTypes, ClientTypes, NetTypes, NothingPending
  <2>3. Types'
    <3>1. NothingPending \in [joined : Rooms \cup {NoRoom}, created : {Own, NoRoom}, error : BOOLEAN]
      BY DEF NothingPending
    <3> QED
      BY <2>1, <2>2, <3>1 DEF Inv, Types, AppTypes, ClientTypes, NetTypes
  <2>4. Offline'
    BY <2>1, <2>2 DEF Inv, Offline
  <2>5. Early' <=> Early
    BY <2>1, <2>2 DEF Early
  <2>6. NothingAsked'
    BY <2>1, <2>2, <2>5 DEF Inv, NothingAsked
  <2>7. CreateIsLast'
    BY <2>1, <2>2, <2>5 DEF Inv, CreateIsLast
  <2>8. Known'
    BY <2>2 DEF Known
  <2> QED
    BY <2>3, <2>4, <2>6, <2>7, <2>8 DEF Inv
<1> QED
  BY <1>1, <1>2

LEMMA UseLanKeeps == Inv /\ UseLan => Inv'
<1> SUFFICES ASSUME Inv, UseLan PROVE Inv'
  OBVIOUS
<1>1. /\ pc = "lan" /\ pc' = "loop" /\ session' = Lan
      /\ UNCHANGED <<after, candidates, asked, met, connected, handle, stopRequested, thread,
                     received, rooms, pending, currentRoomId, events, link, up, down, hubRoom,
                     open, lists, timedOut>>
  BY DEF UseLan, clientVars, netVars, lockedVars, hubVars
<1>2. Types'
  <2>1. AppTypes'
    BY <1>1 DEF Inv, Types, AppTypes, Waiting
  <2>2. ClientTypes'
    BY <1>1 DEF Inv, Types, ClientTypes
  <2>3. NetTypes'
    BY <1>1 DEF Inv, Types, NetTypes
  <2> QED
    BY <2>1, <2>2, <2>3 DEF Types
<1>3. Offline'
  BY <1>1 DEF Inv, Offline
<1>4. Early /\ Early'
  BY <1>1 DEF Early
<1>5. NothingAsked'
  BY <1>1, <1>4 DEF Inv, NothingAsked
<1>6. CreateIsLast'
  BY <1>1, <1>4 DEF Inv, CreateIsLast
<1>7. Known'
  BY <1>1 DEF Known
<1> QED
  BY <1>2, <1>3, <1>5, <1>6, <1>7 DEF Inv

LEMMA LoopKeeps == Inv /\ (Pump \/ Exit) => Inv'
<1> SUFFICES ASSUME Inv, Pump \/ Exit PROVE Inv'
  OBVIOUS
<1>1. CASE Pump
  <2>1. /\ pc = "loop" /\ events # {} /\ met' = met \cup events /\ events' = {}
        /\ UNCHANGED <<pc, after, candidates, asked, session, connected, handle, stopRequested,
                       thread, received, rooms, pending, currentRoomId, link, up, down, hubRoom,
                       open, lists, timedOut>>
    BY <1>1 DEF Pump, netVars, hubVars
  <2>2. ~Early /\ ~Early'
    BY <2>1 DEF Early, Inv, NothingAsked
  <2>3. Types'
    <3>1. AppTypes'
      BY <2>1 DEF Inv, Types, AppTypes, ClientTypes, Waiting
    <3>2. ClientTypes'
      BY <2>1 DEF Inv, Types, ClientTypes
    <3>3. NetTypes'
      BY <2>1 DEF Inv, Types, NetTypes
    <3> QED
      BY <3>1, <3>2, <3>3 DEF Types
  <2>4. Offline' /\ NothingAsked' /\ Known'
    BY <2>1, <2>2 DEF Inv, Offline, NothingAsked, Known
  <2>5. CreateIsLast'
    BY <2>1, <2>2 DEF Inv, CreateIsLast
  <2> QED
    BY <2>3, <2>4, <2>5 DEF Inv
<1>2. CASE Exit
  <2>1. /\ pc = "loop" /\ pc' = "disconnect" /\ after' = "exited"
        /\ UNCHANGED <<candidates, asked, session, met, connected, handle, stopRequested, thread,
                       received, rooms, pending, currentRoomId, events, link, up, down, hubRoom,
                       open, lists, timedOut>>
    BY <1>2 DEF Exit, Disconnecting, clientVars, netVars, lockedVars, hubVars
  <2>2. Types'
    <3>1. AppTypes'
      BY <2>1 DEF Inv, Types, AppTypes, Waiting
    <3>2. ClientTypes'
      BY <2>1 DEF Inv, Types, ClientTypes
    <3>3. NetTypes'
      BY <2>1 DEF Inv, Types, NetTypes
    <3> QED
      BY <3>1, <3>2, <3>3 DEF Types
  <2>3. Offline'
    BY <2>1 DEF Inv, Offline
  <2>4. Early' <=> Early
    BY <2>1 DEF Early
  <2> QED
    BY <2>1, <2>2, <2>3, <2>4, SameKnowledge DEF Inv
<1> QED
  BY <1>1, <1>2

\* A request for a room is sent, or is not.
LEMMA JoinRoomKeeps ==
    ASSUME Inv, NEW r \in Rooms, JoinRoom(r)
    PROVE  Inv'
<1> DEFINE m == [type |-> "join_room", room |-> r]
<1>1. /\ pc = "choose"
      /\ candidates' = candidates \ {r}
      /\ UNCHANGED <<after, session, met, connected, handle, stopRequested, thread, received,
                     rooms, currentRoomId, events, link, down, hubRoom, open, lists, timedOut>>
  BY DEF JoinRoom, hubVars
<1>2. \/ /\ up' \in {up, Append(up, m)} /\ pc' = "awaitJoin" /\ asked' = r
         /\ pending' = [pending EXCEPT !.joined = NoRoom, !.error = FALSE]
      \/ UNCHANGED <<up, pc, asked, pending>>
  BY DEF JoinRoom, SendText, SendFails
<1>3. m \in Requests /\ m.type = "join_room" /\ up \in Seq(Requests)
  BY DEF Requests, Inv, Types, NetTypes
<1>4. ~Early /\ ~Early'
  <2>1. session # Lan
    BY <1>1 DEF Inv, Offline
  <2> QED
    BY <1>1, <1>2, <2>1 DEF Early
<1> HIDE DEF m
<1>5. hubRoom # Own /\ No(up, {"create_room"})
  BY <1>1 DEF Inv, CreateIsLast
<1>6. up' \in Seq(Requests) /\ No(up', {"create_room"})
  <2>1. Append(up, m) \in Seq(Requests) /\ No(Append(up, m), {"create_room"})
    BY <1>3, <1>5, NoneAppended, AppendShifts
  <2> QED
    BY <1>2, <1>3, <1>5, <2>1
<1>7. pending' \in [joined : Rooms \cup {NoRoom}, created : {Own, NoRoom}, error : BOOLEAN]
      /\ pending'.created = pending.created /\ pending'.joined \in {NoRoom, pending.joined}
  BY <1>2 DEF Inv, Types, ClientTypes
<1>8. Types'
  <2>1. AppTypes'
    BY <1>1, <1>2 DEF Inv, Types, AppTypes, Waiting
  <2>2. ClientTypes'
    BY <1>1, <1>7 DEF Inv, Types, ClientTypes
  <2>3. NetTypes'
    BY <1>1, <1>6 DEF Inv, Types, NetTypes
  <2> QED
    BY <2>1, <2>2, <2>3 DEF Types
<1>9. Offline'
  BY <1>1, <1>2 DEF Inv, Offline
<1>10. NothingAsked'
  BY <1>4 DEF NothingAsked
<1>11. CreateIsLast'
  <2>1. \A i \in 1..Len(up') : up'[i].type # "create_room"
    BY <1>6 DEF No
  <2>2. pending'.joined # NoRoom => pending'.joined = currentRoomId'
    BY <1>1, <1>7 DEF Inv, CreateIsLast
  <2> QED
    BY <1>1, <1>5, <1>6, <1>7, <2>1, <2>2 DEF Inv, CreateIsLast
<1>12. Known'
  BY <1>1, <1>2 DEF Inv, Known
<1> QED
  BY <1>8, <1>9, <1>10, <1>11, <1>12 DEF Inv

LEMMA CreateRoomKeeps == Inv /\ CreateRoom => Inv'
<1> SUFFICES ASSUME Inv, CreateRoom PROVE Inv'
  OBVIOUS
<1> DEFINE m == [type |-> "create_room"]
<1>1. /\ pc = "choose"
      /\ UNCHANGED <<after, candidates, asked, session, met, connected, handle, stopRequested,
                     thread, received, rooms, currentRoomId, events, link, down, hubRoom, open,
                     lists, timedOut>>
  BY DEF CreateRoom, hubVars
<1>2. \/ /\ up' \in {up, Append(up, m)} /\ pc' = "awaitCreate"
         /\ pending' = [pending EXCEPT !.created = NoRoom, !.error = FALSE]
      \/ pc' = "aborted" /\ UNCHANGED <<up, pending>>
  BY DEF CreateRoom, SendText, SendFails
<1>3. m \in Requests /\ m.type = "create_room" /\ up \in Seq(Requests)
  BY DEF Requests, Inv, Types, NetTypes
<1>4. ~Early /\ ~Early'
  <2>1. session # Lan
    BY <1>1 DEF Inv, Offline
  <2> QED
    BY <1>1, <1>2, <2>1 DEF Early
<1> HIDE DEF m
<1>5. hubRoom # Own /\ No(up, {"create_room"})
  BY <1>1 DEF Inv, CreateIsLast
<1>6. up' \in Seq(Requests)
  BY <1>2, <1>3, AppendShifts
<1>7. \A i \in 1..Len(up') : up'[i].type = "create_room" => i = Len(up')
  <2>1. \A i \in 1..Len(up) : up[i].type # "create_room"
    BY <1>5 DEF No
  <2>2. \A i \in 1..Len(Append(up, m)) : Append(up, m)[i].type = "create_room" => i = Len(Append(up, m))
    BY <1>3, <2>1, AppendShifts
  <2> QED
    BY <1>2, <2>1, <2>2
<1>8. pending' \in [joined : Rooms \cup {NoRoom}, created : {Own, NoRoom}, error : BOOLEAN]
      /\ pending'.created \in {NoRoom, pending.created}
  BY <1>2 DEF Inv, Types, ClientTypes
<1>9. Types'
  <2>1. AppTypes'
    BY <1>1, <1>2 DEF Inv, Types, AppTypes, Waiting
  <2>2. ClientTypes'
    BY <1>1, <1>8 DEF Inv, Types, ClientTypes
  <2>3. NetTypes'
    BY <1>1, <1>6 DEF Inv, Types, NetTypes
  <2> QED
    BY <2>1, <2>2, <2>3 DEF Types
<1>10. Offline'
  BY <1>1, <1>2 DEF Inv, Offline
<1>11. NothingAsked'
  BY <1>4 DEF NothingAsked
<1>12. CreateIsLast'
  BY <1>1, <1>2, <1>4, <1>5, <1>7, <1>8 DEF Inv, CreateIsLast
<1>13. Known'
  BY <1>1, <1>2 DEF Inv, Known
<1> QED
  BY <1>9, <1>10, <1>11, <1>12, <1>13 DEF Inv

\* A wait for a room ends.
LEMMA AwaitKeeps == Inv /\ (AwaitJoin \/ AwaitCreate) => Inv'
<1> SUFFICES ASSUME Inv, AwaitJoin \/ AwaitCreate PROVE Inv'
  OBVIOUS
<1>1. /\ UNCHANGED <<after, candidates, asked, met, connected, handle, stopRequested, thread,
                     received, rooms, events, link, up, down, hubRoom, open, lists>>
      /\ timedOut' \in BOOLEAN
  BY DEF AwaitJoin, AwaitCreate, JoinEnds, WaitEnds, netVars, hubVars, Inv, Types, ClientTypes,
         NetTypes
<1>2. \/ /\ pc = "awaitJoin" /\ pc' = "loop" /\ session' = asked
         /\ pending.joined # NoRoom /\ currentRoomId' = pending.joined
         /\ pending' = [pending EXCEPT !.joined = NoRoom]
      \/ /\ pc = "awaitJoin" /\ pc' = "choose" /\ pending.joined = NoRoom
         /\ UNCHANGED <<session, currentRoomId, pending>>
      \/ /\ pc = "awaitCreate" /\ pc' = "loop" /\ session' = pending.created
         /\ pending.created # NoRoom /\ currentRoomId' = pending.created
         /\ pending' = [pending EXCEPT !.created = NoRoom]
      \/ /\ pc = "awaitCreate" /\ pc' = "aborted"
         /\ UNCHANGED <<session, currentRoomId, pending>>
  BY DEF AwaitJoin, AwaitCreate, JoinEnds
<1>3. session # Lan /\ session' # Lan /\ session' \in Rooms \cup {Own, Lan, NoRoom}
  <2>1. session # Lan
    BY <1>2 DEF Inv, Offline
  <2>2. asked \in Rooms \cup {NoRoom} /\ pending.created \in {Own, NoRoom}
        /\ session \in Rooms \cup {Own, Lan, NoRoom}
    BY DEF Inv, Types, AppTypes, ClientTypes
  <2> QED
    BY <1>2, <2>1, <2>2
<1>4. ~Early /\ ~Early'
  BY <1>2, <1>3 DEF Early
<1>5. currentRoomId' = currentRoomId
  BY <1>2 DEF Inv, CreateIsLast, Types, ClientTypes
<1>6. /\ pending' \in [joined : Rooms \cup {NoRoom}, created : {Own, NoRoom}, error : BOOLEAN]
      /\ pending'.created \in {NoRoom, pending.created}
      /\ pc' \in {"choose", "awaitJoin"} => pending'.joined = NoRoom /\ pc = "awaitJoin"
  BY <1>2 DEF Inv, Types, ClientTypes
<1>7. Types'
  <2>1. AppTypes'
    BY <1>1, <1>2, <1>3 DEF Inv, Types, AppTypes, Waiting
  <2>2. ClientTypes'
    BY <1>1, <1>5, <1>6 DEF Inv, Types, ClientTypes
  <2>3. NetTypes'
    BY <1>1 DEF Inv, Types, NetTypes
  <2> QED
    BY <2>1, <2>2, <2>3 DEF Types
<1>8. Offline'
  BY <1>1, <1>2, <1>3 DEF Inv, Offline
<1>9. NothingAsked'
  BY <1>4 DEF NothingAsked
<1>10. CreateIsLast'
  BY <1>1, <1>2, <1>4, <1>5, <1>6 DEF Inv, CreateIsLast
<1>11. Known'
  BY <1>1, <1>2, <1>3, <1>5 DEF Inv, Known
<1> QED
  BY <1>7, <1>8, <1>9, <1>10, <1>11 DEF Inv

\* The receiver reads a message.
LEMMA ReceiveKeeps == Inv /\ Receive => Inv'
<1> SUFFICES ASSUME Inv, Receive PROVE Inv'
  OBVIOUS
<1> DEFINE m == Head(down)
<1>1. /\ thread = "running" /\ handle /\ down # <<>> /\ down' = Tail(down)
      /\ UNCHANGED <<pc, after, candidates, asked, session, met, connected, handle, stopRequested,
                     thread, link, up, hubRoom, open, lists, timedOut>>
  BY DEF Receive, appVars, hubVars
<1>2. /\ received' = received \cup ({m.type} \cap {"hello", "rooms"})
      /\ rooms' = IF m.type = "rooms" THEN m.rooms ELSE rooms
      /\ pending' = CASE m.type = "joined_room" -> [pending EXCEPT !.joined = m.room]
                      [] m.type = "room_created" -> [pending EXCEPT !.created = m.room]
                      [] m.type = "error" -> [pending EXCEPT !.error = TRUE]
                      [] OTHER -> pending
      /\ currentRoomId' = IF m.type \in Placing THEN m.room ELSE currentRoomId
      /\ events' = IF m.type = "joined_room" THEN events \cup {m.room} ELSE events
  BY DEF Receive, HandleServerMessage, Placing
<1>3. down \in Seq(FineAnswers)
  BY DEF Inv, Types, NetTypes
<1>4. m \in FineAnswers /\ m = down[1] /\ 1 \in 1..Len(down) /\ Tail(down) \in Seq(FineAnswers)
  BY <1>1, <1>3, TailShifts, HeadTailProperties
<1> HIDE DEF m
<1>5. \/ m.type = "hello" \/ m.type = "error"
      \/ m.type = "rooms" /\ m.rooms \subseteq Rooms
      \/ m.type = "joined_room" /\ m.room \in Rooms
      \/ m.type = "room_created" /\ m.room = Own
  BY <1>4 DEF FineAnswers
<1>6. /\ m.type = "joined_room" => pending' = [pending EXCEPT !.joined = m.room]
      /\ m.type = "room_created" => pending' = [pending EXCEPT !.created = m.room]
      /\ m.type = "error" => pending' = [pending EXCEPT !.error = TRUE]
      /\ m.type \in {"hello", "rooms"} => pending' = pending
  BY <1>2
<1>7. pending' \in [joined : Rooms \cup {NoRoom}, created : {Own, NoRoom}, error : BOOLEAN]
  BY <1>5, <1>6 DEF Inv, Types, ClientTypes
<1>8. /\ m.type # "joined_room" => pending'.joined = pending.joined
      /\ m.type = "joined_room" => pending'.joined = m.room
      /\ m.type # "room_created" => pending'.created = pending.created
      /\ m.type = "room_created" => pending'.created = m.room
  BY <1>5, <1>6 DEF Inv, Types, ClientTypes
<1>9. Types'
  <2>1. AppTypes'
    BY <1>1 DEF Inv, Types, AppTypes, Waiting
  <2>2. ClientTypes'
    BY <1>1, <1>2, <1>5, <1>7 DEF Inv, Types, ClientTypes, Placing
  <2>3. NetTypes'
    BY <1>1, <1>4 DEF Inv, Types, NetTypes
  <2> QED
    BY <2>1, <2>2, <2>3 DEF Types
<1>10. Offline'
  BY <1>1 DEF Inv, Offline
<1>11. Early' <=> Early
  BY <1>1 DEF Early
<1>12. NothingAsked'
  <2> SUFFICES ASSUME Early PROVE NothingAsked'
    BY <1>11 DEF NothingAsked
  <2>1. No(down, Replying) /\ No(Tail(down), Replying)
    BY <1>1, <1>3, NoneInTail DEF Inv, NothingAsked
  <2>2. m.type \notin Replying
    BY <1>4, <2>1 DEF No
  <2> QED
    BY <1>1, <1>2, <1>8, <2>1, <2>2 DEF Inv, NothingAsked, Replying, Placing
<1>13. /\ No(down, Placing) => No(Tail(down), Placing) /\ m.type \notin Placing
       /\ \A r : EndsIn(down, Placing, r) =>
              EndsIn(Tail(down), Placing, r) \/ (m.type \in Placing /\ m.room = r /\ No(Tail(down), Placing))
  <2>1. No(down, Placing) => No(Tail(down), Placing)
    BY <1>1, <1>3, NoneInTail
  <2>2. No(down, Placing) => m.type \notin Placing
    BY <1>4 DEF No
  <2>3. \A r : EndsIn(down, Placing, r) =>
              EndsIn(Tail(down), Placing, r) \/ (m.type \in Placing /\ m.room = r /\ No(Tail(down), Placing))
    BY <1>1, <1>3, EndInTail DEF m
  <2> QED
    BY <2>1, <2>2, <2>3
<1>14. m.type = "room_created" => hubRoom = Own /\ No(Tail(down), Placing)
  <2> SUFFICES ASSUME m.type = "room_created" PROVE hubRoom = Own /\ No(Tail(down), Placing)
    OBVIOUS
  <2>1. hubRoom = Own /\ \A j \in 1..Len(down) : down[j].type \in Placing => j <= 1
    BY <1>4 DEF Inv, CreateIsLast, LastCreated
  <2>2. \A i \in 1..Len(Tail(down)) : i + 1 \in 1..Len(down) /\ Tail(down)[i] = down[i + 1]
    BY <1>1, <1>3, TailShifts
  <2> QED
    BY <2>1, <2>2 DEF No
<1>15. CreateIsLast'
  <2>1. LastCreated(down', hubRoom)
    <3>1. \A i \in 1..Len(Tail(down)) : i + 1 \in 1..Len(down) /\ Tail(down)[i] = down[i + 1]
      BY <1>1, <1>3, TailShifts
    <3> SUFFICES ASSUME NEW i \in 1..Len(Tail(down)), Tail(down)[i].type = "room_created"
                 PROVE  /\ hubRoom = Own
                        /\ \A j \in 1..Len(Tail(down)) : Tail(down)[j].type \in Placing => j <= i
      BY <1>1 DEF LastCreated
    <3>2. hubRoom = Own /\ \A j \in 1..Len(down) : down[j].type \in Placing => j <= i + 1
      BY <3>1 DEF Inv, CreateIsLast, LastCreated
    <3> QED
      BY <3>1, <3>2
  <2>2. pending'.created # NoRoom => hubRoom = Own /\ currentRoomId' = Own /\ No(down', Placing)
    BY <1>1, <1>2, <1>5, <1>8, <1>13, <1>14 DEF Inv, CreateIsLast, Placing
  <2>3. pending'.joined # NoRoom /\ pc \in {"choose", "awaitJoin"} => pending'.joined = currentRoomId'
    BY <1>2, <1>5, <1>8, <1>14 DEF Inv, CreateIsLast, Placing
  <2> QED
    BY <1>1, <1>11, <2>1, <2>2, <2>3 DEF Inv, CreateIsLast
<1>16. Known'
  BY <1>1, <1>2, <1>13 DEF Inv, Known
<1> QED
  BY <1>9, <1>10, <1>12, <1>15, <1>16 DEF Inv

LEMMA EndReceiverKeeps == Inv /\ EndReceiver => Inv'
<1> SUFFICES ASSUME Inv, EndReceiver PROVE Inv'
  OBVIOUS
<1>1. /\ thread = "running" /\ thread' = "ended" /\ connected' = FALSE
      /\ UNCHANGED <<pc, after, candidates, asked, session, met, handle, stopRequested, received,
                     rooms, pending, currentRoomId, events, link, up, down, hubRoom, open, lists,
                     timedOut>>
  BY DEF EndReceiver, appVars, lockedVars, netVars, hubVars
<1>2. Types'
  <2>1. AppTypes'
    BY <1>1 DEF Inv, Types, AppTypes
  <2>2. ClientTypes'
    BY <1>1 DEF Inv, Types, ClientTypes
  <2>3. NetTypes'
    BY <1>1 DEF Inv, Types, NetTypes
  <2> QED
    BY <2>1, <2>2, <2>3 DEF Types
<1>3. Offline'
  BY <1>1 DEF Inv, Offline
<1>4. Early' <=> Early
  BY <1>1 DEF Early
<1> QED
  BY <1>1, <1>2, <1>3, <1>4, SameKnowledge DEF Inv

LEMMA BreakKeeps == Inv /\ Break => Inv'
<1> SUFFICES ASSUME Inv, Break PROVE Inv'
  OBVIOUS
<1>1. /\ link = "open" /\ link' = "broken"
      /\ UNCHANGED <<pc, after, candidates, asked, session, met, connected, handle, stopRequested,
                     thread, received, rooms, pending, currentRoomId, events, up, down, hubRoom,
                     open, lists, timedOut>>
  BY DEF Break, appVars, clientVars, lockedVars, hubVars
<1>2. Types'
  <2>1. AppTypes'
    BY <1>1 DEF Inv, Types, AppTypes
  <2>2. ClientTypes'
    BY <1>1 DEF Inv, Types, ClientTypes
  <2>3. NetTypes'
    BY <1>1 DEF Inv, Types, NetTypes
  <2> QED
    BY <2>1, <2>2, <2>3 DEF Types
<1>3. Offline'
  BY <1>1 DEF Inv, Offline
<1>4. Early' <=> Early
  BY <1>1 DEF Early
<1> QED
  BY <1>1, <1>2, <1>3, <1>4, SameKnowledge DEF Inv

\* A message that is no answer to a request for a room changes nothing of what
\* the coordinator has told.
LEMMA OtherMessage ==
    ASSUME NEW s \in Seq(FineAnswers), NEW m \in FineAnswers, m.type \notin Placing
    PROVE  /\ Append(s, m) \in Seq(FineAnswers)
           /\ No(s, Placing) => No(Append(s, m), Placing)
           /\ \A r : EndsIn(s, Placing, r) => EndsIn(Append(s, m), Placing, r)
           /\ No(s, Replying) /\ m.type # "error" => No(Append(s, m), Replying)
           /\ \A r : LastCreated(s, r) => LastCreated(Append(s, m), r)
<1> DEFINE t == Append(s, m)
<1>1. /\ t \in Seq(FineAnswers) /\ t[Len(s) + 1] = m /\ \A i \in 1..Len(s) : t[i] = s[i]
      /\ \A i \in 1..Len(t) : i = Len(s) + 1 \/ i \in 1..Len(s)
  BY AppendShifts
<1>2. No(s, Placing) => No(t, Placing)
  BY NoneAppended
<1>3. \A r : EndsIn(s, Placing, r) => EndsIn(t, Placing, r)
  BY EndAppended
<1>4. No(s, Replying) /\ m.type # "error" => No(t, Replying)
  BY NoneAppended DEF Replying
<1> HIDE DEF t
<1>5. ASSUME NEW r, LastCreated(s, r) PROVE LastCreated(t, r)
  <2> SUFFICES ASSUME NEW i \in 1..Len(t), t[i].type = "room_created"
               PROVE  r = Own /\ \A j \in 1..Len(t) : t[j].type \in Placing => j <= i
    BY DEF LastCreated
  <2>1. i \in 1..Len(s)
    BY <1>1 DEF Placing
  <2> QED
    BY <1>1, <1>5, <2>1 DEF LastCreated
<1> QED
  BY <1>1, <1>2, <1>3, <1>4, <1>5 DEF t

LEMMA ListIsFine ==
    ASSUME NEW places \in SUBSET Rooms
    PROVE  /\ List(places) \in FineAnswers /\ List(places).type = "rooms"
           /\ List(places).type \notin Placing
BY DEF List, FineAnswers, Placing

LEMMA OthersMoveKeeps ==
    ASSUME Inv, NEW r \in Rooms, OthersMove(r)
    PROVE  Inv'
<1>1. /\ lists < MaxLists /\ lists' = lists + 1
      /\ open' = IF r \in open THEN open \ {r} ELSE open \cup {r}
      /\ UNCHANGED <<pc, after, candidates, asked, session, met, connected, handle, stopRequested,
                     thread, received, rooms, pending, currentRoomId, events, link, up, hubRoom,
                     timedOut>>
  BY DEF OthersMove, appVars, clientVars, lockedVars
<1>2. down' = down \/ down' = Append(down, List(open'))
  BY DEF OthersMove
<1>3. open' \subseteq Rooms /\ down \in Seq(FineAnswers)
  BY <1>1 DEF Inv, Types, NetTypes
<1>4. Early' <=> Early
  BY <1>1 DEF Early
<1>5. /\ down' \in Seq(FineAnswers)
      /\ No(down, Placing) => No(down', Placing)
      /\ \A q : EndsIn(down, Placing, q) => EndsIn(down', Placing, q)
      /\ No(down, Replying) => No(down', Replying)
      /\ \A q : LastCreated(down, q) => LastCreated(down', q)
  <2>1. CASE down' = down
    BY <1>3, <2>1
  <2>2. CASE down' = Append(down, List(open'))
    <3> DEFINE m == List(open')
    <3>1. m \in FineAnswers /\ m.type \notin Placing /\ m.type # "error"
      BY <1>3, ListIsFine
    <3>2. down' = Append(down, m)
      BY <2>2
    <3> HIDE DEF m
    <3> QED
      BY <1>3, <3>1, <3>2, OtherMessage
  <2> QED
    BY <1>2, <2>1, <2>2
<1>6. Types'
  <2>1. AppTypes'
    BY <1>1 DEF Inv, Types, AppTypes
  <2>2. ClientTypes'
    BY <1>1 DEF Inv, Types, ClientTypes
  <2>3. lists' \in 0..MaxLists
    BY <1>1 DEF Inv, Types, NetTypes
  <2>4. NetTypes'
    BY <1>1, <1>3, <1>5, <2>3 DEF Inv, Types, NetTypes
  <2> QED
    BY <2>1, <2>2, <2>4 DEF Types
<1>7. Offline'
  BY <1>1 DEF Inv, Offline
<1>8. NothingAsked'
  BY <1>1, <1>4, <1>5 DEF Inv, NothingAsked
<1>9. CreateIsLast'
  BY <1>1, <1>4, <1>5 DEF Inv, CreateIsLast
<1>10. Known'
  BY <1>1, <1>5 DEF Inv, Known
<1> QED
  BY <1>6, <1>7, <1>8, <1>9, <1>10 DEF Inv

\* A queue of requests gets shorter.
LEMMA RequestTaken ==
    ASSUME up \in Seq(Requests), up # <<>>,
           \A i \in 1..Len(up) : up[i].type = "create_room" => i = Len(up)
    PROVE  /\ Head(up) \in Requests /\ Head(up) = up[1] /\ 1 \in 1..Len(up)
           /\ Tail(up) \in Seq(Requests)
           /\ \A i \in 1..Len(Tail(up)) : Tail(up)[i].type = "create_room" => i = Len(Tail(up))
           /\ \A T : No(up, T) => No(Tail(up), T)
           /\ Head(up).type = "create_room" => Tail(up) = <<>>
<1> DEFINE t == Tail(up)  h == Head(up)
<1>1. /\ Len(t) = Len(up) - 1 /\ h = up[1] /\ t \in Seq(Requests)
      /\ \A i \in 1..Len(t) : i + 1 \in 1..Len(up) /\ t[i] = up[i + 1]
      /\ Len(up) \in Nat /\ Len(up) > 0
  BY TailShifts
<1>2. h \in Requests
  BY HeadTailProperties
<1>3. t \in Seq(Requests) /\ Len(t) = 0 => t = <<>>
  BY EmptySeq
<1> HIDE DEF t, h
<1>4. 1 \in 1..Len(up)
  BY <1>1
<1>5. \A i \in 1..Len(t) : t[i].type = "create_room" => i = Len(t)
  <2> SUFFICES ASSUME NEW i \in 1..Len(t), t[i].type = "create_room" PROVE i = Len(t)
    OBVIOUS
  <2>1. i + 1 \in 1..Len(up) /\ up[i + 1].type = "create_room"
    BY <1>1
  <2>2. i + 1 = Len(up)
    BY <2>1
  <2> QED
    BY <1>1, <2>2
<1>6. \A T : No(up, T) => No(t, T)
  BY <1>1 DEF No
<1>7. ASSUME h.type = "create_room" PROVE t = <<>>
  <2>1. Len(up) = 1
    BY <1>1, <1>4, <1>7
  <2> QED
    BY <1>1, <1>3, <2>1
<1> QED
  BY <1>1, <1>2, <1>4, <1>5, <1>6, <1>7 DEF t, h

LEMMA HubHandleKeeps == Inv /\ HubHandle => Inv'
<1> SUFFICES ASSUME Inv, HubHandle PROVE Inv'
  OBVIOUS
<1> DEFINE req == Head(up)  list == List(open)  hello == [type |-> "hello"]
           error == [type |-> "error"]
           Answer(type, r) == [type |-> type, room |-> r]
<1>1. /\ up # <<>> /\ up' = Tail(up)
      /\ UNCHANGED <<pc, after, candidates, asked, session, met, connected, handle, stopRequested,
                     thread, received, rooms, pending, currentRoomId, events, link, open, lists,
                     timedOut>>
  BY DEF HubHandle, appVars, clientVars, lockedVars
<1>2. \/ req.type = "hello" /\ down' = down \o <<hello, list>> /\ hubRoom' = hubRoom
      \/ /\ req.type = "create_room" /\ hubRoom' = Own
         /\ down' = down \o <<Answer("room_created", Own), list>>
      \/ /\ req.type = "join_room" /\ req.room \in open /\ hubRoom' = req.room
         /\ down' = down \o <<Answer("joined_room", req.room), list>>
      \/ req.type = "join_room" /\ down' = Append(down, error) /\ hubRoom' = hubRoom
  BY DEF HubHandle
<1>3. up \in Seq(Requests) /\ down \in Seq(FineAnswers) /\ open \in SUBSET Rooms
  BY DEF Inv, Types, NetTypes
<1>4. \A i \in 1..Len(up) : up[i].type = "create_room" => i = Len(up)
  BY DEF Inv, CreateIsLast
<1>5. /\ req = up[1] /\ 1 \in 1..Len(up) /\ Tail(up) \in Seq(Requests)
      /\ \A i \in 1..Len(Tail(up)) : Tail(up)[i].type = "create_room" => i = Len(Tail(up))
      /\ \A T : No(up, T) => No(Tail(up), T)
      /\ req.type = "create_room" => Tail(up) = <<>>
  BY <1>1, <1>3, <1>4, RequestTaken
<1>6. hello \in FineAnswers /\ error \in FineAnswers /\ hello.type \notin Placing
      /\ error.type \notin Placing /\ hello.type # "error"
  BY DEF FineAnswers, Placing
<1>7. list \in FineAnswers /\ list.type \notin Placing /\ list.type # "error" /\ list.type = "rooms"
  BY <1>3, ListIsFine
<1> HIDE DEF req, list, hello, error
<1>8. ~Early \/ req.type \notin Asking
  BY <1>5 DEF Inv, NothingAsked, No
<1>9. hubRoom # Own
  BY <1>1 DEF Inv, CreateIsLast
<1>10. Early' <=> Early
  BY <1>1 DEF Early
<1>11. AppTypes' /\ ClientTypes'
  <2>1. AppTypes'
    BY <1>1 DEF Inv, Types, AppTypes
  <2>2. ClientTypes'
    BY <1>1 DEF Inv, Types, ClientTypes
  <2> QED
    BY <2>1, <2>2
<1>12. Offline'
  BY <1>1 DEF Inv, Offline
<1>13. \* What follows from the messages alone.
       ASSUME down' \in Seq(FineAnswers), hubRoom' \in Rooms \cup {Own, NoRoom},
              LastCreated(down', hubRoom'), hubRoom' = Own => Tail(up) = <<>> /\ ~No(up, {"create_room"}),
              Early => hubRoom' = hubRoom /\ No(down', Replying),
              pc \notin {"lan", "exited"} /\ session # Lan =>
                  \/ No(down', Placing) /\ currentRoomId = hubRoom'
                  \/ EndsIn(down', Placing, hubRoom')
       PROVE  Inv'
  <2>1. NetTypes'
    BY <1>1, <1>3, <1>5, <1>13 DEF Inv, Types, NetTypes
  <2>2. NothingAsked'
    BY <1>1, <1>5, <1>10, <1>13 DEF Inv, NothingAsked
  <2>3. CreateIsLast'
    <3>1. hubRoom' = Own \/ ~No(up', {"create_room"}) => ~No(up, {"create_room"})
      BY <1>1, <1>5, <1>13
    <3>2. pending'.created = NoRoom
      BY <1>1, <1>9 DEF Inv, CreateIsLast
    <3> QED
      BY <1>1, <1>5, <1>10, <1>13, <3>1, <3>2 DEF Inv, CreateIsLast
  <2>4. Known'
    BY <1>1, <1>13 DEF Known
  <2> QED
    BY <1>11, <1>12, <2>1, <2>2, <2>3, <2>4 DEF Inv, Types
<1>14. LastCreated(down, hubRoom) /\ (Early => No(down, Replying))
  BY DEF Inv, CreateIsLast, NothingAsked
<1>15. CASE req.type = "hello" /\ down' = down \o <<hello, list>> /\ hubRoom' = hubRoom
  <2> DEFINE t == Append(down, hello)
  <2>1. down' = Append(t, list)
    BY <1>3, <1>6, <1>7, <1>15, TwoAppended
  <2>2. /\ t \in Seq(FineAnswers)
        /\ No(down, Placing) => No(t, Placing)
        /\ \A r : EndsIn(down, Placing, r) => EndsIn(t, Placing, r)
        /\ No(down, Replying) => No(t, Replying)
        /\ \A r : LastCreated(down, r) => LastCreated(t, r)
    BY <1>3, <1>6, OtherMessage
  <2> HIDE DEF t
  <2>3. /\ down' \in Seq(FineAnswers)
        /\ No(t, Placing) => No(down', Placing)
        /\ \A r : EndsIn(t, Placing, r) => EndsIn(down', Placing, r)
        /\ No(t, Replying) => No(down', Replying)
        /\ \A r : LastCreated(t, r) => LastCreated(down', r)
    BY <1>7, <2>1, <2>2, OtherMessage
  <2>4. hubRoom' \in Rooms \cup {Own, NoRoom}
    BY <1>15 DEF Inv, Types, NetTypes
  <2> QED
    BY <1>9, <1>13, <1>14, <1>15, <2>2, <2>3, <2>4 DEF Inv, Known
<1>16. CASE req.type = "join_room" /\ down' = Append(down, error) /\ hubRoom' = hubRoom
  <2>1. /\ down' \in Seq(FineAnswers)
        /\ No(down, Placing) => No(down', Placing)
        /\ \A r : EndsIn(down, Placing, r) => EndsIn(down', Placing, r)
        /\ \A r : LastCreated(down, r) => LastCreated(down', r)
    BY <1>3, <1>6, <1>16, OtherMessage
  <2>2. hubRoom' \in Rooms \cup {Own, NoRoom} /\ ~Early
    BY <1>8, <1>16 DEF Inv, Types, NetTypes, Asking
  <2> QED
    BY <1>9, <1>13, <1>14, <1>16, <2>1, <2>2 DEF Inv, Known
<1>17. ASSUME NEW type \in Placing, NEW r \in Rooms \cup {Own}, hubRoom' = r,
              down' = down \o <<Answer(type, r), list>>, req.type \in Asking,
              type = "room_created" <=> r = Own, r = Own <=> req.type = "create_room"
       PROVE  Inv'
  <2> DEFINE a == Answer(type, r)
  <2>1. a \in FineAnswers /\ a.type = type /\ a.room = r
    BY <1>17 DEF FineAnswers, Placing
  <2> HIDE DEF a, Answer
  <2> DEFINE t == Append(down, a)
  <2>2. down' = Append(t, list)
    BY <1>3, <1>7, <1>17, <2>1, TwoAppended DEF a
  <2>3. t \in Seq(FineAnswers) /\ EndsIn(t, Placing, r)
    BY <1>3, <2>1, AppendShifts, EndAppended
  <2>4. LastCreated(t, r)
    <3>1. \A i \in 1..Len(down) : down[i].type # "room_created"
      BY <1>9, <1>14 DEF LastCreated
    <3>2. /\ Len(t) = Len(down) + 1 /\ t[Len(down) + 1] = a /\ Len(down) \in Nat
          /\ \A i \in 1..Len(t) : i = Len(down) + 1 \/ (i \in 1..Len(down) /\ t[i] = down[i])
      BY <1>3, <2>1, AppendShifts
    <3> HIDE DEF t
    <3> SUFFICES ASSUME NEW i \in 1..Len(t), t[i].type = "room_created"
                 PROVE  r = Own /\ \A j \in 1..Len(t) : t[j].type \in Placing => j <= i
      BY DEF LastCreated
    <3>3. i = Len(down) + 1
      BY <3>1, <3>2
    <3> QED
      BY <1>17, <2>1, <3>2, <3>3
  <2> HIDE DEF t
  <2>5. /\ down' \in Seq(FineAnswers)
        /\ EndsIn(down', Placing, r) /\ LastCreated(down', r)
    BY <1>7, <2>2, <2>3, <2>4, OtherMessage
  <2>6. r = Own => Tail(up) = <<>> /\ ~No(up, {"create_room"})
    BY <1>5, <1>17 DEF No
  <2> QED
    BY <1>8, <1>13, <1>17, <2>5, <2>6
<1>18. CASE /\ req.type = "create_room" /\ hubRoom' = Own
            /\ down' = down \o <<Answer("room_created", Own), list>>
  BY <1>17, <1>18 DEF Asking, Placing
<1>19. CASE /\ req.type = "join_room" /\ req.room \in open /\ hubRoom' = req.room
            /\ down' = down \o <<Answer("joined_room", req.room), list>>
  <2>1. req.room \in Rooms /\ req.room # Own
    BY <1>3, <1>19
  <2> QED
    BY <1>17, <1>19, <2>1 DEF Asking, Placing
<1> QED
  BY <1>2, <1>15, <1>16, <1>18, <1>19
----------------------------------------------------------------------------
LEMMA NextInv == Inv /\ [Next]_vars => Inv'
<1> SUFFICES ASSUME Inv, [Next]_vars PROVE Inv'
  OBVIOUS
<1>1. CASE MainThread
  BY <1>1, ConnectKeeps, GreetKeeps, AwaitHelloKeeps, DisconnectKeeps, JoinRoomKeeps,
     CreateRoomKeeps, AwaitKeeps, UseLanKeeps, LoopKeeps DEF MainThread
<1>2. CASE Exit
  BY <1>2, LoopKeeps
<1>3. CASE ReceiverThread
  BY <1>3, ReceiveKeeps, EndReceiverKeeps DEF ReceiverThread
<1>4. CASE Hub
  BY <1>4, HubHandleKeeps, OthersMoveKeeps DEF Hub
<1>5. CASE Break
  BY <1>5, BreakKeeps
<1>6. CASE UNCHANGED vars
  <2>1. UNCHANGED <<pc, after, candidates, asked, session, met, connected, handle, stopRequested,
                    thread, received, rooms, pending, currentRoomId, events, link, up, down,
                    hubRoom, open, lists, timedOut>>
    BY <1>6 DEF vars, appVars, clientVars, lockedVars, netVars, hubVars
  <2>2. AppTypes' /\ Offline' /\ (Early' <=> Early)
    BY <2>1 DEF Inv, Types, AppTypes, Offline, Early
  <2>3. ClientTypes'
    BY <2>1 DEF Inv, Types, ClientTypes
  <2>4. NetTypes'
    BY <2>1 DEF Inv, Types, NetTypes
  <2> QED
    BY <2>1, <2>2, <2>3, <2>4, SameKnowledge DEF Inv, Types
<1> QED
  BY <1>1, <1>2, <1>3, <1>4, <1>5, <1>6 DEF Next

\* For any rooms and number of lists: every variable has its type.
THEOREM TypeCorrect == Spec => []TypeOK
<1>1. Inv => TypeOK
  <2> SUFFICES ASSUME Inv PROVE TypeOK
    OBVIOUS
  <2>1. down \in Seq(FineAnswers) /\ down \in Seq(Answers)
    BY SeqMonotonic, FineAnswersAreAnswers DEF Inv, Types, NetTypes
  <2> QED
    BY <2>1 DEF Inv, Types, AppTypes, ClientTypes, NetTypes, TypeOK
<1> QED
  BY InitInv, NextInv, <1>1, PTL DEF Spec

\* For any rooms and number of lists: nothing of the connection that was tried is
\* left in a client that fell back to the LAN.
THEOREM NothingLeft == Spec => []LanIsOffline
<1>1. Inv => LanIsOffline
  BY DEF Inv, Offline, NothingAsked, Early, LanIsOffline
<1> QED
  BY InitInv, NextInv, <1>1, PTL DEF Spec

\* For any rooms and number of lists, and late answers too: currentRoomId_ is the
\* coordinator's room as of the last answer that was read.
THEOREM RoomKnown == Spec => []ClientKnowsItsRoom
<1>1. Inv => ClientKnowsItsRoom
  <2> SUFFICES ASSUME Inv, link = "open", pc \notin {"lan", "exited"}, session # Lan
               PROVE  IF RoomAnswers = {} THEN currentRoomId = hubRoom
                      ELSE \A i \in RoomAnswers :
                              (\A j \in RoomAnswers : j <= i) => down[i].room = hubRoom
    BY DEF ClientKnowsItsRoom
  <2>1. DOMAIN down = 1..Len(down) /\ Len(down) \in Nat
    BY LenProperties DEF Inv, Types, NetTypes
  <2>2. CASE No(down, Placing) /\ currentRoomId = hubRoom
    BY <2>1, <2>2 DEF RoomAnswers, No, Placing
  <2>3. CASE EndsIn(down, Placing, hubRoom)
    <3>1. PICK k \in 1..Len(down) :
              /\ down[k].type \in Placing /\ down[k].room = hubRoom
              /\ \A j \in 1..Len(down) : down[j].type \in Placing => j <= k
      BY <2>3 DEF EndsIn
    <3>2. k \in RoomAnswers
      BY <2>1, <3>1 DEF RoomAnswers, Placing
    <3>3. ASSUME NEW i \in RoomAnswers, \A j \in RoomAnswers : j <= i PROVE i = k
      <4>1. i \in 1..Len(down) /\ i <= k /\ k <= i
        BY <2>1, <3>1, <3>2, <3>3 DEF RoomAnswers, Placing
      <4> QED
        BY <2>1, <4>1
    <3> QED
      BY <3>1, <3>2, <3>3
  <2> QED
    BY <2>2, <2>3 DEF Inv, Known
<1> QED
  BY InitInv, NextInv, <1>1, PTL DEF Spec
----------------------------------------------------------------------------
(* One room for all, as long as no wait ran out of time. *)

\* No request and no answer is on its way; nothing was answered yet.
Quiet == No(up, Asking) /\ No(down, Replying)
NothingGot == pending.joined = NoRoom /\ pending.created = NoRoom /\ events = {}

Join(r) == [type |-> "join_room", room |-> r]
Joined(r) == [type |-> "joined_room", room |-> r]
Create == [type |-> "create_room"]
Created == [type |-> "room_created", room |-> Own]
Refused == [type |-> "error"]

\* Where the one request of joinRoom, or its answer, is: up, down, read, or lost.
JoinUnderWay ==
    \/ /\ OnlyOne(up, Asking, Join(asked)) /\ No(down, Replying)
       /\ NothingGot /\ ~pending.error /\ hubRoom = NoRoom
    \/ /\ No(up, Asking) /\ OnlyOne(down, Replying, Joined(asked))
       /\ NothingGot /\ ~pending.error /\ hubRoom = asked
    \/ /\ No(up, Asking) /\ OnlyOne(down, Replying, Refused)
       /\ NothingGot /\ ~pending.error /\ hubRoom = NoRoom
    \/ /\ Quiet /\ pending.joined = asked /\ pending.created = NoRoom
       /\ events = {asked} /\ hubRoom = asked
    \/ Quiet /\ NothingGot /\ hubRoom = NoRoom /\ (pending.error \/ link = "broken")

CreateUnderWay ==
    \/ OnlyOne(up, Asking, Create) /\ No(down, Replying) /\ NothingGot
    \/ No(up, Asking) /\ OnlyOne(down, Replying, Created) /\ NothingGot /\ hubRoom = Own
    \/ /\ Quiet /\ pending.created = Own /\ pending.joined = NoRoom
       /\ events = {} /\ hubRoom = Own
    \/ Quiet /\ NothingGot /\ link = "broken"

InStep ==
    ~timedOut =>
        /\ pc \in {"choose", "awaitJoin", "awaitCreate"} => session = NoRoom /\ met = {}
        /\ pc = "choose" => NothingGot /\ (connected => Quiet /\ hubRoom = NoRoom)
        /\ pc = "awaitJoin" => asked \in Rooms /\ JoinUnderWay
        /\ pc = "awaitCreate" => CreateUnderWay
        /\ pc = "loop" /\ session # Lan =>
              Quiet /\ session = hubRoom /\ met \cup events \subseteq {session}

LEMMA SameStep ==
    ASSUME InStep, timedOut' = timedOut,
           \/ pc' \notin {"choose", "awaitJoin", "awaitCreate", "loop"}
           \/ /\ UNCHANGED <<pc, asked, session, met, pending, events, up, down, hubRoom>>
              /\ link' \in {link, "broken"} /\ (connected' => connected)
    PROVE  InStep'
<1>1. CASE pc' \notin {"choose", "awaitJoin", "awaitCreate", "loop"}
  BY <1>1 DEF InStep
<1>2. CASE /\ UNCHANGED <<pc, asked, session, met, pending, events, up, down, hubRoom>>
           /\ link' \in {link, "broken"} /\ (connected' => connected)
  <2>1. (Quiet' <=> Quiet) /\ (NothingGot' <=> NothingGot)
    BY <1>2 DEF Quiet, NothingGot
  <2>2. JoinUnderWay => JoinUnderWay'
    BY <1>2, <2>1 DEF JoinUnderWay
  <2>3. CreateUnderWay => CreateUnderWay'
    BY <1>2, <2>1 DEF CreateUnderWay
  <2> QED
    BY <1>2, <2>1, <2>2, <2>3 DEF InStep
<1> QED
  BY <1>1, <1>2

\* The main thread, outside of its waits for a room.
LEMMA WalkInStep ==
    ASSUME Inv, InStep,
           \/ Connect \/ Greet \/ AwaitHello \/ CloseHandles \/ JoinReceiver \/ UseLan \/ Pump \/ Exit
    PROVE  InStep'
<1>1. CASE Connect \/ Greet \/ CloseHandles \/ JoinReceiver \/ Exit
  <2>1. timedOut' = timedOut /\ pc' \notin {"choose", "awaitJoin", "awaitCreate", "loop"}
    BY <1>1 DEF Connect, Greet, CloseHandles, JoinReceiver, Exit, Disconnecting, Inv, Types, AppTypes
  <2> QED
    BY <2>1, SameStep
<1>2. CASE AwaitHello
  <2>1. /\ pc = "awaitHello" /\ pc' \in {"choose", "disconnect"}
        /\ UNCHANGED <<session, met, pending, events, up, down, hubRoom, timedOut>>
    BY <1>2 DEF AwaitHello, Disconnecting, clientVars, lockedVars, netVars, hubVars
  <2>2. /\ No(up, Asking) /\ No(down, Replying) /\ events = {} /\ met = {} /\ hubRoom = NoRoom
        /\ pending.joined = NoRoom /\ pending.created = NoRoom
    BY <2>1 DEF Early, Inv, NothingAsked
  <2>3. session = NoRoom
    BY <2>1 DEF Early, Inv, NothingAsked, Offline
  <2> QED
    BY <2>1, <2>2, <2>3 DEF InStep, Quiet, NothingGot
<1>3. CASE UseLan
  <2>1. pc' = "loop" /\ session' = Lan
    BY <1>3 DEF UseLan
  <2> QED
    BY <2>1 DEF InStep
<1>4. CASE Pump
  <2>1. /\ pc = "loop" /\ met' = met \cup events /\ events' = {}
        /\ UNCHANGED <<pc, session, up, down, hubRoom, timedOut>>
    BY <1>4 DEF Pump, netVars, hubVars
  <2>2. Quiet' <=> Quiet
    BY <2>1 DEF Quiet
  <2> QED
    BY <2>1, <2>2 DEF InStep
<1> QED
  BY <1>1, <1>2, <1>3, <1>4

LEMMA JoinRoomInStep ==
    ASSUME Inv, InStep, NEW r \in Rooms, JoinRoom(r)
    PROVE  InStep'
<1> SUFFICES ASSUME ~timedOut' PROVE InStep'
  BY DEF InStep
<1>1. /\ pc = "choose"
      /\ UNCHANGED <<session, met, connected, thread, events, link, down, hubRoom, timedOut>>
  BY DEF JoinRoom, hubVars
<1>2. /\ session = NoRoom /\ met = {} /\ NothingGot
      /\ connected => Quiet /\ hubRoom = NoRoom
  BY <1>1 DEF InStep
<1>3. CASE UNCHANGED <<up, pc, asked, pending>>
  BY <1>1, <1>3, SameStep
<1>4. CASE /\ connected /\ up' = IF link = "open" THEN Append(up, Join(r)) ELSE up
           /\ pc' = "awaitJoin" /\ asked' = r
           /\ pending' = [pending EXCEPT !.joined = NoRoom, !.error = FALSE]
  <2>1. pending'.joined = NoRoom /\ pending'.created = NoRoom /\ ~pending'.error
    BY <1>2, <1>4 DEF NothingGot, Inv, Types, ClientTypes
  <2>2. NothingGot' /\ Quiet /\ hubRoom' = NoRoom /\ No(down', Replying)
    BY <1>1, <1>2, <1>4, <2>1 DEF NothingGot, Quiet
  <2>3. JoinUnderWay'
    <3>1. CASE link = "open"
      <4>1. up' = Append(up, Join(r)) /\ up \in Seq(Requests) /\ Join(r) \in Requests
        BY <1>4, <3>1 DEF Inv, Types, NetTypes, Join, Requests
      <4>2. OnlyOne(up', Asking, Join(asked'))
        BY <1>4, <2>2, <4>1, OneAppended DEF Quiet
      <4> QED
        BY <2>1, <2>2, <4>2 DEF JoinUnderWay
    <3>2. CASE link # "open"
      <4>1. up' = up /\ link' = "broken"
        BY <1>1, <1>4, <3>2 DEF Inv, Offline, Types, NetTypes
      <4>2. Quiet'
        BY <1>1, <2>2, <4>1 DEF Quiet
      <4> QED
        BY <2>2, <4>1, <4>2 DEF JoinUnderWay
    <3> QED
      BY <3>1, <3>2
  <2> QED
    BY <1>1, <1>2, <1>4, <2>3 DEF InStep
<1> QED
  BY <1>3, <1>4 DEF JoinRoom, SendText, SendFails, Join

LEMMA CreateRoomInStep ==
    ASSUME Inv, InStep, CreateRoom
    PROVE  InStep'
<1> SUFFICES ASSUME ~timedOut' PROVE InStep'
  BY DEF InStep
<1>1. /\ pc = "choose"
      /\ UNCHANGED <<session, met, connected, events, link, down, hubRoom, timedOut>>
  BY DEF CreateRoom, hubVars
<1>2. /\ session = NoRoom /\ met = {} /\ NothingGot
      /\ connected => Quiet /\ hubRoom = NoRoom
  BY <1>1 DEF InStep
<1>3. CASE pc' = "aborted"
  BY <1>1, <1>3, SameStep
<1>4. CASE /\ connected /\ up' = IF link = "open" THEN Append(up, Create) ELSE up
           /\ pc' = "awaitCreate"
           /\ pending' = [pending EXCEPT !.created = NoRoom, !.error = FALSE]
  <2>1. pending'.joined = NoRoom /\ pending'.created = NoRoom
    BY <1>2, <1>4 DEF NothingGot, Inv, Types, ClientTypes
  <2>2. NothingGot' /\ Quiet /\ No(down', Replying)
    BY <1>1, <1>2, <1>4, <2>1 DEF NothingGot, Quiet
  <2>3. CreateUnderWay'
    <3>1. CASE link = "open"
      <4>1. up' = Append(up, Create) /\ up \in Seq(Requests) /\ Create \in Requests
        BY <1>4, <3>1 DEF Inv, Types, NetTypes, Create, Requests
      <4>2. OnlyOne(up', Asking, Create)
        BY <2>2, <4>1, OneAppended DEF Quiet
      <4> QED
        BY <2>2, <4>2 DEF CreateUnderWay
    <3>2. CASE link # "open"
      <4>1. up' = up /\ link' = "broken"
        BY <1>1, <1>4, <3>2 DEF Inv, Offline, Types, NetTypes
      <4>2. Quiet'
        BY <1>1, <2>2, <4>1 DEF Quiet
      <4> QED
        BY <2>2, <4>1, <4>2 DEF CreateUnderWay
    <3> QED
      BY <3>1, <3>2
  <2> QED
    BY <1>1, <1>2, <1>4, <2>3 DEF InStep
<1> QED
  BY <1>3, <1>4 DEF CreateRoom, SendText, SendFails, Create

\* A wait that was in time ended with the answer, or without a connection.
LEMMA AwaitInStep ==
    ASSUME Inv, InStep, AwaitJoin \/ AwaitCreate
    PROVE  InStep'
<1> SUFFICES ASSUME ~timedOut' PROVE InStep'
  BY DEF InStep
<1>1. UNCHANGED <<asked, met, connected, events, link, up, down, hubRoom>>
  BY DEF AwaitJoin, AwaitCreate, JoinEnds, netVars, hubVars
<1>2. asked # Lan /\ Own # Lan /\ (Quiet' <=> Quiet)
  BY <1>1 DEF Inv, Types, AppTypes, Quiet
<1>3. CASE AwaitJoin
  <2>1. /\ pc = "awaitJoin" /\ ~timedOut
        /\ pending.joined # NoRoom \/ pending.error \/ ~connected
    BY <1>3 DEF AwaitJoin, JoinEnds, WaitEnds
  <2>2. session = NoRoom /\ met = {} /\ asked \in Rooms /\ JoinUnderWay
    BY <2>1 DEF InStep
  <2>3. CASE pending.joined # NoRoom
    <3>1. pc' = "loop" /\ session' = asked
      BY <1>3, <2>3 DEF AwaitJoin, JoinEnds
    <3>2. Quiet /\ events = {asked} /\ hubRoom = asked
      BY <2>2, <2>3 DEF JoinUnderWay, NothingGot
    <3> QED
      BY <1>1, <1>2, <2>2, <3>1, <3>2 DEF InStep
  <2>4. CASE pending.joined = NoRoom
    <3>1. pc' = "choose" /\ session' = session /\ pending' = pending
      BY <1>3, <2>4 DEF AwaitJoin, JoinEnds
    <3>2. NothingGot /\ (connected => Quiet /\ hubRoom = NoRoom)
      BY <2>1, <2>2, <2>4 DEF JoinUnderWay, NothingGot
    <3>3. NothingGot' <=> NothingGot
      BY <1>1, <3>1 DEF NothingGot
    <3> QED
      BY <1>1, <1>2, <2>2, <3>1, <3>2, <3>3 DEF InStep
  <2> QED
    BY <2>3, <2>4
<1>4. CASE AwaitCreate
  <2>1. pc = "awaitCreate" /\ ~timedOut
    BY <1>4 DEF AwaitCreate, WaitEnds
  <2>2. session = NoRoom /\ met = {} /\ CreateUnderWay
    BY <2>1 DEF InStep
  <2>3. CASE pending.created # NoRoom
    <3>1. pc' = "loop" /\ session' = pending.created
      BY <1>4, <2>3 DEF AwaitCreate
    <3>2. Quiet /\ pending.created = Own /\ events = {} /\ hubRoom = Own
      BY <2>2, <2>3 DEF CreateUnderWay, NothingGot
    <3> QED
      BY <1>1, <1>2, <2>2, <3>1, <3>2 DEF InStep
  <2>4. CASE pending.created = NoRoom
    <3>1. pc' = "aborted"
      BY <1>4, <2>4 DEF AwaitCreate
    <3> QED
      BY <3>1 DEF InStep
  <2> QED
    BY <2>3, <2>4
<1> QED
  BY <1>3, <1>4

LEMMA ReceiveInStep ==
    ASSUME Inv, InStep, Receive
    PROVE  InStep'
<1> DEFINE m == Head(down)
<1> SUFFICES ASSUME ~timedOut' PROVE InStep'
  BY DEF InStep
<1>1. /\ thread = "running" /\ down # <<>> /\ down' = Tail(down) /\ down \in Seq(FineAnswers)
      /\ UNCHANGED <<pc, asked, session, met, connected, link, up, hubRoom, timedOut>>
  BY DEF Receive, appVars, hubVars, Inv, Types, NetTypes
<1>2. /\ m.type = "joined_room" => pending' = [pending EXCEPT !.joined = m.room]
      /\ m.type = "room_created" => pending' = [pending EXCEPT !.created = m.room]
      /\ m.type = "error" => pending' = [pending EXCEPT !.error = TRUE]
      /\ m.type \notin Replying => pending' = pending
      /\ events' = IF m.type = "joined_room" THEN events \cup {m.room} ELSE events
  BY DEF Receive, HandleServerMessage, Replying, Placing
<1>3. /\ No(down, Replying) => No(Tail(down), Replying) /\ m.type \notin Replying
      /\ \A x : OnlyOne(down, Replying, x) =>
             /\ m.type \in Replying => m = x /\ No(Tail(down), Replying)
             /\ x.type \in Replying /\ m.type \notin Replying => OnlyOne(Tail(down), Replying, x)
  <2>1. No(down, Replying) => No(Tail(down), Replying)
    BY <1>1, NoneInTail
  <2>2. m = down[1] /\ 1 \in 1..Len(down)
    BY <1>1, TailShifts
  <2>3. No(down, Replying) => m.type \notin Replying
    BY <2>2 DEF No
  <2>4. ASSUME NEW x, OnlyOne(down, Replying, x)
        PROVE  /\ m.type \in Replying => m = x /\ No(Tail(down), Replying)
               /\ x.type \in Replying /\ m.type \notin Replying => OnlyOne(Tail(down), Replying, x)
    BY <1>1, <2>4, OneInTail
  <2> QED
    BY <2>1, <2>3, <2>4
<1> HIDE DEF m
<1>4. m.type \notin Replying => pending' = pending /\ events' = events
  BY <1>2 DEF Replying, Placing
<1>5. Quiet => Quiet' /\ (NothingGot => NothingGot') /\ pending' = pending /\ events' = events
  BY <1>1, <1>3, <1>4 DEF Quiet, NothingGot
<1>6. pc \in {"choose", "awaitJoin", "awaitCreate", "loop"} => connected
  BY <1>1 DEF Inv, Offline
<1>7. CASE pc = "choose"
  BY <1>1, <1>5, <1>6, <1>7 DEF InStep
<1>8. CASE pc = "loop"
  BY <1>1, <1>5, <1>8 DEF InStep
<1>9. CASE pc = "awaitJoin"
  <2>1. asked \in Rooms /\ session = NoRoom /\ met = {} /\ JoinUnderWay
    BY <1>1, <1>9 DEF InStep
  <2>2. JoinUnderWay'
    <3>1. CASE /\ OnlyOne(up, Asking, Join(asked)) /\ No(down, Replying)
               /\ NothingGot /\ ~pending.error /\ hubRoom = NoRoom
      BY <1>1, <1>3, <1>4, <3>1 DEF JoinUnderWay, NothingGot
    <3>2. CASE /\ No(up, Asking) /\ OnlyOne(down, Replying, Joined(asked))
               /\ NothingGot /\ ~pending.error /\ hubRoom = asked
      <4>1. Joined(asked).type = "joined_room" /\ Joined(asked).room = asked
        BY DEF Joined
      <4>2. CASE m.type \in Replying
        <5>1. m = Joined(asked) /\ No(Tail(down), Replying)
          BY <1>3, <3>2, <4>2
        <5>2. pending' = [pending EXCEPT !.joined = asked] /\ events' = {asked}
          BY <1>2, <3>2, <4>1, <5>1 DEF NothingGot
        <5>3. pending'.joined = asked /\ pending'.created = NoRoom
          BY <3>2, <5>2 DEF NothingGot, Inv, Types, ClientTypes
        <5> QED
          BY <1>1, <3>2, <5>1, <5>2, <5>3 DEF JoinUnderWay, Quiet
      <4>3. CASE m.type \notin Replying
        <5>1. OnlyOne(Tail(down), Replying, Joined(asked))
          BY <1>3, <3>2, <4>1, <4>3 DEF Replying, Placing
        <5> QED
          BY <1>1, <1>4, <3>2, <4>3, <5>1 DEF JoinUnderWay, NothingGot
      <4> QED
        BY <4>2, <4>3
    <3>3. CASE /\ No(up, Asking) /\ OnlyOne(down, Replying, Refused)
               /\ NothingGot /\ ~pending.error /\ hubRoom = NoRoom
      <4>1. Refused.type = "error"
        BY DEF Refused
      <4>2. CASE m.type \in Replying
        <5>1. m = Refused /\ No(Tail(down), Replying)
          BY <1>3, <3>3, <4>2
        <5>2. pending' = [pending EXCEPT !.error = TRUE] /\ events' = events
          BY <1>2, <4>1, <5>1
        <5>3. pending'.joined = NoRoom /\ pending'.created = NoRoom /\ pending'.error
          BY <3>3, <5>2 DEF NothingGot, Inv, Types, ClientTypes
        <5> QED
          BY <1>1, <3>3, <5>1, <5>2, <5>3 DEF JoinUnderWay, Quiet, NothingGot
      <4>3. CASE m.type \notin Replying
        <5>1. OnlyOne(Tail(down), Replying, Refused)
          BY <1>3, <3>3, <4>1, <4>3 DEF Replying
        <5> QED
          BY <1>1, <1>4, <3>3, <4>3, <5>1 DEF JoinUnderWay, NothingGot
      <4> QED
        BY <4>2, <4>3
    <3>4. CASE /\ Quiet /\ pending.joined = asked /\ pending.created = NoRoom
               /\ events = {asked} /\ hubRoom = asked
      BY <1>1, <1>5, <3>4 DEF JoinUnderWay
    <3>5. CASE Quiet /\ NothingGot /\ hubRoom = NoRoom /\ (pending.error \/ link = "broken")
      BY <1>1, <1>5, <3>5 DEF JoinUnderWay
    <3> QED
      BY <2>1, <3>1, <3>2, <3>3, <3>4, <3>5 DEF JoinUnderWay
  <2> QED
    BY <1>1, <1>9, <2>1, <2>2 DEF InStep
<1>10. CASE pc = "awaitCreate"
  <2>1. session = NoRoom /\ met = {} /\ CreateUnderWay
    BY <1>1, <1>10 DEF InStep
  <2>2. CreateUnderWay'
    <3>1. CASE OnlyOne(up, Asking, Create) /\ No(down, Replying) /\ NothingGot
      BY <1>1, <1>3, <1>4, <3>1 DEF CreateUnderWay, NothingGot
    <3>2. CASE No(up, Asking) /\ OnlyOne(down, Replying, Created) /\ NothingGot /\ hubRoom = Own
      <4>1. Created.type = "room_created" /\ Created.room = Own
        BY DEF Created
      <4>2. CASE m.type \in Replying
        <5>1. m = Created /\ No(Tail(down), Replying)
          BY <1>3, <3>2, <4>2
        <5>2. pending' = [pending EXCEPT !.created = Own] /\ events' = {}
          BY <1>2, <3>2, <4>1, <5>1 DEF NothingGot
        <5>3. pending'.created = Own /\ pending'.joined = NoRoom
          BY <3>2, <5>2 DEF NothingGot, Inv, Types, ClientTypes
        <5> QED
          BY <1>1, <3>2, <5>1, <5>2, <5>3 DEF CreateUnderWay, Quiet
      <4>3. CASE m.type \notin Replying
        <5>1. OnlyOne(Tail(down), Replying, Created)
          BY <1>3, <3>2, <4>1, <4>3 DEF Replying, Placing
        <5> QED
          BY <1>1, <1>4, <3>2, <4>3, <5>1 DEF CreateUnderWay, NothingGot
      <4> QED
        BY <4>2, <4>3
    <3>3. CASE /\ Quiet /\ pending.created = Own /\ pending.joined = NoRoom
               /\ events = {} /\ hubRoom = Own
      BY <1>1, <1>5, <3>3 DEF CreateUnderWay
    <3>4. CASE Quiet /\ NothingGot /\ link = "broken"
      BY <1>1, <1>5, <3>4 DEF CreateUnderWay
    <3> QED
      BY <2>1, <3>1, <3>2, <3>3, <3>4 DEF CreateUnderWay
  <2> QED
    BY <1>1, <1>10, <2>1, <2>2 DEF InStep
<1>11. CASE pc \notin {"choose", "awaitJoin", "awaitCreate", "loop"}
  BY <1>1, <1>11, SameStep
<1> QED
  BY <1>7, <1>8, <1>9, <1>10, <1>11

\* The coordinator says something that answers no request for a room.
LEMMA OtherWords ==
    ASSUME NEW s \in Seq(FineAnswers), NEW m \in FineAnswers, m.type \notin Replying
    PROVE  /\ Append(s, m) \in Seq(FineAnswers)
           /\ No(s, Replying) => No(Append(s, m), Replying)
           /\ \A x \in FineAnswers :
                 OnlyOne(s, Replying, x) => OnlyOne(Append(s, m), Replying, x)
<1>1. No(s, Replying) => No(Append(s, m), Replying)
  BY NoneAppended
<1>2. ASSUME NEW x \in FineAnswers, OnlyOne(s, Replying, x)
      PROVE  OnlyOne(Append(s, m), Replying, x)
  BY <1>2, OneStays
<1>3. Append(s, m) \in Seq(FineAnswers)
  BY AppendShifts
<1> QED
  BY <1>1, <1>2, <1>3

LEMMA WordsAreFine ==
    /\ \A r \in Rooms : Joined(r) \in FineAnswers
    /\ Created \in FineAnswers /\ Refused \in FineAnswers
BY DEF Joined, Created, Refused, FineAnswers

\* More is said that answers no request; nothing else changes.
LEMMA WordsInStep ==
    ASSUME Inv, InStep,
           UNCHANGED <<pc, asked, session, met, connected, pending, events, link, hubRoom, timedOut>>,
           No(up, Asking) => No(up', Asking),
           OnlyOne(up, Asking, Join(asked)) => OnlyOne(up', Asking, Join(asked)),
           OnlyOne(up, Asking, Create) => OnlyOne(up', Asking, Create),
           No(down, Replying) => No(down', Replying),
           \A x \in FineAnswers : OnlyOne(down, Replying, x) => OnlyOne(down', Replying, x)
    PROVE  InStep'
<1> SUFFICES ASSUME ~timedOut' PROVE InStep'
  BY DEF InStep
<1>1. (Quiet => Quiet') /\ (NothingGot' <=> NothingGot)
  BY DEF Quiet, NothingGot
<1>2. asked \in Rooms /\ JoinUnderWay => JoinUnderWay'
  BY <1>1, WordsAreFine DEF JoinUnderWay
<1>3. CreateUnderWay => CreateUnderWay'
  BY <1>1, WordsAreFine DEF CreateUnderWay
<1> QED
  BY <1>1, <1>2, <1>3 DEF InStep

LEMMA OthersInStep ==
    ASSUME Inv, InStep, NEW r \in Rooms, OthersMove(r)
    PROVE  InStep'
<1>1. /\ UNCHANGED <<pc, asked, session, met, connected, pending, events, link, hubRoom, timedOut, up>>
      /\ open' = IF r \in open THEN open \ {r} ELSE open \cup {r}
      /\ down' = down \/ down' = Append(down, List(open'))
  BY DEF OthersMove, appVars, clientVars, lockedVars
<1>2. open' \in SUBSET Rooms /\ down \in Seq(FineAnswers)
  BY <1>1 DEF Inv, Types, NetTypes
<1> DEFINE m == List(open')
<1>3. m \in FineAnswers /\ m.type \notin Replying
  BY <1>2, ListIsFine DEF Replying, Placing
<1>4. down' = down \/ down' = Append(down, m)
  BY <1>1
<1> HIDE DEF m
<1>5. /\ No(down, Replying) => No(down', Replying)
      /\ \A x \in FineAnswers : OnlyOne(down, Replying, x) => OnlyOne(down', Replying, x)
  BY <1>2, <1>3, <1>4, OtherWords
<1> QED
  BY <1>1, <1>5, WordsInStep

LEMMA HubHandleInStep ==
    ASSUME Inv, InStep, HubHandle
    PROVE  InStep'
<1> SUFFICES ASSUME ~timedOut' PROVE InStep'
  BY DEF InStep
<1> DEFINE req == Head(up)  list == List(open)  hello == [type |-> "hello"]
<1>1. /\ up # <<>> /\ up' = Tail(up) /\ link = "open"
      /\ UNCHANGED <<pc, asked, session, met, connected, thread, pending, events, link, timedOut>>
  BY DEF HubHandle, appVars, clientVars, lockedVars
<1>2. \/ req.type = "hello" /\ down' = down \o <<hello, list>> /\ hubRoom' = hubRoom
      \/ /\ req.type = "create_room" /\ hubRoom' = Own
         /\ down' = down \o <<Created, list>>
      \/ /\ req.type = "join_room" /\ req.room \in open /\ hubRoom' = req.room
         /\ down' = down \o <<Joined(req.room), list>>
      \/ req.type = "join_room" /\ down' = Append(down, Refused) /\ hubRoom' = hubRoom
  BY DEF HubHandle, Created, Joined, Refused
<1>3. up \in Seq(Requests) /\ down \in Seq(FineAnswers) /\ open \in SUBSET Rooms
  BY DEF Inv, Types, NetTypes
<1>4. /\ No(up, Asking) => No(up', Asking) /\ req.type \notin Asking
      /\ \A x : OnlyOne(up, Asking, x) =>
             /\ req.type \in Asking => req = x /\ No(up', Asking)
             /\ x.type \in Asking /\ req.type \notin Asking => OnlyOne(up', Asking, x)
  <2>1. No(up, Asking) => No(Tail(up), Asking)
    BY <1>1, <1>3, NoneInTail
  <2>2. req = up[1] /\ 1 \in 1..Len(up)
    BY <1>1, <1>3, TailShifts
  <2>3. No(up, Asking) => req.type \notin Asking
    BY <2>2 DEF No
  <2>4. ASSUME NEW x, OnlyOne(up, Asking, x)
        PROVE  /\ req.type \in Asking => req = x /\ No(Tail(up), Asking)
               /\ x.type \in Asking /\ req.type \notin Asking => OnlyOne(Tail(up), Asking, x)
    BY <1>1, <1>3, <2>4, OneInTail
  <2> QED
    BY <1>1, <2>1, <2>3, <2>4
<1>5. /\ hello \in FineAnswers /\ hello.type \notin Replying
      /\ list \in FineAnswers /\ list.type \notin Replying
  <2>1. hello \in FineAnswers /\ hello.type \notin Replying
    BY DEF FineAnswers, Replying, Placing
  <2> QED
    BY <1>3, <2>1, ListIsFine DEF Replying, Placing
<1> HIDE DEF req, list, hello
<1>6. Join(asked).type = "join_room" /\ Join(asked).room = asked /\ Create.type = "create_room"
  BY DEF Join, Create
<1>7. CASE req.type = "hello"
  <2>1. down' = down \o <<hello, list>> /\ hubRoom' = hubRoom
    BY <1>2, <1>7
  <2> DEFINE t == Append(down, hello)
  <2>2. down' = Append(t, list)
    BY <1>3, <1>5, <2>1, TwoAppended
  <2>3. /\ t \in Seq(FineAnswers) /\ (No(down, Replying) => No(t, Replying))
        /\ \A x \in FineAnswers : OnlyOne(down, Replying, x) => OnlyOne(t, Replying, x)
    BY <1>3, <1>5, OtherWords
  <2> HIDE DEF t
  <2>4. /\ No(t, Replying) => No(down', Replying)
        /\ \A x \in FineAnswers : OnlyOne(t, Replying, x) => OnlyOne(down', Replying, x)
    BY <1>5, <2>2, <2>3, OtherWords
  <2>5. /\ OnlyOne(up, Asking, Join(asked)) => OnlyOne(up', Asking, Join(asked))
        /\ OnlyOne(up, Asking, Create) => OnlyOne(up', Asking, Create)
    BY <1>4, <1>6, <1>7 DEF Asking
  <2> QED
    BY <1>1, <1>4, <2>1, <2>3, <2>4, <2>5, WordsInStep
<1>8. CASE req.type \in Asking
  <2>1. CASE pc = "choose"
    <3>1. ~connected
      BY <1>1, <1>4, <1>8, <2>1 DEF InStep, Quiet
    <3> QED
      BY <1>1, <2>1, <3>1 DEF InStep, NothingGot
  <2>2. CASE pc = "loop"
    <3>1. session = Lan
      BY <1>1, <1>4, <1>8, <2>2 DEF InStep, Quiet
    <3> QED
      BY <1>1, <2>2, <3>1 DEF InStep
  <2>3. CASE pc \notin {"choose", "awaitJoin", "awaitCreate", "loop"}
    BY <1>1, <2>3, SameStep
  <2>4. CASE pc = "awaitJoin"
    <3>1. asked \in Rooms /\ session = NoRoom /\ met = {} /\ JoinUnderWay
      BY <1>1, <2>4 DEF InStep
    <3>2. /\ OnlyOne(up, Asking, Join(asked)) /\ No(down, Replying)
          /\ NothingGot /\ ~pending.error /\ hubRoom = NoRoom
      BY <1>4, <1>8, <3>1 DEF JoinUnderWay, Quiet
    <3>3. req = Join(asked) /\ No(up', Asking)
      BY <1>4, <1>8, <3>2
    <3>4. NothingGot' /\ ~pending'.error
      BY <1>1, <3>2 DEF NothingGot
    <3>5. CASE down' = Append(down, Refused) /\ hubRoom' = hubRoom
      <4>1. OnlyOne(down', Replying, Refused)
        BY <1>3, <3>2, <3>5, OneAppended, WordsAreFine
      <4> QED
        BY <1>1, <2>4, <3>1, <3>2, <3>3, <3>4, <3>5, <4>1 DEF InStep, JoinUnderWay
    <3>6. CASE down' = down \o <<Joined(asked), list>> /\ hubRoom' = asked
      <4> DEFINE j == Joined(asked)  t == Append(down, j)
      <4>1. j \in FineAnswers
        BY <3>1, WordsAreFine
      <4>2. down' = Append(t, list)
        BY <1>3, <1>5, <3>6, <4>1, TwoAppended
      <4> HIDE DEF j
      <4>3. t \in Seq(FineAnswers) /\ OnlyOne(t, Replying, j)
        BY <1>3, <3>2, <4>1, OneAppended, AppendShifts
      <4> HIDE DEF t
      <4>4. OnlyOne(down', Replying, j)
        BY <1>5, <4>1, <4>2, <4>3, OtherWords
      <4> QED
        BY <1>1, <2>4, <3>1, <3>2, <3>3, <3>4, <3>6, <4>4 DEF InStep, JoinUnderWay, j
    <3> QED
      BY <1>2, <1>6, <3>3, <3>5, <3>6
  <2>5. CASE pc = "awaitCreate"
    <3>1. session = NoRoom /\ met = {} /\ CreateUnderWay
      BY <1>1, <2>5 DEF InStep
    <3>2. OnlyOne(up, Asking, Create) /\ No(down, Replying) /\ NothingGot
      BY <1>4, <1>8, <3>1 DEF CreateUnderWay, Quiet
    <3>3. req = Create /\ No(up', Asking)
      BY <1>4, <1>8, <3>2
    <3>4. NothingGot'
      BY <1>1, <3>2 DEF NothingGot
    <3>5. down' = down \o <<Created, list>> /\ hubRoom' = Own
      BY <1>2, <1>6, <3>3
    <3> DEFINE t == Append(down, Created)
    <3>6. down' = Append(t, list)
      BY <1>3, <1>5, <3>5, WordsAreFine, TwoAppended
    <3>7. t \in Seq(FineAnswers) /\ OnlyOne(t, Replying, Created)
      BY <1>3, <3>2, WordsAreFine, OneAppended, AppendShifts
    <3> HIDE DEF t
    <3>8. OnlyOne(down', Replying, Created)
      BY <1>5, <3>6, <3>7, WordsAreFine, OtherWords
    <3> QED
      BY <1>1, <2>5, <3>1, <3>3, <3>4, <3>5, <3>8 DEF InStep, CreateUnderWay
  <2> QED
    BY <2>1, <2>2, <2>3, <2>4, <2>5
<1> QED
  BY <1>2, <1>7, <1>8 DEF Asking

LEMMA NextInStep == Inv /\ InStep /\ [Next]_vars => InStep'
<1> SUFFICES ASSUME Inv, InStep, [Next]_vars PROVE InStep'
  OBVIOUS
<1>1. CASE MainThread
  BY <1>1, WalkInStep, JoinRoomInStep, CreateRoomInStep, AwaitInStep DEF MainThread
<1>2. CASE Exit
  BY <1>2, WalkInStep
<1>3. CASE Receive
  BY <1>3, ReceiveInStep
<1>4. CASE EndReceiver \/ Break \/ UNCHANGED vars
  <2>1. /\ UNCHANGED <<pc, asked, session, met, pending, events, up, down, hubRoom, timedOut>>
        /\ link' \in {link, "broken"} /\ (connected' => connected)
    BY <1>4 DEF EndReceiver, Break, vars, appVars, clientVars, lockedVars, netVars, hubVars
  <2> QED
    BY <2>1, SameStep
<1>5. CASE Hub
  BY <1>5, HubHandleInStep, OthersInStep DEF Hub
<1> QED
  BY <1>1, <1>2, <1>3, <1>4, <1>5 DEF Next, ReceiverThread

\* For any rooms and number of lists: the session's room is the coordinator's, and
\* its peers are of that room, as long as no wait for an answer ran out of time.
THEOREM OneRoomForAll == Spec => []OneRoom
<1>1. Init => Inv /\ InStep
  BY InitInv DEF Init, InStep
<1>2. Inv /\ InStep /\ [Next]_vars => Inv' /\ InStep'
  BY NextInv, NextInStep
<1>3. Inv /\ InStep => OneRoom
  BY DEF Inv, InStep, NothingAsked, Early, OneRoom
<1> QED
  BY <1>1, <1>2, <1>3, PTL DEF Spec
=============================================================================
