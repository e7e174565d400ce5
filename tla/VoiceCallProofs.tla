-------------------------- MODULE VoiceCallProofs --------------------------
(***************************************************************************)
(* Theorems about the call, for any number of clients, any reachability,   *)
(* any limit of resent candidates and any number of frames.                *)
(***************************************************************************)
EXTENDS VoiceCall, FiniteSetTheorems, SequenceTheorems, TLAPS

USE PeersAssumption, OpensAssumption, LimitsAssumption, DropsAssumption
    DEF PeersAssumption, OpensAssumption, LimitsAssumption, DropsAssumption
----------------------------------------------------------------------------
(* Types. *)

Boxes == [Peers -> Seq(Event)]

\* A route table, as DirectTypeOK has it.
Table(rt) ==
    /\ DOMAIN rt = Peers
    /\ \A p \in Peers : DOMAIN rt[p] \in SUBSET Peers /\ rt[p] \in [DOMAIN rt[p] -> Route]

LEMMA NewRouteType == NewRoute \in Route
BY DEF NewRoute, Route

LEMMA ResendType ==
    ASSUME NEW rt \in Route, rt.resends < MaxResends
    PROVE  [rt EXCEPT !.resends = @ + 1] \in Route
<1> DEFINE n == rt.resends
<1>1. n \in 0..MaxResends /\ n < MaxResends
  BY DEF Route
<1> HIDE DEF n
<1>2. n + 1 \in 0..MaxResends
  BY <1>1
<1>3. QED
  BY <1>2 DEF Route, n

LEMMA RouteToType ==
    ASSUME DirectTypeOK, NEW p \in Peers, NEW q \in Peers
    PROVE  RouteTo(p, q) \in Route
BY NewRouteType DEF DirectTypeOK, RouteTo

\* A table in which one client's routes are replaced.
LEMMA TableType ==
    ASSUME DirectTypeOK, NEW p \in Peers, NEW D \in SUBSET Peers, NEW new \in [D -> Route],
           route' = [route EXCEPT ![p] = new]
    PROVE  /\ Table(route')
           /\ route'[p] = new
           /\ \A x \in Peers \ {p} : route'[x] = route[x]
BY DEF DirectTypeOK, Table

LEMMA WithRouteType ==
    ASSUME DirectTypeOK, NEW p \in Peers, NEW q \in Peers, NEW rt \in Route,
           route' = WithRoute(p, q, rt)
    PROVE  /\ Table(route')
           /\ DOMAIN route'[p] = DOMAIN route[p] \cup {q}
           /\ route'[p][q] = rt
           /\ \A x \in DOMAIN route[p] \ {q} : route'[p][x] = route[p][x]
           /\ \A x \in Peers \ {p} : route'[x] = route[x]
<1> DEFINE D == DOMAIN route[p] \cup {q}
           new == [x \in D |-> IF x = q THEN rt ELSE route[p][x]]
<1>1. D \in SUBSET Peers /\ new \in [D -> Route]
  BY DEF DirectTypeOK
<1>2. route' = [route EXCEPT ![p] = new]
  BY DEF WithRoute, DirectTypeOK
<1>3. Table(route') /\ route'[p] = new /\ \A x \in Peers \ {p} : route'[x] = route[x]
  <2> HIDE DEF new, D
  <2>1. QED
    BY <1>1, <1>2, TableType
<1>4. QED
  BY <1>3

LEMMA SentType ==
    ASSUME NEW p \in Peers, NEW q \in Peers, NEW rt, NEW type \in {"ping", "voice"},
           NEW s \in 0..MaxSeq
    PROVE  /\ Sent(p, q, rt, type, s) \in SUBSET Packet
           /\ \A pkt \in Sent(p, q, rt, type, s) : pkt.from = p /\ pkt.to = q
BY DEF Sent, Packet

LEMMA PingType ==
    ASSUME NEW p \in Peers, NEW q \in Peers, NEW rt
    PROVE  /\ Sent(p, q, rt, "ping", 0) \in SUBSET Packet
           /\ \A pkt \in Sent(p, q, rt, "ping", 0) : pkt.from = p /\ pkt.to = q
BY DEF Sent, Packet

LEMMA EventTypes ==
    /\ \A S \in SUBSET Peers : [type |-> "joined_room", peers |-> S] \in Event
    /\ \A type \in {"peer_joined", "peer_left", "peer_status"} \cup SignalTypes, q \in Peers :
          [type |-> type, from |-> q] \in Event
    /\ \A q \in Peers, s \in 1..MaxSeq : [type |-> "voice_frame", from |-> q, seq |-> s] \in Event
BY DEF Event

LEMMA ToldType ==
    ASSUME NEW boxes \in Boxes, NEW Q, NEW ev \in Event
    PROVE  Told(boxes, Q, ev) \in Boxes
BY DEF Told, Boxes

LEMMA RestType ==
    ASSUME TypeOK, NEW p \in Peers, inbox[p] # <<>>
    PROVE  Rest(p) \in Boxes /\ Head(inbox[p]) \in Event
BY HeadTailProperties DEF TypeOK, Rest, Boxes

LEMMA DroppedType ==
    ASSUME TypeOK, NEW D \in SUBSET Peers, Dropped(D)
    PROVE  drops' \in 0..MaxDrops
<1>1. IsFiniteSet(Peers)
  OBVIOUS
<1>2. Cardinality(D) \in Nat
  BY <1>1, FS_Subset, FS_CardinalityType
<1>3. QED
  BY <1>2 DEF TypeOK, Dropped

LEMMA SignalType ==
    ASSUME TypeOK, NEW boxes \in Boxes, NEW p \in Peers, NEW Q \in SUBSET Peers,
           NEW type \in SignalTypes, Signal(boxes, p, Q, type)
    PROVE  inbox' \in Boxes /\ drops' \in 0..MaxDrops
<1> DEFINE heard == IF online[p] /\ p \in member THEN Q \cap member ELSE {}
<1>1. PICK D \in SUBSET heard : /\ Dropped(D)
                                /\ inbox' = Told(boxes, heard \ D, [type |-> type, from |-> p])
  BY DEF Signal
<1>2. drops' \in 0..MaxDrops
  BY <1>1, DroppedType
<1>3. QED
  BY <1>1, <1>2, ToldType, EventTypes

\* TypeOK with the part of the transport taken out of DirectTypeOK.
LEMMA TypeParts ==
    TypeOK <=> /\ running \in [Peers -> BOOLEAN]
               /\ Table(route)
               /\ net \in SUBSET Packet
               /\ phase \in [Peers -> {"out", "starting", "on", "gone"}]
               /\ online \in [Peers -> BOOLEAN]
               /\ member \in SUBSET Peers
               /\ session \in [Peers -> SUBSET Peers]
               /\ inbox \in Boxes
               /\ seq \in [Peers -> 0..MaxSeq]
               /\ last \in [Peers -> [Peers -> 0..MaxSeq]]
               /\ played \in [Peers -> [Peers -> Seq(1..MaxSeq)]]
               /\ drops \in 0..MaxDrops
               /\ missed \in [Peers -> SUBSET Peers]
BY DEF TypeOK, DirectTypeOK, Table, Boxes

LEMMA TypePartsNext ==
    ASSUME running' \in [Peers -> BOOLEAN], Table(route'), net' \in SUBSET Packet,
           phase' \in [Peers -> {"out", "starting", "on", "gone"}],
           online' \in [Peers -> BOOLEAN], member' \in SUBSET Peers,
           session' \in [Peers -> SUBSET Peers], inbox' \in Boxes,
           seq' \in [Peers -> 0..MaxSeq], last' \in [Peers -> [Peers -> 0..MaxSeq]],
           played' \in [Peers -> [Peers -> Seq(1..MaxSeq)]], drops' \in 0..MaxDrops,
           missed' \in [Peers -> SUBSET Peers]
    PROVE  TypeOK'
BY DEF TypeOK, DirectTypeOK, Table, Boxes

LEMMA InitType == Init => TypeOK
<1> SUFFICES ASSUME Init PROVE TypeOK
  OBVIOUS
<1>1. Table(route)
  BY DEF Init, DirectInit, Table
<1>2. inbox \in Boxes
  BY DEF Init, Boxes
<1>3. /\ last \in [Peers -> [Peers -> 0..MaxSeq]]
      /\ played \in [Peers -> [Peers -> Seq(1..MaxSeq)]]
      /\ seq \in [Peers -> 0..MaxSeq]
  BY DEF Init
<1>4. QED
  BY <1>1, <1>2, <1>3, TypeParts DEF Init, DirectInit

LEMMA EnsureType ==
    ASSUME DirectTypeOK, NEW p \in Peers, NEW Q \in SUBSET Peers, EnsurePeers(p, Q)
    PROVE  /\ Table(route')
           /\ DOMAIN route'[p] = DOMAIN route[p] \cup (IF running[p] THEN Q \ {p} ELSE {})
           /\ \A q \in DOMAIN route'[p] :
                 route'[p][q] = IF q \in OffersTo(p, Q) THEN [RouteTo(p, q) EXCEPT !.offerSent = TRUE]
                                ELSE RouteTo(p, q)
           /\ \A x \in Peers \ {p} : route'[x] = route[x]
<1> DEFINE D == DOMAIN route[p] \cup (IF running[p] THEN Q \ {p} ELSE {})
           new == [q \in D |->
                    IF q \in OffersTo(p, Q) THEN [RouteTo(p, q) EXCEPT !.offerSent = TRUE]
                    ELSE RouteTo(p, q)]
<1>1. D \in SUBSET Peers
  BY DEF DirectTypeOK
<1>2. \A q \in D : RouteTo(p, q) \in Route /\ [RouteTo(p, q) EXCEPT !.offerSent = TRUE] \in Route
  BY <1>1, RouteToType DEF Route
<1>3. new \in [D -> Route]
  BY <1>2
<1>4. route' = [route EXCEPT ![p] = new]
  BY DEF EnsurePeers, DirectTypeOK
<1>5. Table(route') /\ route'[p] = new /\ \A x \in Peers \ {p} : route'[x] = route[x]
  <2> HIDE DEF new, D
  <2>1. QED
    BY <1>1, <1>3, <1>4, TableType
<1>6. QED
  BY <1>5

LEMMA RemoveType ==
    ASSUME DirectTypeOK, NEW p \in Peers, NEW q \in Peers, RemovePeer(p, q)
    PROVE  /\ Table(route')
           /\ DOMAIN route'[p] = DOMAIN route[p] \ {q}
           /\ \A x \in DOMAIN route'[p] : route'[p][x] = route[p][x]
           /\ \A x \in Peers \ {p} : route'[x] = route[x]
<1> DEFINE D == DOMAIN route[p] \ {q}
           new == [x \in D |-> route[p][x]]
<1>1. D \in SUBSET Peers /\ new \in [D -> Route]
  BY DEF DirectTypeOK
<1>2. route' = [route EXCEPT ![p] = new]
  BY DEF RemovePeer, DirectTypeOK
<1>3. Table(route') /\ route'[p] = new /\ \A x \in Peers \ {p} : route'[x] = route[x]
  <2> HIDE DEF new, D
  <2>1. QED
    BY <1>1, <1>2, TableType
<1>4. QED
  BY <1>3

LEMMA StopType ==
    ASSUME DirectTypeOK, NEW p \in Peers, StopTransport(p)
    PROVE  /\ Table(route')
           /\ DOMAIN route'[p] = {}
           /\ \A x \in Peers \ {p} : route'[x] = route[x]
<1> DEFINE new == [q \in {} |-> NewRoute]
<1>1. new \in [{} -> Route]
  OBVIOUS
<1>2. DOMAIN new = {}
  OBVIOUS
<1> HIDE DEF new
<1>3. route' = [route EXCEPT ![p] = new]
  BY DEF StopTransport, new
<1>4. QED
  BY <1>1, <1>2, <1>3, TableType

\* The type of the history that PlayRemoteFrame keeps.
LEMMA PlayType ==
    ASSUME TypeOK, NEW p \in Peers, NEW q \in Peers, NEW s \in 1..MaxSeq, PlayRemoteFrame(p, q, s)
    PROVE  /\ last' \in [Peers -> [Peers -> 0..MaxSeq]]
           /\ played' \in [Peers -> [Peers -> Seq(1..MaxSeq)]]
<1>1. s \in 0..MaxSeq
  OBVIOUS
<1>2. Append(played[p][q], s) \in Seq(1..MaxSeq)
  BY DEF TypeOK
<1>3. [last[p] EXCEPT ![q] = s] \in [Peers -> 0..MaxSeq]
  BY <1>1 DEF TypeOK
<1>4. [played[p] EXCEPT ![q] = Append(@, s)] \in [Peers -> Seq(1..MaxSeq)]
  BY <1>2 DEF TypeOK
<1>5. CASE s > last[p][q]
  <2>1. last' = [last EXCEPT ![p] = [last[p] EXCEPT ![q] = s]]
    BY <1>5 DEF TypeOK, PlayRemoteFrame
  <2>2. played' = [played EXCEPT ![p] = [played[p] EXCEPT ![q] = Append(@, s)]]
    BY <1>5 DEF TypeOK, PlayRemoteFrame
  <2>3. QED
    BY <1>3, <1>4, <2>1, <2>2 DEF TypeOK
<1>6. CASE ~(s > last[p][q])
  BY <1>6 DEF TypeOK, PlayRemoteFrame
<1>7. QED
  BY <1>5, <1>6

LEMMA MeetType ==
    ASSUME TypeOK, NEW p \in Peers, NEW Q \in SUBSET Peers, inbox[p] # <<>>, Meet(p, Q)
    PROVE  TypeOK'
<1>1. Rest(p) \in Boxes
  BY RestType
<1>2. inbox' \in Boxes /\ drops' \in 0..MaxDrops
  BY <1>1, SignalType DEF Meet, OffersTo, SignalTypes
<1>3. Table(route')
  BY EnsureType DEF Meet, TypeOK
<1>4. session' \in [Peers -> SUBSET Peers]
  BY DEF Meet, TypeOK
<1>5. QED
  BY <1>2, <1>3, <1>4, TypeParts, TypePartsNext DEF Meet, voiceVars

LEMMA StepType == TypeOK /\ [Next]_vars => TypeOK'
<1> SUFFICES ASSUME TypeOK, [Next]_vars PROVE TypeOK'
  OBVIOUS
<1> USE TypeParts, TypePartsNext DEF directVars, callVars, voiceVars, lossVars
<1>1. ASSUME NEW p \in Peers, Enter(p) PROVE TypeOK'
  <2>1. PICK D \in SUBSET member :
            /\ Dropped(D)
            /\ missed' = [q \in Peers |-> missed[q] \cup {x \in {p} : q \in D}]
            /\ inbox' = [Told(inbox, member \ D, [type |-> "peer_joined", from |-> p])
                            EXCEPT ![p] = <<[type |-> "joined_room", peers |-> member]>>]
    BY <1>1 DEF Enter
  <2>2. Told(inbox, member \ D, [type |-> "peer_joined", from |-> p]) \in Boxes
    BY ToldType, EventTypes
  <2>3. <<[type |-> "joined_room", peers |-> member]>> \in Seq(Event)
    BY EventTypes
  <2>4. inbox' \in Boxes
    BY <2>1, <2>2, <2>3 DEF Boxes
  <2>5. drops' \in 0..MaxDrops /\ missed' \in [Peers -> SUBSET Peers]
    BY <2>1, DroppedType
  <2>6. QED
    BY <1>1, <2>4, <2>5 DEF Enter
<1>2. ASSUME NEW p \in Peers, LoseConnection(p) PROVE TypeOK'
  <2>1. PICK n \in 0..Len(inbox[p]) : inbox' = [inbox EXCEPT ![p] = SubSeq(@, 1, n)]
    BY <1>2 DEF LoseConnection
  <2>2. inbox[p] \in Seq(Event)
    BY DEF Boxes
  <2>3. SubSeq(inbox[p], 1, n) \in Seq(Event)
    BY <2>2
  <2>4. inbox' \in Boxes
    BY <2>1, <2>3 DEF Boxes
  <2>5. QED
    BY <1>2, <2>4 DEF LoseConnection
<1>3. ASSUME NEW p \in Peers, RemoveClient(p) PROVE TypeOK'
  <2>1. PICK D \in SUBSET member' :
            /\ Dropped(D)
            /\ inbox' = Told(inbox, member' \ D, [type |-> "peer_left", from |-> p])
    BY <1>3 DEF RemoveClient
  <2>2. member' \in SUBSET Peers
    BY <1>3 DEF RemoveClient
  <2>3. inbox' \in Boxes
    BY <2>1, ToldType, EventTypes
  <2>4. drops' \in 0..MaxDrops
    BY <2>1, <2>2, DroppedType
  <2>5. QED
    BY <1>3, <2>2, <2>3, <2>4 DEF RemoveClient
<1>4. ASSUME NEW p \in Peers, Start(p) PROVE TypeOK'
  BY <1>4 DEF Start, StartTransport
<1>5. ASSUME NEW p \in Peers, Close(p) PROVE TypeOK'
  <2>1. Table(route')
    BY <1>5, StopType DEF Close, TypeOK
  <2>2. inbox' \in Boxes
    BY <1>5 DEF Close, Boxes
  <2>3. QED
    BY <1>5, <2>1, <2>2 DEF Close, StopTransport
<1>6. ASSUME NEW p \in Peers, HandleJoinedRoom(p) PROVE TypeOK'
  <2>1. Head(inbox[p]).peers \in SUBSET Peers
    BY <1>6, RestType DEF HandleJoinedRoom, Due, Event, SignalTypes
  <2>2. QED
    BY <1>6, <2>1, MeetType DEF HandleJoinedRoom, Due
<1>7. ASSUME NEW p \in Peers, HandlePeerJoined(p) PROVE TypeOK'
  <2>1. {Head(inbox[p]).from} \in SUBSET Peers
    BY <1>7, RestType DEF HandlePeerJoined, Due, Event, SignalTypes
  <2>2. QED
    BY <1>7, <2>1, MeetType DEF HandlePeerJoined, Due
<1>8. ASSUME NEW p \in Peers, HandlePeerLeft(p) PROVE TypeOK'
  <2>1. Head(inbox[p]).from \in Peers /\ Rest(p) \in Boxes
    BY <1>8, RestType DEF HandlePeerLeft, Due, Event, SignalTypes
  <2>2. Table(route')
    BY <1>8, <2>1, RemoveType DEF HandlePeerLeft, TypeOK
  <2>3. missed' \in [Peers -> SUBSET Peers]
    BY <1>8 DEF HandlePeerLeft
  <2>4. QED
    BY <1>8, <2>1, <2>2, <2>3 DEF HandlePeerLeft
<1>9. ASSUME NEW p \in Peers, HandleIce(p) PROVE TypeOK'
  <2> DEFINE q == Head(inbox[p]).from
             type == Head(inbox[p]).type
             rt == [RouteTo(p, q) EXCEPT !.cands = TRUE, !.answerSent = @ \/ Answers(p, q, type)]
  <2>1. q \in Peers /\ Rest(p) \in Boxes
    BY <1>9, RestType DEF HandleIce, Due, Event, SignalTypes
  <2>2. inbox' \in Boxes /\ drops' \in 0..MaxDrops
    <3>1. (IF Answers(p, q, type) THEN {q} ELSE {}) \in SUBSET Peers
      BY <2>1
    <3>2. QED
      BY <1>9, <2>1, <3>1, SignalType DEF HandleIce, SignalTypes
  <2>3. rt \in Route
    <3>1. RouteTo(p, q) \in Route
      BY <2>1, RouteToType DEF TypeOK
    <3>2. Answers(p, q, type) \in BOOLEAN
      BY <3>1, <2>1 DEF Answers, Route
    <3> HIDE DEF q, type
    <3>3. QED
      BY <3>1, <3>2 DEF Route
  <2>4. Table(route') /\ net' \in SUBSET Packet
    <3>1. CASE running[p]
      <4>1. route' = WithRoute(p, q, rt) /\ net' = net \cup Sent(p, q, rt, "ping", 0)
        <5>1. HandleSignal(p, q, type)
          BY <1>9 DEF HandleIce
        <5> HIDE DEF q, type
        <5>2. QED
          BY <5>1, <3>1 DEF HandleSignal
      <4>2. Sent(p, q, rt, "ping", 0) \in SUBSET Packet
        <5> HIDE DEF rt, q
        <5>1. QED
          BY <2>1, PingType
      <4> HIDE DEF rt, q
      <4>3. QED
        BY <2>1, <2>3, <4>1, <4>2, WithRouteType DEF TypeOK
    <3>2. CASE ~running[p]
      BY <1>9, <3>2 DEF HandleIce, HandleSignal
    <3>3. QED
      BY <3>1, <3>2
  <2>5. QED
    BY <1>9, <2>2, <2>4 DEF HandleIce
<1>10. ASSUME NEW p \in Peers, HandleVoiceFrame(p) PROVE TypeOK'
  <2>1. /\ Head(inbox[p]).from \in Peers /\ Head(inbox[p]).seq \in 1..MaxSeq
        /\ Rest(p) \in Boxes
    BY <1>10, RestType DEF HandleVoiceFrame, Due, Event, SignalTypes
  <2>2. /\ last' \in [Peers -> [Peers -> 0..MaxSeq]]
        /\ played' \in [Peers -> [Peers -> Seq(1..MaxSeq)]]
    BY <1>10, <2>1, PlayType DEF HandleVoiceFrame
  <2>3. QED
    BY <1>10, <2>1, <2>2 DEF HandleVoiceFrame
<1>11. ASSUME NEW p \in Peers, Talk(p) PROVE TypeOK'
  <2>1. seq' \in [Peers -> 0..MaxSeq] /\ seq'[p] \in 1..MaxSeq
    BY <1>11 DEF Talk
  <2>2. [type |-> "voice_frame", from |-> p, seq |-> seq'[p]] \in Event
    BY <2>1, EventTypes
  <2>3. inbox' \in Boxes
    BY <1>11, <2>2, ToldType DEF Talk
  <2>4. net' \in SUBSET Packet
    <3>1. \A q \in DOMAIN route[p] : Sent(p, q, route[p][q], "voice", seq'[p]) \in SUBSET Packet
      BY <2>1, SentType DEF Table
    <3>2. net' = net \cup (IF running[p]
                           THEN UNION {Sent(p, q, route[p][q], "voice", seq'[p]) : q \in DOMAIN route[p]}
                           ELSE {})
      BY <1>11 DEF Talk, SendVoiceFrame
    <3>3. QED
      BY <3>1, <3>2
  <2>5. QED
    BY <1>11, <2>1, <2>3, <2>4 DEF Talk
<1>12. ASSUME NEW p \in Peers, NEW q \in Peers, ResendCandidates(p, q) PROVE TypeOK'
  <2>1. inbox' \in Boxes /\ drops' \in 0..MaxDrops
    BY <1>12, SignalType DEF ResendCandidates, SignalTypes
  <2>2. Table(route')
    <3> DEFINE new == [route[p] EXCEPT ![q].resends = @ + 1]
    <3>1. q \in DOMAIN route[p] /\ route[p][q] \in Route /\ route[p][q].resends < MaxResends
      BY <1>12 DEF ResendCandidates, Resend, Table
    <3>2. [route[p][q] EXCEPT !.resends = @ + 1] \in Route
      BY <3>1, ResendType
    <3>3. new \in [DOMAIN route[p] -> Route] /\ DOMAIN route[p] \in SUBSET Peers
      BY <3>1, <3>2 DEF Table
    <3>4. route' = [route EXCEPT ![p] = new]
      BY <1>12 DEF ResendCandidates, Resend, Table
    <3> HIDE DEF new
    <3>5. QED
      BY <3>3, <3>4, TableType DEF TypeOK
  <2>3. QED
    BY <1>12, <2>1, <2>2 DEF ResendCandidates, Resend
<1>13. ASSUME NEW p \in Peers, NEW q \in Peers, PingPeer(p, q) PROVE TypeOK'
  <2>1. net' \in SUBSET Packet
    BY <1>13, PingType DEF PingPeer, Ping
  <2>2. QED
    BY <1>13, <2>1 DEF PingPeer, Ping
<1>14. ASSUME NEW pkt \in net, ReceivePacket(pkt.to, pkt) PROVE TypeOK'
  <2> DEFINE p == pkt.to
             q == pkt.from
             rt == [RouteTo(p, q) EXCEPT !.heard = TRUE,
                                         !.last = IF Accepts(p, pkt) THEN pkt.seq ELSE @]
  <2>1. /\ p \in Peers /\ q \in Peers /\ pkt.seq \in 0..MaxSeq
        /\ pkt.type \in {"ping", "voice"}
    BY DEF Packet
  <2>2. RouteTo(p, q) \in Route
    BY <2>1, RouteToType DEF TypeOK
  <2>3. rt \in Route
    BY <2>1, <2>2 DEF Route
  <2>4. Table(route')
    <3>1. route' = WithRoute(p, q, rt)
      BY <1>14 DEF ReceivePacket, Receive
    <3> HIDE DEF rt
    <3>2. QED
      BY <2>1, <2>3, <3>1, WithRouteType DEF TypeOK
  <2>5. /\ last' \in [Peers -> [Peers -> 0..MaxSeq]]
        /\ played' \in [Peers -> [Peers -> Seq(1..MaxSeq)]]
    <3>1. Accepts(p, pkt) => pkt.seq \in 1..MaxSeq
      BY <2>1, <2>2 DEF Accepts, Route
    <3>2. QED
      BY <1>14, <2>1, <3>1, PlayType DEF ReceivePacket
  <2>6. QED
    BY <1>14, <2>4, <2>5 DEF ReceivePacket, Receive
<1>15. ASSUME NEW pkt \in net, LosePacket(pkt) PROVE TypeOK'
  BY <1>15 DEF LosePacket, Lose
<1>16. ASSUME NEW p \in Peers, NEW q \in Peers, Forget(p, q) PROVE TypeOK'
  <2>1. last' \in [Peers -> [Peers -> 0..MaxSeq]]
    BY <1>16 DEF Forget
  <2>2. QED
    BY <1>16, <2>1 DEF Forget
<1>17. ASSUME NEW p \in Peers, HandlePeerStatus(p) PROVE TypeOK'
  <2>1. Head(inbox[p]).from \in Peers /\ Rest(p) \in Boxes
    BY <1>17, RestType DEF HandlePeerStatus, Due, Event, SignalTypes
  <2>2. session' \in [Peers -> SUBSET Peers]
    BY <1>17, <2>1 DEF HandlePeerStatus
  <2>3. QED
    BY <1>17, <2>1, <2>2 DEF HandlePeerStatus
<1>18. ASSUME NEW p \in Peers, BroadcastStatus(p) PROVE TypeOK'
  <2>1. inbox' \in Boxes
    BY <1>18, ToldType, EventTypes DEF BroadcastStatus
  <2>2. QED
    BY <1>18, <2>1 DEF BroadcastStatus
<1>19. CASE UNCHANGED vars
  BY <1>19 DEF vars
<1>20. QED
  BY <1>1, <1>2, <1>3, <1>4, <1>5, <1>6, <1>7, <1>8, <1>9, <1>10, <1>11, <1>12, <1>13,
     <1>14, <1>15, <1>16, <1>17, <1>18, <1>19 DEF Next, HandleEvent, AllGone

\* Everything that the clients of a call keep, and every event and packet
\* under way, has its type in every reachable state.
THEOREM TypeCorrect == Spec => []TypeOK
<1>1. Init => TypeOK
  BY InitType
<1>2. TypeOK /\ [Next]_vars => TypeOK'
  BY StepType
<1>3. QED
  BY <1>1, <1>2, PTL DEF Spec
----------------------------------------------------------------------------
(* The inductive invariant.                                                *)
(*                                                                         *)
(* RoutesFollowTheSession is not inductive: handling a signal of q makes a *)
(* route to q.  Why q is then a peer of the session is a matter of what is *)
(* in the inbox before the signal, and the coordinator can promise that    *)
(* order because whoever is a member was introduced to the other members,  *)
(* or its introduction was dropped and missed has it.                      *)

\* Whom a client was told of, or would have been but for a full channel.
Met == [p \in Peers |-> session[p] \cup missed[p]]

\* What one client says to the others by way of the coordinator.
RelayTypes == SignalTypes \cup {"peer_status"}

Introduces(ev, q) ==
    \/ ev.type = "joined_room" /\ q \in ev.peers
    \/ ev.type = "peer_joined" /\ q = ev.from

Removes(ev, q) == ev.type = "peer_left" /\ q = ev.from

\* When the first n events of box are handled, q is among those met, now S.
Known(box, S, q, n) ==
    /\ q \in S \/ \E j \in 1..n : Introduces(box[j], q)
    /\ \A j \in 1..n : ~Removes(box[j], q)

\* Every signal and status in the box of p is from another peer, known by then.
Ordered(box, S, p) ==
    \A i \in 1..Len(box) :
        box[i].type \in RelayTypes => box[i].from # p /\ Known(box, S, box[i].from, i - 1)

Phases ==
    \A p \in Peers :
        /\ phase[p] \in {"out", "starting"} => session[p] = {} /\ DOMAIN route[p] = {}
        /\ phase[p] = "out" => p \notin member /\ ~online[p]
        /\ running[p] => phase[p] = "on"
        /\ online[p] => p \in member

NoSelf ==
    /\ \A p \in Peers : p \notin DOMAIN route[p]
    /\ \A pkt \in net : pkt.from # pkt.to

\* What the coordinator promises of the boxes.
Promises(boxes, met) ==
    /\ \A p \in Peers : Ordered(boxes[p], met[p], p)
    /\ \A p, q \in member : p # q /\ online[p] => Known(boxes[p], met[p], q, Len(boxes[p]))
    /\ \A p \in Peers : \A i \in 1..Len(boxes[p]) : \A q \in Peers :
          Removes(boxes[p][i], q) => q \notin member /\ phase[q] # "out"

CallInv == Phases /\ NoSelf /\ Promises(inbox, Met) /\ RoutesFollowTheSession
----------------------------------------------------------------------------
(* What appending, handling and losing events does to one box. *)

LEMMA KnownOnAppend ==
    ASSUME NEW box \in Seq(Event), NEW ev \in Event, NEW S, NEW q,
           Known(box, S, q, Len(box))
    PROVE  /\ Known(Append(box, ev), S, q, Len(box))
           /\ ~Removes(ev, q) => Known(Append(box, ev), S, q, Len(Append(box, ev)))
<1>1. /\ Len(Append(box, ev)) = Len(box) + 1
      /\ \A j \in 1..Len(box) : Append(box, ev)[j] = box[j]
      /\ Append(box, ev)[Len(box) + 1] = ev
      /\ Len(box) \in Nat
  OBVIOUS
<1>2. Known(Append(box, ev), S, q, Len(box))
  BY <1>1 DEF Known
<1>3. QED
  BY <1>1, <1>2 DEF Known

\* The one who joins is introduced by the event itself.
LEMMA KnownOnIntroduction ==
    ASSUME NEW box \in Seq(Event), NEW ev \in Event, NEW S, NEW q, Introduces(ev, q),
           \A j \in 1..Len(box) : ~Removes(box[j], q)
    PROVE  Known(Append(box, ev), S, q, Len(Append(box, ev)))
<1>1. /\ Len(Append(box, ev)) = Len(box) + 1
      /\ \A j \in 1..Len(box) : Append(box, ev)[j] = box[j]
      /\ Append(box, ev)[Len(box) + 1] = ev
      /\ Len(box) \in Nat
  OBVIOUS
<1>2. ~Removes(ev, q)
  BY DEF Introduces, Removes
<1>3. QED
  BY <1>1, <1>2 DEF Known

LEMMA OrderedOnAppend ==
    ASSUME NEW box \in Seq(Event), NEW ev \in Event, NEW S, NEW p, Ordered(box, S, p),
           ev.type \in RelayTypes => ev.from # p /\ Known(box, S, ev.from, Len(box))
    PROVE  Ordered(Append(box, ev), S, p)
<1>1. /\ Len(Append(box, ev)) = Len(box) + 1
      /\ \A j \in 1..Len(box) : Append(box, ev)[j] = box[j]
      /\ Append(box, ev)[Len(box) + 1] = ev
      /\ Len(box) \in Nat
  OBVIOUS
<1> DEFINE new == Append(box, ev)
<1>2. ASSUME NEW i \in 1..Len(new), new[i].type \in RelayTypes
      PROVE  new[i].from # p /\ Known(new, S, new[i].from, i - 1)
  <2>1. CASE i \in 1..Len(box)
    BY <1>1, <1>2, <2>1 DEF Ordered, Known
  <2>2. CASE i = Len(box) + 1
    BY <1>1, <1>2, <2>2 DEF Known
  <2>3. QED
    BY <1>1, <2>1, <2>2
<1>3. QED
  BY <1>2 DEF Ordered

LEMMA OrderedOnPrefix ==
    ASSUME NEW box \in Seq(Event), NEW n \in 0..Len(box), NEW S, NEW p, Ordered(box, S, p)
    PROVE  /\ Ordered(SubSeq(box, 1, n), S, p)
           /\ Len(SubSeq(box, 1, n)) = n
           /\ \A i \in 1..n : SubSeq(box, 1, n)[i] = box[i]
<1>1. /\ Len(SubSeq(box, 1, n)) = n
      /\ \A i \in 1..n : SubSeq(box, 1, n)[i] = box[i]
  OBVIOUS
<1>2. QED
  BY <1>1 DEF Ordered, Known

\* T are those met when the first event of the box is handled.
LEMMA HandledBox ==
    ASSUME NEW box \in Seq(Event), box # <<>>, NEW S, NEW T, NEW p, Ordered(box, S, p),
           \A q : q # p /\ (q \in S \/ Introduces(box[1], q)) /\ ~Removes(box[1], q) => q \in T
    PROVE  /\ Ordered(Tail(box), T, p)
           /\ \A q : q # p /\ Known(box, S, q, Len(box)) => Known(Tail(box), T, q, Len(Tail(box)))
<1>1. /\ Len(box) \in Nat \ {0}
      /\ Len(Tail(box)) = Len(box) - 1
      /\ \A j \in 1..Len(Tail(box)) : Tail(box)[j] = box[j + 1]
  OBVIOUS
<1>2. ASSUME NEW q, NEW n \in 1..Len(box), q # p, Known(box, S, q, n)
      PROVE  Known(Tail(box), T, q, n - 1)
  <2>1. ASSUME NEW j \in 1..(n - 1) PROVE ~Removes(Tail(box)[j], q)
    BY <1>1, <1>2 DEF Known
  <2>2. CASE q \in S \/ Introduces(box[1], q)
    BY <1>1, <1>2, <2>1, <2>2 DEF Known
  <2>3. CASE \E j \in 2..n : Introduces(box[j], q)
    <3>1. PICK j \in 2..n : Introduces(box[j], q)
      BY <2>3
    <3>2. j - 1 \in 1..(n - 1) /\ Introduces(Tail(box)[j - 1], q)
      BY <1>1, <3>1
    <3>3. QED
      BY <2>1, <3>2 DEF Known
  <2>4. QED
    BY <1>2, <2>2, <2>3 DEF Known
<1>3. ASSUME NEW i \in 1..Len(Tail(box)), Tail(box)[i].type \in RelayTypes
      PROVE  Tail(box)[i].from # p /\ Known(Tail(box), T, Tail(box)[i].from, i - 1)
  <2>1. i + 1 \in 1..Len(box) /\ Tail(box)[i] = box[i + 1]
    BY <1>1
  <2>2. box[i + 1].from # p /\ Known(box, S, box[i + 1].from, (i + 1) - 1)
    BY <1>3, <2>1 DEF Ordered
  <2>3. (i + 1) - 1 = i /\ i \in 1..Len(box)
    BY <1>1
  <2>4. Known(box, S, box[i + 1].from, i)
    BY <2>2, <2>3
  <2>5. QED
    BY <1>2, <2>1, <2>2, <2>3, <2>4
<1>4. QED
  BY <1>1, <1>2, <1>3 DEF Ordered
----------------------------------------------------------------------------
(* The coordinator keeps its promises. *)

\* A frame, or a signal or status from one member to others, reaches some boxes.
LEMMA ToldKeeps ==
    ASSUME NEW boxes \in Boxes, NEW met, NEW Q, NEW ev \in Event, Promises(boxes, met),
           member \subseteq Peers,
           ev.type \in RelayTypes \cup {"voice_frame"},
           ev.type \in RelayTypes => ev.from \in member /\ ev.from \notin Q /\ Q \subseteq member
    PROVE  Promises(Told(boxes, Q, ev), met)
<1> DEFINE told == Told(boxes, Q, ev)
<1>1. \A x \in Peers : /\ boxes[x] \in Seq(Event)
                        /\ told[x] = IF x \in Q /\ online[x] THEN Append(boxes[x], ev) ELSE boxes[x]
  BY DEF Told, Boxes
<1>2. \A q : ~Removes(ev, q)
  BY DEF Removes, RelayTypes, SignalTypes
<1>3. ASSUME NEW x \in Peers PROVE Ordered(told[x], met[x], x)
  <2>1. Ordered(boxes[x], met[x], x)
    BY DEF Promises
  <2>2. CASE x \in Q /\ online[x]
    <3>1. ev.type \in RelayTypes =>
              ev.from # x /\ Known(boxes[x], met[x], ev.from, Len(boxes[x]))
      BY <2>2 DEF Promises
    <3>2. QED
      BY <1>1, <2>1, <2>2, <3>1, OrderedOnAppend
  <2>3. QED
    BY <1>1, <2>1, <2>2
<1>4. ASSUME NEW x \in Peers, NEW q, Known(boxes[x], met[x], q, Len(boxes[x]))
      PROVE  Known(told[x], met[x], q, Len(told[x]))
  BY <1>1, <1>2, <1>4, KnownOnAppend
<1>5. ASSUME NEW x \in Peers, NEW i \in 1..Len(told[x]), NEW q \in Peers, Removes(told[x][i], q)
      PROVE  q \notin member /\ phase[q] # "out"
  <2>1. CASE x \in Q /\ online[x]
    <3>1. /\ Len(told[x]) = Len(boxes[x]) + 1
          /\ \A j \in 1..Len(boxes[x]) : told[x][j] = boxes[x][j]
          /\ told[x][Len(boxes[x]) + 1] = ev
          /\ Len(boxes[x]) \in Nat
      <4>1. told[x] = Append(boxes[x], ev) /\ boxes[x] \in Seq(Event)
        BY <1>1, <2>1
      <4> HIDE DEF told
      <4>2. QED
        BY <4>1
    <3>2. i \in 1..Len(boxes[x]) /\ told[x][i] = boxes[x][i]
      <4>1. i \in 1..(Len(boxes[x]) + 1)
        BY <3>1
      <4>2. i # Len(boxes[x]) + 1
        BY <1>2, <1>5, <3>1
      <4>3. QED
        BY <3>1, <4>1, <4>2
    <3>3. QED
      BY <1>5, <3>2 DEF Promises
  <2>2. QED
    BY <1>1, <1>5, <2>1 DEF Promises
<1> HIDE DEF told
<1>6. Promises(told, met)
  BY <1>3, <1>4, <1>5 DEF Promises
<1>7. QED
  BY <1>6 DEF told

LEMMA SignalKeeps ==
    ASSUME TypeOK, NEW boxes \in Boxes, NEW p \in Peers, NEW Q \in SUBSET Peers, p \notin Q,
           NEW type \in SignalTypes, Signal(boxes, p, Q, type), Promises(boxes, Met'),
           UNCHANGED <<phase, online, member>>
    PROVE  Promises(inbox, Met)'
<1> DEFINE heard == IF online[p] /\ p \in member THEN Q \cap member ELSE {}
           ev == [type |-> type, from |-> p]
<1>1. PICK D \in SUBSET heard : inbox' = Told(boxes, heard \ D, ev)
  BY DEF Signal
<1>2. ev \in Event
  BY EventTypes
<1>3. Promises(Told(boxes, heard \ D, ev), Met')
  <2>1. CASE online[p] /\ p \in member
    <3>1. (heard \ D) \subseteq member /\ p \notin heard \ D
      BY <2>1
    <3>2. ev.from = p /\ ev.type = type
      OBVIOUS
    <3> HIDE DEF heard, ev
    <3>3. QED
      BY <1>2, <2>1, <3>1, <3>2, ToldKeeps DEF TypeOK, RelayTypes
  <2>2. CASE ~(online[p] /\ p \in member)
    <3>1. Told(boxes, heard \ D, ev) = boxes
      BY <2>2 DEF Told, Boxes
    <3>2. QED
      BY <3>1
  <2>3. QED
    BY <2>1, <2>2
<1>4. QED
  BY <1>1, <1>3 DEF Promises

\* p handles its first event; T are those met after that.
LEMMA RestKeeps ==
    ASSUME TypeOK, NEW p \in Peers, inbox[p] # <<>>, NEW T \in [Peers -> SUBSET Peers],
           Promises(inbox, Met), \A x \in Peers \ {p} : T[x] = Met[x],
           \A q : q # p /\ (q \in Met[p] \/ Introduces(Head(inbox[p]), q))
                    /\ ~Removes(Head(inbox[p]), q) => q \in T[p]
    PROVE  Promises(Rest(p), T)
<1>1. /\ inbox \in Boxes
      /\ Rest(p)[p] = Tail(inbox[p])
      /\ \A x \in Peers \ {p} : Rest(p)[x] = inbox[x]
  BY TypeParts DEF Rest, Boxes
<1>2. inbox[p] \in Seq(Event) /\ Head(inbox[p]) = inbox[p][1]
  <2>1. inbox[p] \in Seq(Event)
    BY <1>1 DEF Boxes
  <2>2. QED
    BY <2>1
<1>3. /\ Ordered(Tail(inbox[p]), T[p], p)
      /\ \A q : q # p /\ Known(inbox[p], Met[p], q, Len(inbox[p]))
              => Known(Tail(inbox[p]), T[p], q, Len(Tail(inbox[p])))
  <2>1. Ordered(inbox[p], Met[p], p)
    BY DEF Promises
  <2>2. QED
    BY <1>2, <2>1, HandledBox
<1>4. \A i \in 1..Len(Tail(inbox[p])) :
          i + 1 \in 1..Len(inbox[p]) /\ Tail(inbox[p])[i] = inbox[p][i + 1]
  BY <1>2
<1>5. \A x \in Peers : Ordered(Rest(p)[x], T[x], x)
  BY <1>1, <1>3 DEF Promises
<1>6. \A x, q \in member : x # q /\ online[x] => Known(Rest(p)[x], T[x], q, Len(Rest(p)[x]))
  BY <1>1, <1>3 DEF Promises, TypeOK
<1>7. \A x \in Peers : \A i \in 1..Len(Rest(p)[x]) : \A q \in Peers :
          Removes(Rest(p)[x][i], q) => q \notin member /\ phase[q] # "out"
  <2>1. ASSUME NEW x \in Peers, NEW i \in 1..Len(Rest(p)[x])
        PROVE  \E j \in 1..Len(inbox[x]) : Rest(p)[x][i] = inbox[x][j]
    <3>1. CASE x = p
      BY <1>1, <1>4, <2>1, <3>1
    <3>2. CASE x # p
      BY <1>1, <2>1, <3>2
    <3>3. QED
      BY <3>1, <3>2
  <2>2. ASSUME NEW x \in Peers, NEW i \in 1..Len(Rest(p)[x]), NEW q \in Peers,
               Removes(Rest(p)[x][i], q)
        PROVE  q \notin member /\ phase[q] # "out"
    <3>1. PICK j \in 1..Len(inbox[x]) : Rest(p)[x][i] = inbox[x][j]
      BY <2>1
    <3>2. Removes(inbox[x][j], q)
      BY <2>2, <3>1
    <3>3. QED
      BY <3>2 DEF Promises
  <2>3. QED
    BY <2>2
<1>8. QED
  BY <1>5, <1>6, <1>7 DEF Promises

LEMMA PromisesKept ==
    ASSUME Promises(inbox, Met), UNCHANGED <<online, member, session, missed, inbox>>,
           \A q \in Peers : phase[q] # "out" => phase'[q] # "out"
    PROVE  Promises(inbox, Met)'
<1>1. Met' = Met
  BY DEF Met
<1>2. QED
  BY <1>1 DEF Promises

\* Meeting more peers disturbs no promise about one box.
LEMMA MeetingMore ==
    ASSUME NEW box \in Seq(Event), NEW S, NEW T, S \subseteq T, NEW p
    PROVE  /\ \A q : \A n \in 0..Len(box) : Known(box, S, q, n) => Known(box, T, q, n)
           /\ Ordered(box, S, p) => Ordered(box, T, p)
<1>1. \A q : \A n \in 0..Len(box) : Known(box, S, q, n) => Known(box, T, q, n)
  BY DEF Known
<1>2. \A i \in 1..Len(box) : i - 1 \in 0..Len(box)
  OBVIOUS
<1>3. QED
  BY <1>1, <1>2 DEF Ordered

LEMMA MetParts ==
    /\ \A x \in Peers : Met[x] = session[x] \cup missed[x] /\ Met'[x] = session'[x] \cup missed'[x]
    /\ TypeOK => Met \in [Peers -> SUBSET Peers]
    /\ session' \in [Peers -> SUBSET Peers] /\ missed' \in [Peers -> SUBSET Peers]
          => Met' \in [Peers -> SUBSET Peers]
BY DEF Met, TypeOK

LEMMA MeetPromises ==
    ASSUME TypeOK, CallInv, NEW p \in Peers, NEW Q \in SUBSET Peers, inbox[p] # <<>>, Meet(p, Q),
           \A q : Introduces(Head(inbox[p]), q) => q \in Q
    PROVE  Promises(inbox, Met)'
<1>1. /\ session' \in [Peers -> SUBSET Peers]
      /\ session'[p] = session[p] \cup (Q \ {p})
      /\ \A x \in Peers \ {p} : session'[x] = session[x]
      /\ missed' = missed
  BY DEF Meet, TypeOK
<1>a. /\ Met' \in [Peers -> SUBSET Peers]
      /\ Met'[p] = Met[p] \cup (Q \ {p})
      /\ \A x \in Peers \ {p} : Met'[x] = Met[x]
  BY <1>1, MetParts DEF TypeOK
<1>2. Promises(Rest(p), Met')
  BY <1>a, RestKeeps DEF CallInv
<1>3. OffersTo(p, Q) \in SUBSET Peers /\ p \notin OffersTo(p, Q) /\ "ice_offer" \in SignalTypes
  BY DEF OffersTo, SignalTypes
<1>4. Rest(p) \in Boxes
  BY RestType
<1>5. QED
  BY <1>2, <1>3, <1>4, SignalKeeps DEF Meet

LEMMA EnterPromises ==
    ASSUME TypeOK, CallInv, NEW p \in Peers, Enter(p)
    PROVE  Promises(inbox, Met)'
<1> DEFINE ev == [type |-> "peer_joined", from |-> p]
           hello == [type |-> "joined_room", peers |-> member]
<1>1. /\ ev \in Event /\ hello \in Event
      /\ \A q : ~Removes(ev, q) /\ ~Removes(hello, q)
      /\ Introduces(ev, p) /\ \A q \in member : Introduces(hello, q)
      /\ ev.type \notin RelayTypes /\ hello.type \notin RelayTypes
  BY EventTypes DEF TypeOK, Removes, Introduces, SignalTypes, RelayTypes
<1>a. PICK D \in SUBSET member :
            /\ missed' = [q \in Peers |-> missed[q] \cup {x \in {p} : q \in D}]
            /\ inbox' = [Told(inbox, member \ D, ev) EXCEPT ![p] = <<hello>>]
  BY DEF Enter
<1>2. /\ phase[p] = "out" /\ p \notin member /\ member \subseteq Peers
      /\ \A q \in Peers : phase[q] # "out" => phase'[q] # "out"
      /\ phase'[p] # "out"
      /\ member' = member \cup {p}
      /\ \A x \in Peers \ {p} : online'[x] = online[x]
      /\ session' = session
  BY DEF TypeOK, CallInv, Phases, Enter
<1>3. /\ inbox'[p] = <<hello>>
      /\ \A x \in Peers \ {p} :
            inbox'[x] = IF x \in member \ D /\ online[x] THEN Append(inbox[x], ev) ELSE inbox[x]
      /\ \A x \in Peers : inbox[x] \in Seq(Event)
  <2> HIDE DEF ev, hello
  <2>1. \A x \in Peers : inbox[x] \in Seq(Event)
    BY TypeParts DEF Boxes
  <2>2. QED
    BY <1>a, <2>1 DEF Told
<1>b. \A x \in Peers : Met[x] \subseteq Met'[x] /\ (x \in D => p \in Met'[x])
  BY <1>a, <1>2, MetParts
<1> HIDE DEF ev, hello
<1>4. ASSUME NEW x \in Peers PROVE Ordered(inbox'[x], Met'[x], x)
  <2>1. Ordered(inbox[x], Met'[x], x)
    BY <1>b, <1>3, MeetingMore DEF CallInv, Promises
  <2>2. CASE x = p
    BY <1>1, <1>3, <2>2 DEF Ordered
  <2>3. CASE x # p
    BY <1>1, <1>3, <2>1, <2>3, OrderedOnAppend
  <2>4. QED
    BY <2>2, <2>3
<1>5. ASSUME NEW x \in member', NEW q \in member', x # q, online'[x]
      PROVE  Known(inbox'[x], Met'[x], q, Len(inbox'[x]))
  <2>1. x \in Peers /\ q \in Peers
    BY <1>2
  <2>2. CASE x = p
    <3>1. q \in member
      BY <1>2, <1>5, <2>2
    <3>2. Len(inbox'[x]) = 1 /\ inbox'[x][1] = hello
      <4>1. inbox'[x] = <<hello>>
        BY <1>3, <2>2
      <4>2. QED
        BY <4>1
    <3>3. QED
      BY <1>1, <3>1, <3>2 DEF Known
  <2>a. /\ inbox[x] \in Seq(Event) /\ Len(inbox[x]) \in 0..Len(inbox[x])
        /\ x # p => inbox'[x] = IF x \in D THEN inbox[x] ELSE Append(inbox[x], ev)
    BY <1>2, <1>3, <1>5, <2>1
  <2>3. CASE x # p /\ q = p
    <3>1. \A j \in 1..Len(inbox[x]) : ~Removes(inbox[x][j], p)
      BY <1>2, <2>1 DEF CallInv, Promises
    <3>2. CASE x \in D
      BY <1>b, <2>1, <2>3, <2>a, <3>1, <3>2 DEF Known
    <3>3. CASE x \notin D
      BY <1>1, <2>3, <2>a, <3>1, <3>3, KnownOnIntroduction
    <3>4. QED
      BY <3>2, <3>3
  <2>4. CASE x # p /\ q # p
    <3>1. Known(inbox[x], Met[x], q, Len(inbox[x]))
      BY <1>2, <1>5, <2>1, <2>4 DEF CallInv, Promises
    <3>2. Known(inbox[x], Met'[x], q, Len(inbox[x]))
      BY <1>b, <2>1, <2>a, <3>1, MeetingMore
    <3>3. QED
      BY <1>1, <2>4, <2>a, <3>2, KnownOnAppend
  <2>5. QED
    BY <2>2, <2>3, <2>4
<1>6. ASSUME NEW x \in Peers, NEW i \in 1..Len(inbox'[x]), NEW q \in Peers, Removes(inbox'[x][i], q)
      PROVE  q \notin member' /\ phase'[q] # "out"
  <2>1. x # p /\ i \in 1..Len(inbox[x]) /\ inbox'[x][i] = inbox[x][i]
    <3>1. CASE x = p
      <4>1. Len(inbox'[x]) = 1 /\ inbox'[x][1] = hello
        <5>1. inbox'[x] = <<hello>>
          BY <1>3, <3>1
        <5>2. QED
          BY <5>1
      <4>2. QED
        BY <1>1, <1>6, <4>1
    <3>2. CASE x # p /\ ~(x \in member \ D /\ online[x])
      BY <1>3, <3>2
    <3>3. CASE x # p /\ x \in member \ D /\ online[x]
      <4>1. inbox'[x] = Append(inbox[x], ev) /\ inbox[x] \in Seq(Event)
        BY <1>3, <3>3
      <4>2. /\ Len(inbox'[x]) = Len(inbox[x]) + 1
            /\ \A j \in 1..Len(inbox[x]) : inbox'[x][j] = inbox[x][j]
            /\ inbox'[x][Len(inbox[x]) + 1] = ev
            /\ Len(inbox[x]) \in Nat
        BY <4>1
      <4>3. i # Len(inbox[x]) + 1
        BY <1>1, <1>6, <4>2
      <4>4. QED
        BY <3>3, <4>2, <4>3
    <3>4. QED
      BY <3>1, <3>2, <3>3
  <2>2. q \notin member /\ phase[q] # "out"
    BY <1>6, <2>1 DEF CallInv, Promises
  <2>3. QED
    BY <1>2, <2>2
<1>7. QED
  BY <1>2, <1>4, <1>5, <1>6 DEF Promises

LEMMA RemoveClientPromises ==
    ASSUME TypeOK, CallInv, NEW p \in Peers, RemoveClient(p)
    PROVE  Promises(inbox, Met)'
<1> DEFINE ev == [type |-> "peer_left", from |-> p]
<1>1. /\ ev \in Event /\ ev.type \notin RelayTypes
      /\ \A q : Removes(ev, q) => q = p
  BY EventTypes DEF Removes, SignalTypes, RelayTypes
<1>a. PICK D \in SUBSET member' : inbox' = Told(inbox, member' \ D, ev)
  BY DEF RemoveClient
<1>2. /\ p \in member /\ phase[p] # "out" /\ ~online[p] /\ member' = member \ {p}
      /\ member \subseteq Peers
      /\ UNCHANGED <<phase, online>> /\ Met' = Met
  BY DEF TypeOK, CallInv, Phases, RemoveClient, Met
<1>3. \A x \in Peers :
          /\ inbox[x] \in Seq(Event)
          /\ inbox'[x] = IF x \in member' \ D /\ online[x] THEN Append(inbox[x], ev) ELSE inbox[x]
  <2> HIDE DEF ev
  <2>1. \A x \in Peers : inbox[x] \in Seq(Event)
    BY TypeParts DEF Boxes
  <2>2. QED
    BY <1>a, <2>1 DEF Told
<1> HIDE DEF ev
<1>4. ASSUME NEW x \in Peers PROVE Ordered(inbox'[x], Met[x], x)
  BY <1>1, <1>3, OrderedOnAppend DEF CallInv, Promises
<1>5. ASSUME NEW x \in member', NEW q \in member', x # q, online[x]
      PROVE  Known(inbox'[x], Met[x], q, Len(inbox'[x]))
  <2>1. x \in Peers /\ q \in Peers /\ q # p /\ Known(inbox[x], Met[x], q, Len(inbox[x]))
    BY <1>2, <1>5 DEF CallInv, Promises
  <2>2. inbox[x] \in Seq(Event) /\ inbox'[x] \in {inbox[x], Append(inbox[x], ev)}
    BY <1>3, <2>1
  <2>3. QED
    BY <1>1, <2>1, <2>2, KnownOnAppend
<1>6. ASSUME NEW x \in Peers, NEW i \in 1..Len(inbox'[x]), NEW q \in Peers, Removes(inbox'[x][i], q)
      PROVE  q \notin member' /\ phase[q] # "out"
  <2>1. \/ q = p
        \/ i \in 1..Len(inbox[x]) /\ inbox'[x][i] = inbox[x][i]
    <3>1. CASE ~(x \in member' \ D /\ online[x])
      BY <1>3, <3>1
    <3>2. CASE x \in member' \ D /\ online[x]
      <4>1. inbox'[x] = Append(inbox[x], ev) /\ inbox[x] \in Seq(Event)
        BY <1>3, <3>2
      <4>2. /\ Len(inbox'[x]) = Len(inbox[x]) + 1
            /\ \A j \in 1..Len(inbox[x]) : inbox'[x][j] = inbox[x][j]
            /\ inbox'[x][Len(inbox[x]) + 1] = ev
            /\ Len(inbox[x]) \in Nat
        BY <4>1
      <4>3. i # Len(inbox[x]) + 1 \/ q = p
        BY <1>1, <1>6, <4>2
      <4>4. QED
        BY <4>2, <4>3
    <3>3. QED
      BY <3>1, <3>2
  <2>2. QED
    BY <1>2, <1>6, <2>1 DEF CallInv, Promises
<1>7. QED
  BY <1>2, <1>4, <1>5, <1>6 DEF Promises

\* The first signal or status in a box is from somebody met.
LEMMA FirstIsMet ==
    ASSUME TypeOK, Promises(inbox, Met), NEW p \in Peers, inbox[p] # <<>>,
           Head(inbox[p]).type \in RelayTypes
    PROVE  Head(inbox[p]).from \in Met[p] /\ Head(inbox[p]).from # p
<1>1. inbox[p] \in Seq(Event)
  BY TypeParts DEF Boxes
<1>2. 1 \in 1..Len(inbox[p]) /\ Head(inbox[p]) = inbox[p][1]
  BY <1>1
<1>3. Ordered(inbox[p], Met[p], p)
  BY DEF Promises
<1>4. inbox[p][1].from # p /\ Known(inbox[p], Met[p], inbox[p][1].from, 1 - 1)
  BY <1>2, <1>3 DEF Ordered
<1>5. QED
  BY <1>2, <1>4 DEF Known

LEMMA StepPromises == TypeOK /\ TypeOK' /\ CallInv /\ [Next]_vars => Promises(inbox, Met)'
<1> SUFFICES ASSUME TypeOK, TypeOK', CallInv, [Next]_vars PROVE Promises(inbox, Met)'
  OBVIOUS
<1>a. Promises(inbox, Met)
  BY DEF CallInv
<1>b. (session' = session /\ missed' = missed) => Met' = Met
  BY DEF Met
<1>c. \A x \in Peers : session'[x] = session[x] /\ missed'[x] = missed[x] => Met'[x] = Met[x]
  <2> SUFFICES ASSUME NEW x \in Peers, session'[x] = session[x], missed'[x] = missed[x]
               PROVE  Met'[x] = Met[x]
    OBVIOUS
  <2>1. Met[x] = session[x] \cup missed[x] /\ Met'[x] = session'[x] \cup missed'[x]
    BY MetParts
  <2>2. QED
    BY <2>1
<1> USE PromisesKept DEF directVars, callVars, voiceVars, lossVars
<1>1. ASSUME NEW p \in Peers, Enter(p) PROVE Promises(inbox, Met)'
  BY <1>1, EnterPromises
<1>2. ASSUME NEW p \in Peers, LoseConnection(p) PROVE Promises(inbox, Met)'
  <2>1. PICK n \in 0..Len(inbox[p]) : inbox' = [inbox EXCEPT ![p] = SubSeq(@, 1, n)]
    BY <1>2 DEF LoseConnection
  <2>2. /\ inbox[p] \in Seq(Event)
        /\ inbox'[p] = SubSeq(inbox[p], 1, n)
        /\ \A x \in Peers \ {p} : inbox'[x] = inbox[x] /\ online'[x] = online[x]
        /\ ~online'[p] /\ member \subseteq Peers
        /\ UNCHANGED <<phase, member>> /\ Met' = Met
    BY <1>b, <1>2, <2>1, TypeParts DEF Boxes, LoseConnection, TypeOK
  <2>3. /\ Ordered(inbox'[p], Met[p], p)
        /\ Len(inbox'[p]) = n
        /\ \A i \in 1..n : inbox'[p][i] = inbox[p][i]
    BY <1>a, <2>2, OrderedOnPrefix DEF Promises
  <2>4. \A x \in Peers : Ordered(inbox'[x], Met[x], x)
    BY <1>a, <2>2, <2>3 DEF Promises
  <2>5. \A x, q \in member : x # q /\ online'[x] => Known(inbox'[x], Met[x], q, Len(inbox'[x]))
    BY <1>a, <2>2 DEF Promises
  <2>6. \A x \in Peers : \A i \in 1..Len(inbox'[x]) : i \in 1..Len(inbox[x]) /\ inbox'[x][i] = inbox[x][i]
    BY <2>1, <2>2, <2>3
  <2>7. \A x \in Peers : \A i \in 1..Len(inbox'[x]) : \A q \in Peers :
            Removes(inbox'[x][i], q) => q \notin member /\ phase[q] # "out"
    BY <1>a, <2>6 DEF Promises
  <2>8. QED
    BY <2>2, <2>4, <2>5, <2>7 DEF Promises
<1>3. ASSUME NEW p \in Peers, RemoveClient(p) PROVE Promises(inbox, Met)'
  BY <1>3, RemoveClientPromises
<1>4. ASSUME NEW p \in Peers, Start(p) PROVE Promises(inbox, Met)'
  BY <1>4, <1>a DEF Start, TypeOK
<1>5. ASSUME NEW p \in Peers, Close(p) PROVE Promises(inbox, Met)'
  <2>1. /\ inbox'[p] = <<>> /\ ~online'[p] /\ member \subseteq Peers /\ member' = member
        /\ \A x \in Peers \ {p} :
              inbox'[x] = inbox[x] /\ online'[x] = online[x] /\ session'[x] = session[x]
        /\ missed' = missed
        /\ \A q \in Peers : phase[q] # "out" => phase'[q] # "out"
    BY <1>5 DEF Close, TypeOK
  <2>a. \A x \in Peers \ {p} : Met'[x] = Met[x]
    BY <1>c, <2>1
  <2>2. Len(inbox'[p]) = 0
    BY <2>1
  <2>3. \A x \in Peers : Ordered(inbox'[x], Met'[x], x)
    BY <1>a, <2>1, <2>a, <2>2 DEF Promises, Ordered
  <2>4. \A x, q \in member : x # q /\ online'[x] => Known(inbox'[x], Met'[x], q, Len(inbox'[x]))
    BY <1>a, <2>1, <2>a DEF Promises
  <2>5. \A x \in Peers : \A i \in 1..Len(inbox'[x]) : \A q \in Peers :
            Removes(inbox'[x][i], q) => q \notin member /\ phase'[q] # "out"
    BY <1>a, <2>1, <2>2 DEF Promises
  <2>6. QED
    BY <2>1, <2>3, <2>4, <2>5 DEF Promises
<1>6. ASSUME NEW p \in Peers, HandleJoinedRoom(p) PROVE Promises(inbox, Met)'
  <2>1. /\ inbox[p] # <<>> /\ Head(inbox[p]).peers \in SUBSET Peers
        /\ \A q : Introduces(Head(inbox[p]), q) => q \in Head(inbox[p]).peers
    BY <1>6, RestType DEF HandleJoinedRoom, Due, Event, SignalTypes, Introduces
  <2>2. QED
    BY <1>6, <2>1, MeetPromises DEF HandleJoinedRoom
<1>7. ASSUME NEW p \in Peers, HandlePeerJoined(p) PROVE Promises(inbox, Met)'
  <2>1. /\ inbox[p] # <<>> /\ {Head(inbox[p]).from} \in SUBSET Peers
        /\ \A q : Introduces(Head(inbox[p]), q) => q \in {Head(inbox[p]).from}
    BY <1>7, RestType DEF HandlePeerJoined, Due, Event, SignalTypes, Introduces
  <2>2. QED
    BY <1>7, <2>1, MeetPromises DEF HandlePeerJoined
<1>8. ASSUME NEW p \in Peers, HandlePeerLeft(p) PROVE Promises(inbox, Met)'
  <2>1. /\ inbox[p] # <<>>
        /\ \A q : Introduces(Head(inbox[p]), q) => FALSE
        /\ Removes(Head(inbox[p]), Head(inbox[p]).from)
    BY <1>8 DEF HandlePeerLeft, Due, Introduces, Removes
  <2>2. /\ session' \in [Peers -> SUBSET Peers]
        /\ session'[p] = session[p] \ {Head(inbox[p]).from}
        /\ \A x \in Peers \ {p} : session'[x] = session[x]
        /\ missed' = [missed EXCEPT ![p] = @ \ {Head(inbox[p]).from}]
        /\ missed' \in [Peers -> SUBSET Peers]
        /\ inbox' = Rest(p)
        /\ UNCHANGED <<phase, online, member>>
    BY <1>8 DEF HandlePeerLeft, TypeOK
  <2>3. /\ Met' \in [Peers -> SUBSET Peers]
        /\ Met'[p] = Met[p] \ {Head(inbox[p]).from}
        /\ \A x \in Peers \ {p} : Met'[x] = Met[x]
    <3>1. /\ missed'[p] = missed[p] \ {Head(inbox[p]).from}
          /\ \A x \in Peers \ {p} : missed'[x] = missed[x]
      BY <2>2 DEF TypeOK
    <3>2. Met[p] = session[p] \cup missed[p] /\ Met'[p] = session'[p] \cup missed'[p]
      BY MetParts
    <3>3. Met'[p] = Met[p] \ {Head(inbox[p]).from}
      BY <2>2, <3>1, <3>2
    <3>4. \A x \in Peers \ {p} : Met'[x] = Met[x]
      BY <1>c, <2>2, <3>1
    <3>5. Met' \in [Peers -> SUBSET Peers]
      BY <2>2, MetParts
    <3>6. QED
      BY <3>3, <3>4, <3>5
  <2>4. \A q : Removes(Head(inbox[p]), q) <=> q = Head(inbox[p]).from
    BY <2>1 DEF Removes
  <2>5. Promises(Rest(p), Met')
    <3>1. \A q : q # p /\ (q \in Met[p] \/ Introduces(Head(inbox[p]), q))
                   /\ ~Removes(Head(inbox[p]), q) => q \in Met'[p]
      BY <2>1, <2>3, <2>4
    <3>2. \A x \in Peers \ {p} : Met'[x] = Met[x]
      BY <2>3
    <3>3. Met' \in [Peers -> SUBSET Peers]
      BY <2>3
    <3> DEFINE T == Met'
    <3> HIDE DEF T
    <3>4. Promises(Rest(p), T)
      BY <1>a, <2>1, <3>1, <3>2, <3>3, RestKeeps DEF T
    <3>5. QED
      BY <3>4 DEF T
  <2>6. QED
    BY <2>2, <2>5 DEF Promises
<1>9. ASSUME NEW p \in Peers, HandleIce(p) PROVE Promises(inbox, Met)'
  <2> DEFINE q == Head(inbox[p]).from
             Q == IF Answers(p, q, Head(inbox[p]).type) THEN {q} ELSE {}
  <2>1. /\ inbox[p] # <<>> /\ Head(inbox[p]).type \in SignalTypes
        /\ Signal(Rest(p), p, Q, "ice_answer")
        /\ UNCHANGED <<phase, online, member>> /\ Met' = Met
    BY <1>b, <1>9 DEF HandleIce, Due
  <2>2. /\ \A x : ~Introduces(Head(inbox[p]), x)
        /\ q \in Peers /\ Rest(p) \in Boxes /\ "ice_answer" \in SignalTypes
    BY <2>1, RestType DEF Introduces, SignalTypes, Event
  <2>3. q # p
    <3>1. inbox[p] \in Seq(Event)
      BY TypeParts DEF Boxes
    <3>2. 1 \in 1..Len(inbox[p]) /\ Head(inbox[p]) = inbox[p][1]
      BY <2>1, <3>1
    <3>3. QED
      BY <1>a, <2>1, <3>2 DEF Promises, Ordered, RelayTypes
  <2>4. Promises(Rest(p), Met')
    <3>1. Met \in [Peers -> SUBSET Peers] /\ Met' = Met
      BY <2>1, MetParts
    <3>2. Promises(Rest(p), Met)
      BY <1>a, <2>1, <2>2, <3>1, RestKeeps
    <3>3. QED
      BY <3>1, <3>2
  <2>5. Q \in SUBSET Peers /\ p \notin Q
    BY <2>2, <2>3
  <2> HIDE DEF Q, q
  <2>6. QED
    BY <2>1, <2>2, <2>4, <2>5, SignalKeeps
<1>10. ASSUME NEW p \in Peers, HandleVoiceFrame(p) PROVE Promises(inbox, Met)'
  <2>1. /\ inbox[p] # <<>> /\ \A x : ~Introduces(Head(inbox[p]), x)
        /\ inbox' = Rest(p)
        /\ UNCHANGED <<phase, online, member>> /\ Met' = Met
    BY <1>b, <1>10 DEF HandleVoiceFrame, Due, Introduces
  <2>2. Met \in [Peers -> SUBSET Peers]
    BY MetParts
  <2>3. Promises(Rest(p), Met)
    BY <1>a, <2>1, <2>2, RestKeeps
  <2>4. QED
    BY <2>1, <2>3 DEF Promises
<1>11. ASSUME NEW p \in Peers, Talk(p) PROVE Promises(inbox, Met)'
  <2> DEFINE ev == [type |-> "voice_frame", from |-> p, seq |-> seq'[p]]
  <2>1. PICK Q : inbox' = Told(inbox, Q, ev)
    BY <1>11 DEF Talk
  <2>2. seq'[p] \in 1..MaxSeq
    BY <1>11 DEF Talk, TypeOK
  <2>3. ev \in Event /\ ev.type = "voice_frame" /\ ev.type \notin RelayTypes
    BY <2>2, EventTypes DEF SignalTypes, RelayTypes
  <2> HIDE DEF ev
  <2>4. Promises(Told(inbox, Q, ev), Met)
    <3>1. inbox \in Boxes /\ member \subseteq Peers
      BY TypeParts
    <3>2. QED
      BY <1>a, <2>3, <3>1, ToldKeeps
  <2>5. QED
    BY <1>b, <1>11, <2>1, <2>4 DEF Talk, Promises
<1>12. ASSUME NEW p \in Peers, NEW q \in Peers, ResendCandidates(p, q) PROVE Promises(inbox, Met)'
  <2>1. /\ q # p /\ "ice_candidate" \in SignalTypes /\ inbox \in Boxes
        /\ UNCHANGED <<phase, online, member>> /\ Met' = Met
        /\ Signal(inbox, p, {q}, "ice_candidate")
    BY <1>b, <1>12, TypeParts DEF ResendCandidates, Resend, CallInv, NoSelf, SignalTypes
  <2>2. Promises(inbox, Met')
    BY <1>a, <2>1
  <2>3. QED
    BY <2>1, <2>2, SignalKeeps
<1>13. ASSUME NEW p \in Peers, NEW q \in Peers, PingPeer(p, q) PROVE Promises(inbox, Met)'
  BY <1>13, <1>a DEF PingPeer
<1>14. ASSUME NEW pkt \in net, ReceivePacket(pkt.to, pkt) PROVE Promises(inbox, Met)'
  BY <1>14, <1>a DEF ReceivePacket
<1>15. ASSUME NEW pkt \in net, LosePacket(pkt) PROVE Promises(inbox, Met)'
  BY <1>15, <1>a DEF LosePacket
<1>16. ASSUME NEW p \in Peers, NEW q \in Peers, Forget(p, q) PROVE Promises(inbox, Met)'
  BY <1>16, <1>a DEF Forget
<1>17. ASSUME NEW p \in Peers, HandlePeerStatus(p) PROVE Promises(inbox, Met)'
  <2> DEFINE q == Head(inbox[p]).from
  <2>1. /\ inbox[p] # <<>> /\ Head(inbox[p]).type \in RelayTypes
        /\ \A x : ~Introduces(Head(inbox[p]), x)
        /\ session' = [session EXCEPT ![p] = @ \cup ({q} \ {p})] /\ missed' = missed
        /\ inbox' = Rest(p) /\ UNCHANGED <<phase, online, member>>
    BY <1>17 DEF HandlePeerStatus, Due, Introduces, RelayTypes
  <2>2. q \in Met[p]
    BY <1>a, <2>1, FirstIsMet
  <2>3. session'[p] \subseteq session[p] \cup {q} /\ session[p] \subseteq session'[p]
    <3> HIDE DEF q
    <3>1. QED
      BY <2>1 DEF TypeOK
  <2>4. \A x \in Peers \ {p} : session'[x] = session[x]
    BY <2>1 DEF TypeOK
  <2>5. Met \in [Peers -> SUBSET Peers] /\ Met' = Met
    <3> HIDE DEF q
    <3>1. Met[p] = session[p] \cup missed[p] /\ Met'[p] = session'[p] \cup missed'[p]
      BY MetParts
    <3>2. Met'[p] = Met[p]
      BY <2>1, <2>2, <2>3, <3>1
    <3>3. \A x \in Peers : Met'[x] = Met[x]
      BY <1>c, <2>1, <2>4, <3>2
    <3>4. QED
      BY <3>3, MetParts DEF Met
  <2>6. Promises(Rest(p), Met)
    BY <1>a, <2>1, <2>5, RestKeeps
  <2>7. QED
    BY <2>1, <2>5, <2>6 DEF Promises
<1>18. ASSUME NEW p \in Peers, BroadcastStatus(p) PROVE Promises(inbox, Met)'
  <2> DEFINE ev == [type |-> "peer_status", from |-> p]
  <2>1. PICK Q \in SUBSET (member \ {p}) : inbox' = Told(inbox, Q, ev)
    BY <1>18 DEF BroadcastStatus
  <2>2. /\ ev \in Event /\ ev.type \in RelayTypes /\ ev.from = p /\ p \in member
        /\ inbox \in Boxes /\ member \subseteq Peers
        /\ UNCHANGED <<phase, online, member>> /\ Met' = Met
    BY <1>b, <1>18, EventTypes, TypeParts DEF BroadcastStatus, RelayTypes
  <2> HIDE DEF ev
  <2>3. Promises(Told(inbox, Q, ev), Met)
    BY <1>a, <2>1, <2>2, ToldKeeps
  <2>4. QED
    BY <2>1, <2>2, <2>3 DEF Promises
<1>19. CASE UNCHANGED vars
  BY <1>19, <1>a DEF vars
<1>20. QED
  BY <1>1, <1>2, <1>3, <1>4, <1>5, <1>6, <1>7, <1>8, <1>9, <1>10, <1>11, <1>12, <1>13,
     <1>14, <1>15, <1>16, <1>17, <1>18, <1>19 DEF Next, HandleEvent, AllGone
----------------------------------------------------------------------------
(* Routes. *)

LEMMA StepPhases == TypeOK /\ CallInv /\ [Next]_vars => Phases'
<1> SUFFICES ASSUME TypeOK, CallInv, [Next]_vars PROVE Phases'
  OBVIOUS
<1>a. Phases
  BY DEF CallInv
<1> USE DEF directVars, callVars, voiceVars, lossVars, Phases, TypeOK, DirectTypeOK
<1>1. ASSUME NEW p \in Peers, Enter(p) PROVE Phases'
  BY <1>1, <1>a DEF Enter
<1>2. ASSUME NEW p \in Peers, LoseConnection(p) PROVE Phases'
  BY <1>2, <1>a DEF LoseConnection
<1>3. ASSUME NEW p \in Peers, RemoveClient(p) PROVE Phases'
  BY <1>3, <1>a DEF RemoveClient
<1>4. ASSUME NEW p \in Peers, Start(p) PROVE Phases'
  BY <1>4, <1>a DEF Start, StartTransport
<1>5. ASSUME NEW p \in Peers, Close(p) PROVE Phases'
  <2>1. \A x \in Peers \ {p} : route'[x] = route[x]
    BY <1>5, StopType DEF Close
  <2>2. QED
    BY <1>5, <1>a, <2>1 DEF Close, StopTransport
<1>6. ASSUME NEW p \in Peers, NEW Q \in SUBSET Peers, Due(p, {"joined_room", "peer_joined"}), Meet(p, Q)
      PROVE  Phases'
  <2>1. \A x \in Peers \ {p} : route'[x] = route[x]
    BY <1>6, EnsureType DEF Meet
  <2>2. QED
    BY <1>6, <1>a, <2>1 DEF Meet, Due
<1>7. ASSUME NEW p \in Peers, HandleJoinedRoom(p) PROVE Phases'
  <2>1. Head(inbox[p]).peers \in SUBSET Peers
    BY <1>7, RestType DEF HandleJoinedRoom, Due, Event, SignalTypes
  <2>2. QED
    BY <1>6, <1>7, <2>1 DEF HandleJoinedRoom, Due
<1>8. ASSUME NEW p \in Peers, HandlePeerJoined(p) PROVE Phases'
  <2>1. {Head(inbox[p]).from} \in SUBSET Peers
    BY <1>8, RestType DEF HandlePeerJoined, Due, Event, SignalTypes
  <2>2. QED
    BY <1>6, <1>8, <2>1 DEF HandlePeerJoined, Due
<1>9. ASSUME NEW p \in Peers, HandlePeerLeft(p) PROVE Phases'
  <2>1. Head(inbox[p]).from \in Peers
    BY <1>9, RestType DEF HandlePeerLeft, Due, Event, SignalTypes
  <2>2. \A x \in Peers \ {p} : route'[x] = route[x]
    BY <1>9, <2>1, RemoveType DEF HandlePeerLeft
  <2>3. QED
    BY <1>9, <1>a, <2>2 DEF HandlePeerLeft, Due
<1>10. ASSUME NEW p \in Peers, HandleIce(p) PROVE Phases'
  <2>1. \A x \in Peers \ {p} : route'[x] = route[x]
    BY <1>10 DEF HandleIce, HandleSignal, WithRoute
  <2>2. QED
    BY <1>10, <1>a, <2>1 DEF HandleIce, Due
<1>11. ASSUME NEW p \in Peers, HandleVoiceFrame(p) PROVE Phases'
  BY <1>11, <1>a DEF HandleVoiceFrame
<1>12. ASSUME NEW p \in Peers, Talk(p) PROVE Phases'
  BY <1>12, <1>a DEF Talk
<1>13. ASSUME NEW p \in Peers, NEW q \in Peers, ResendCandidates(p, q) PROVE Phases'
  <2>1. /\ running[p] /\ \A x \in Peers \ {p} : route'[x] = route[x]
        /\ UNCHANGED <<running, phase, online, member, session>>
    BY <1>13 DEF ResendCandidates, Resend
  <2>2. QED
    BY <1>a, <2>1
<1>14. ASSUME NEW p \in Peers, NEW q \in Peers, PingPeer(p, q) PROVE Phases'
  BY <1>14, <1>a DEF PingPeer, Ping
<1>15. ASSUME NEW pkt \in net, ReceivePacket(pkt.to, pkt) PROVE Phases'
  <2>1. pkt.to \in Peers
    BY DEF Packet
  <2>2. /\ running[pkt.to] /\ \A x \in Peers \ {pkt.to} : route'[x] = route[x]
        /\ UNCHANGED <<running, phase, online, member, session>>
    BY <1>15, <2>1 DEF ReceivePacket, Receive, WithRoute
  <2>3. QED
    BY <1>a, <2>1, <2>2
<1>16. ASSUME NEW pkt \in net, LosePacket(pkt) PROVE Phases'
  BY <1>16, <1>a DEF LosePacket, Lose
<1>17. ASSUME NEW p \in Peers, NEW q \in Peers, Forget(p, q) PROVE Phases'
  BY <1>17, <1>a DEF Forget
<1>18. ASSUME NEW p \in Peers, HandlePeerStatus(p) PROVE Phases'
  BY <1>18, <1>a DEF HandlePeerStatus, Due
<1>19. ASSUME NEW p \in Peers, BroadcastStatus(p) PROVE Phases'
  BY <1>19, <1>a DEF BroadcastStatus
<1>20. CASE UNCHANGED vars
  BY <1>20, <1>a DEF vars
<1>21. QED
  BY <1>1, <1>2, <1>3, <1>4, <1>5, <1>7, <1>8, <1>9, <1>10, <1>11, <1>12, <1>13,
     <1>14, <1>15, <1>16, <1>17, <1>18, <1>19, <1>20 DEF Next, HandleEvent, AllGone

\* A table whose routes by themselves satisfy RoutesFollowTheSession and NoSelf.
RoutesOf(p, rt, sess, miss, runs) ==
    /\ p \notin DOMAIN rt
    /\ runs => sess \subseteq DOMAIN rt \cup miss
    /\ \A q \in DOMAIN rt \ sess : q \in miss \/ Learned(rt[q])

PacketsGoOut == \A pkt \in net : pkt.from # pkt.to

LEMMA RoutesParts ==
    /\ NoSelf /\ RoutesFollowTheSession
          <=> PacketsGoOut /\ \A p \in Peers : RoutesOf(p, route[p], session[p], missed[p], running[p])
    /\ NoSelf' /\ RoutesFollowTheSession'
          <=> PacketsGoOut' /\ \A p \in Peers : RoutesOf(p, route'[p], session'[p], missed'[p], running'[p])
BY DEF NoSelf, RoutesFollowTheSession, RoutesOf, PacketsGoOut

LEMMA MeetRoutes ==
    ASSUME TypeOK, CallInv, NEW p \in Peers, NEW Q \in SUBSET Peers, Meet(p, Q)
    PROVE  NoSelf' /\ RoutesFollowTheSession'
<1>1. /\ PacketsGoOut
      /\ \A x \in Peers : RoutesOf(x, route[x], session[x], missed[x], running[x])
  BY RoutesParts DEF CallInv
<1>2. /\ session'[p] = session[p] \cup (Q \ {p})
      /\ \A x \in Peers \ {p} : session'[x] = session[x]
      /\ UNCHANGED <<running, net, missed>>
  BY DEF Meet, TypeOK
<1>3. /\ DOMAIN route'[p] = DOMAIN route[p] \cup (IF running[p] THEN Q \ {p} ELSE {})
      /\ \A q \in DOMAIN route'[p] :
            route'[p][q] = IF q \in OffersTo(p, Q) THEN [RouteTo(p, q) EXCEPT !.offerSent = TRUE]
                           ELSE RouteTo(p, q)
      /\ \A x \in Peers \ {p} : route'[x] = route[x]
  BY EnsureType DEF Meet, TypeOK
<1>4. \A q \in DOMAIN route'[p] \ session'[p] : q \in DOMAIN route[p] \ session[p] /\ route'[p][q] = route[p][q]
  BY <1>2, <1>3 DEF OffersTo, RouteTo
<1>5. RoutesOf(p, route'[p], session'[p], missed'[p], running'[p])
  BY <1>1, <1>2, <1>3, <1>4 DEF RoutesOf
<1>6. \A x \in Peers : RoutesOf(x, route'[x], session'[x], missed'[x], running'[x])
  BY <1>1, <1>2, <1>3, <1>5
<1>7. QED
  BY <1>1, <1>2, <1>6, RoutesParts DEF PacketsGoOut

LEMMA StepRoutes == TypeOK /\ CallInv /\ [Next]_vars => NoSelf' /\ RoutesFollowTheSession'
<1> SUFFICES ASSUME TypeOK, CallInv, [Next]_vars PROVE NoSelf' /\ RoutesFollowTheSession'
  OBVIOUS
<1>a. /\ PacketsGoOut
      /\ \A x \in Peers : RoutesOf(x, route[x], session[x], missed[x], running[x])
  BY RoutesParts DEF CallInv
<1> DEFINE Goal == PacketsGoOut' /\ \A x \in Peers : RoutesOf(x, route'[x], session'[x], missed'[x], running'[x])
<1>b. Goal => NoSelf' /\ RoutesFollowTheSession'
  BY RoutesParts
<1>c. UNCHANGED <<route, session, missed, running, net>> => Goal
  BY <1>a DEF PacketsGoOut
<1> USE DEF directVars, callVars, voiceVars, lossVars
<1> HIDE DEF Goal
<1>1. ASSUME NEW p \in Peers, Enter(p) PROVE Goal
  <2>1. UNCHANGED <<route, session, running, net>> /\ \A x \in Peers : missed[x] \subseteq missed'[x]
    BY <1>1 DEF Enter, TypeOK
  <2>2. QED
    BY <1>a, <2>1 DEF RoutesOf, PacketsGoOut, Goal
<1>2. ASSUME NEW p \in Peers, LoseConnection(p) PROVE Goal
  BY <1>2, <1>c DEF LoseConnection
<1>3. ASSUME NEW p \in Peers, RemoveClient(p) PROVE Goal
  BY <1>3, <1>c DEF RemoveClient
<1>4. ASSUME NEW p \in Peers, Start(p) PROVE Goal
  <2>1. /\ session[p] = {}
        /\ \A x \in Peers \ {p} : running'[x] = running[x]
        /\ UNCHANGED <<route, session, missed, net>>
    BY <1>4 DEF Start, StartTransport, CallInv, Phases, TypeOK, DirectTypeOK
  <2>2. QED
    BY <1>a, <2>1 DEF RoutesOf, PacketsGoOut, Goal
<1>5. ASSUME NEW p \in Peers, Close(p) PROVE Goal
  <2>1. /\ DOMAIN route'[p] = {} /\ session'[p] = {}
        /\ \A x \in Peers \ {p} :
              route'[x] = route[x] /\ running'[x] = running[x] /\ session'[x] = session[x]
        /\ UNCHANGED <<missed, net>>
    BY <1>5, StopType DEF Close, StopTransport, TypeOK, DirectTypeOK
  <2>2. QED
    BY <1>a, <2>1 DEF RoutesOf, PacketsGoOut, Goal
<1>6. ASSUME NEW p \in Peers, HandleJoinedRoom(p) PROVE Goal
  <2>1. Head(inbox[p]).peers \in SUBSET Peers
    BY <1>6, RestType DEF HandleJoinedRoom, Due, Event, SignalTypes
  <2>2. QED
    BY <1>6, <2>1, MeetRoutes, RoutesParts DEF HandleJoinedRoom, Goal
<1>7. ASSUME NEW p \in Peers, HandlePeerJoined(p) PROVE Goal
  <2>1. {Head(inbox[p]).from} \in SUBSET Peers
    BY <1>7, RestType DEF HandlePeerJoined, Due, Event, SignalTypes
  <2>2. QED
    BY <1>7, <2>1, MeetRoutes, RoutesParts DEF HandlePeerJoined, Goal
<1>8. ASSUME NEW p \in Peers, HandlePeerLeft(p) PROVE Goal
  <2> DEFINE q == Head(inbox[p]).from
  <2>1. q \in Peers
    BY <1>8, RestType DEF HandlePeerLeft, Due, Event, SignalTypes
  <2>2. /\ DOMAIN route'[p] = DOMAIN route[p] \ {q}
        /\ \A x \in DOMAIN route'[p] : route'[p][x] = route[p][x]
        /\ \A x \in Peers \ {p} : route'[x] = route[x]
    BY <1>8, <2>1, RemoveType DEF HandlePeerLeft, TypeOK
  <2>3. /\ session'[p] = session[p] \ {q}
        /\ missed'[p] = missed[p] \ {q}
        /\ \A x \in Peers \ {p} : session'[x] = session[x] /\ missed'[x] = missed[x]
        /\ UNCHANGED <<running, net>>
    BY <1>8 DEF HandlePeerLeft, TypeOK
  <2> HIDE DEF q
  <2>4. RoutesOf(p, route'[p], session'[p], missed'[p], running'[p])
    BY <1>a, <2>2, <2>3 DEF RoutesOf
  <2>5. QED
    BY <1>a, <2>2, <2>3, <2>4 DEF PacketsGoOut, Goal
<1>9. ASSUME NEW p \in Peers, HandleIce(p) PROVE Goal
  <2> DEFINE q == Head(inbox[p]).from
             type == Head(inbox[p]).type
             rt == [RouteTo(p, q) EXCEPT !.cands = TRUE, !.answerSent = @ \/ Answers(p, q, type)]
  <2>1. q \in Peers /\ q # p /\ q \in session[p] \cup missed[p]
    <3>1. inbox[p] # <<>> /\ type \in SignalTypes
      BY <1>9 DEF HandleIce, Due
    <3>2. q \in Peers
      BY <3>1, RestType DEF Event, SignalTypes
    <3>3. q \in Met[p] /\ q # p
      BY <3>1, FirstIsMet DEF CallInv, RelayTypes
    <3>4. QED
      BY <3>2, <3>3, MetParts
  <2>2. HandleSignal(p, q, type) /\ UNCHANGED <<running, session, missed>>
    BY <1>9 DEF HandleIce
  <2>3. CASE running[p]
    <3>1. route' = WithRoute(p, q, rt) /\ net' = net \cup Sent(p, q, rt, "ping", 0)
      <4> HIDE DEF q, type
      <4>1. QED
        BY <2>2, <2>3 DEF HandleSignal
    <3>2. rt \in Route
      <4>1. RouteTo(p, q) \in Route
        BY <2>1, RouteToType DEF TypeOK
      <4>2. Answers(p, q, type) \in BOOLEAN
        BY <4>1, <2>1, <2>3 DEF Answers, Route
      <4> HIDE DEF q, type
      <4>3. QED
        BY <4>1, <4>2 DEF Route
    <3> HIDE DEF q, type, rt
    <3>3. /\ DOMAIN route'[p] = DOMAIN route[p] \cup {q}
          /\ \A x \in DOMAIN route[p] \ {q} : route'[p][x] = route[p][x]
          /\ \A x \in Peers \ {p} : route'[x] = route[x]
      BY <2>1, <3>1, <3>2, WithRouteType DEF TypeOK
    <3>4. PacketsGoOut'
      BY <1>a, <2>1, <3>1, PingType DEF PacketsGoOut
    <3>5. RoutesOf(p, route'[p], session'[p], missed'[p], running'[p])
      BY <1>a, <2>1, <2>2, <3>3 DEF RoutesOf
    <3>6. QED
      BY <1>a, <2>2, <3>3, <3>4, <3>5 DEF Goal
  <2>4. CASE ~running[p]
    BY <1>c, <2>2, <2>4 DEF HandleSignal
  <2>5. QED
    BY <2>3, <2>4
<1>10. ASSUME NEW p \in Peers, HandleVoiceFrame(p) PROVE Goal
  BY <1>10, <1>c DEF HandleVoiceFrame
<1>11. ASSUME NEW p \in Peers, Talk(p) PROVE Goal
  <2>1. seq'[p] \in 0..MaxSeq
    BY <1>11 DEF Talk, TypeOK
  <2>2. PacketsGoOut'
    <3>1. \A q \in DOMAIN route[p] : \A pkt \in Sent(p, q, route[p][q], "voice", seq'[p]) : pkt.from # pkt.to
      <4> SUFFICES ASSUME NEW q \in DOMAIN route[p],
                          NEW pkt \in Sent(p, q, route[p][q], "voice", seq'[p])
                   PROVE  pkt.from # pkt.to
        OBVIOUS
      <4>1. q \in Peers /\ q # p
        BY <1>a, TypeParts DEF RoutesOf, Table
      <4>2. pkt.from = p /\ pkt.to = q
        BY <2>1, <4>1, SentType
      <4>3. QED
        BY <4>1, <4>2
    <3>2. QED
      BY <1>11, <1>a, <3>1 DEF Talk, SendVoiceFrame, PacketsGoOut
  <2>3. QED
    BY <1>11, <1>a, <2>2 DEF Talk, Goal
<1>12. ASSUME NEW p \in Peers, NEW q \in Peers, ResendCandidates(p, q) PROVE Goal
  <2>1. /\ q \in DOMAIN route[p] /\ ~route[p][q].heard
        /\ route' = [route EXCEPT ![p][q].resends = @ + 1]
        /\ UNCHANGED <<running, net, session, missed>>
    BY <1>12 DEF ResendCandidates, Resend
  <2>2. q \in session[p] \cup missed[p]
    <3>1. ~Learned(route[p][q])
      BY <2>1 DEF Learned
    <3>2. QED
      BY <1>a, <2>1, <3>1 DEF RoutesOf
  <2>3. /\ DOMAIN route'[p] = DOMAIN route[p]
        /\ \A x \in DOMAIN route[p] \ {q} : route'[p][x] = route[p][x]
        /\ \A x \in Peers \ {p} : route'[x] = route[x]
    <3> DEFINE new == [route[p] EXCEPT ![q].resends = @ + 1]
    <3>0. DOMAIN route = Peers
      BY DEF TypeOK, DirectTypeOK
    <3>1. route' = [route EXCEPT ![p] = new]
      BY <1>12, TypeParts DEF ResendCandidates, Resend, Table
    <3> HIDE DEF new
    <3>2. route'[p] = new /\ \A x \in Peers \ {p} : route'[x] = route[x]
      BY <3>0, <3>1
    <3> USE DEF new
    <3>3. QED
      BY <3>1, <3>2
  <2>4. RoutesOf(p, route'[p], session'[p], missed'[p], running'[p])
    BY <1>a, <2>1, <2>2, <2>3 DEF RoutesOf
  <2>5. QED
    BY <1>a, <2>1, <2>3, <2>4 DEF PacketsGoOut, Goal
<1>13. ASSUME NEW p \in Peers, NEW q \in Peers, PingPeer(p, q) PROVE Goal
  <2>1. PacketsGoOut'
    BY <1>13, <1>a, PingType DEF PingPeer, Ping, PacketsGoOut, RoutesOf
  <2>2. QED
    BY <1>13, <1>a, <2>1 DEF PingPeer, Ping, Goal
<1>14. ASSUME NEW pkt \in net, ReceivePacket(pkt.to, pkt) PROVE Goal
  <2> DEFINE p == pkt.to
             q == pkt.from
             rt == [RouteTo(p, q) EXCEPT !.heard = TRUE,
                                         !.last = IF Accepts(p, pkt) THEN pkt.seq ELSE @]
  <2>1. p \in Peers /\ q \in Peers /\ p # q /\ pkt.seq \in 0..MaxSeq
    BY <1>a DEF TypeOK, DirectTypeOK, Packet, PacketsGoOut
  <2>2. RouteTo(p, q) \in Route
    BY <2>1, RouteToType DEF TypeOK
  <2>3. rt \in Route
    BY <2>1, <2>2 DEF Route
  <2>4. /\ route' = WithRoute(p, q, rt) /\ net' \subseteq net
        /\ UNCHANGED <<running, session, missed>>
    BY <1>14 DEF ReceivePacket, Receive
  <2>5. q \notin session[p] \cup missed[p] => Learned(rt)
    <3>1. CASE q \in DOMAIN route[p]
      <4>1. q \notin session[p] \cup missed[p] => Learned(RouteTo(p, q))
        BY <1>a, <2>1, <3>1 DEF RoutesOf, RouteTo
      <4>2. /\ rt.heard /\ rt.cands = RouteTo(p, q).cands
            /\ rt.offerSent = RouteTo(p, q).offerSent
            /\ rt.answerSent = RouteTo(p, q).answerSent
            /\ rt.resends = RouteTo(p, q).resends
        BY <2>2 DEF Route
      <4> HIDE DEF rt
      <4>3. QED
        BY <4>1, <4>2 DEF Learned
    <3>2. CASE q \notin DOMAIN route[p]
      <4>1. RouteTo(p, q) = NewRoute
        BY <3>2 DEF RouteTo
      <4>2. QED
        BY <4>1 DEF NewRoute, Learned
    <3>3. QED
      BY <3>1, <3>2
  <2> HIDE DEF rt
  <2>6. /\ DOMAIN route'[p] = DOMAIN route[p] \cup {q}
        /\ route'[p][q] = rt
        /\ \A x \in DOMAIN route[p] \ {q} : route'[p][x] = route[p][x]
        /\ \A x \in Peers \ {p} : route'[x] = route[x]
    BY <2>1, <2>3, <2>4, WithRouteType DEF TypeOK
  <2>7. RoutesOf(p, route'[p], session'[p], missed'[p], running'[p])
    BY <1>a, <2>1, <2>4, <2>5, <2>6 DEF RoutesOf
  <2>8. QED
    BY <1>a, <2>4, <2>6, <2>7 DEF PacketsGoOut, Goal
<1>15. ASSUME NEW pkt \in net, LosePacket(pkt) PROVE Goal
  BY <1>15, <1>a DEF LosePacket, Lose, PacketsGoOut, Goal
<1>16. ASSUME NEW p \in Peers, NEW q \in Peers, Forget(p, q) PROVE Goal
  BY <1>16, <1>c DEF Forget
<1>17. ASSUME NEW p \in Peers, HandlePeerStatus(p) PROVE Goal
  <2> DEFINE q == Head(inbox[p]).from
  <2>1. q \in session[p] \cup missed[p]
    <3>1. inbox[p] # <<>> /\ Head(inbox[p]).type \in RelayTypes
      BY <1>17 DEF HandlePeerStatus, Due, RelayTypes
    <3>2. QED
      BY <3>1, FirstIsMet, MetParts DEF CallInv
  <2>2. /\ session' = [session EXCEPT ![p] = @ \cup ({q} \ {p})]
        /\ UNCHANGED <<running, route, net, missed>>
    BY <1>17 DEF HandlePeerStatus
  <2> HIDE DEF q
  <2>3. /\ session'[p] \subseteq session[p] \cup missed[p] /\ session[p] \subseteq session'[p]
        /\ \A x \in Peers \ {p} : session'[x] = session[x]
    BY <2>1, <2>2 DEF TypeOK
  <2>4. RoutesOf(p, route'[p], session'[p], missed'[p], running'[p])
    BY <1>a, <2>2, <2>3 DEF RoutesOf
  <2>5. QED
    BY <1>a, <2>2, <2>3, <2>4 DEF PacketsGoOut, Goal
<1>18. ASSUME NEW p \in Peers, BroadcastStatus(p) PROVE Goal
  BY <1>18, <1>c DEF BroadcastStatus
<1>19. ASSUME UNCHANGED vars PROVE Goal
  BY <1>19, <1>c DEF vars
<1>20. Goal
  <2>1. QED
    BY <1>1, <1>2, <1>3, <1>4, <1>5, <1>6, <1>7, <1>8, <1>9, <1>10, <1>11, <1>12, <1>13,
       <1>14, <1>15, <1>16, <1>17, <1>18, <1>19 DEF Next, HandleEvent, AllGone
<1>21. QED
  BY <1>b, <1>20

LEMMA InitCall == Init => CallInv
<1> SUFFICES ASSUME Init PROVE CallInv
  OBVIOUS
<1>1. \A p \in Peers : DOMAIN route[p] = {} /\ Len(inbox[p]) = 0 /\ session[p] = {}
  BY DEF Init, DirectInit
<1>2. Phases /\ NoSelf
  BY <1>1 DEF Phases, NoSelf, Init, DirectInit
<1>3. Promises(inbox, Met)
  BY <1>1 DEF Promises, Ordered, Init
<1>4. RoutesFollowTheSession
  BY <1>1 DEF RoutesFollowTheSession, Init, DirectInit
<1>5. QED
  BY <1>2, <1>3, <1>4 DEF CallInv

\* The inductive invariant of the call.
THEOREM CallInvariant == Spec => [](TypeOK /\ CallInv)
<1>1. Init => TypeOK /\ CallInv
  BY InitType, InitCall
<1>2. TypeOK /\ CallInv /\ [Next]_vars => (TypeOK /\ CallInv)'
  BY StepType, StepPhases, StepPromises, StepRoutes DEF CallInv
<1>3. QED
  BY <1>1, <1>2, PTL DEF Spec

\* Whatever is lost and in whatever order events and packets come: a peer of the
\* session has a route, and a route to anybody else is one that a packet made, on
\* which nothing is signalled, but for peers whose arrival was dropped on its way.
THEOREM Routes == Spec => []RoutesFollowTheSession
<1>1. TypeOK /\ CallInv => RoutesFollowTheSession
  BY DEF CallInv
<1>2. QED
  BY <1>1, CallInvariant, PTL

\* A signal that is about to be handled is from a peer of the session, or from
\* one whose arrival was dropped on its way.
THEOREM Signals == Spec => []SignalsAreFromPeers
<1>1. TypeOK /\ CallInv => SignalsAreFromPeers
  <2> SUFFICES ASSUME TypeOK, CallInv, NEW p \in Peers, Due(p, SignalTypes)
               PROVE  Head(inbox[p]).from \in session[p] \cup missed[p]
    BY DEF SignalsAreFromPeers
  <2>1. inbox[p] # <<>> /\ Head(inbox[p]).type \in RelayTypes
    BY DEF Due, RelayTypes
  <2>2. Head(inbox[p]).from \in Met[p]
    BY <2>1, FirstIsMet DEF CallInv
  <2>3. QED
    BY <2>2, MetParts
<1>2. QED
  BY <1>1, CallInvariant, PTL
----------------------------------------------------------------------------
(***************************************************************************)
(* No frame is played twice or after a later one, for any number of        *)
(* clients and frames, whatever the network and the coordinator do to them.*)
(*                                                                         *)
(* That the frames played of a peer increase is not inductive: once the    *)
(* filter is forgotten it says nothing of what was played.  What does is   *)
(* where the frames still are: those on the network are newer than all     *)
(* that were played when the filter is empty, and those in an inbox are    *)
(* newer as long as nothing of their sender came directly; they are in     *)
(* order, and none follows its sender's departure, which forgets what came *)
(* directly.                                                               *)
(***************************************************************************)

(* The inductive invariant. *)

\* s is newer than all of a history.
Newer(hist, s) == \A k \in 1..Len(hist) : hist[k] < s

\* What was played increases, was sent (of n frames), and is what the filter l
\* says, if it says anything.
PlayedRight(hist, l, n) ==
    /\ \A i, j \in 1..Len(hist) : i < j => hist[i] < hist[j]
    /\ \A k \in 1..Len(hist) : hist[k] <= n /\ (l # 0 => hist[k] <= l)

IsFrame(ev, q) == ev.type = "voice_frame" /\ ev.from = q

\* The frames of q in a box are in order and before q's departure.
FramesInOrder(box, q) ==
    \A i, j \in 1..Len(box) :
        i < j /\ IsFrame(box[j], q) =>
            ~Removes(box[i], q) /\ (IsFrame(box[i], q) => box[i].seq < box[j].seq)

\* They were sent, and are new unless frames of q come directly.
FramesAreNew(box, q, hist, direct, n) ==
    \A i \in 1..Len(box) :
        IsFrame(box[i], q) => box[i].seq <= n /\ (direct \/ Newer(hist, box[i].seq))

BoxRight(box, q, hist, direct, n) == FramesInOrder(box, q) /\ FramesAreNew(box, q, hist, direct, n)

\* A voice packet was sent, and is new to an empty filter.
PacketRight(pkt) ==
    pkt.type = "voice" =>
        /\ 1 <= pkt.seq /\ pkt.seq <= seq[pkt.from]
        /\ last[pkt.to][pkt.from] = 0 => Newer(played[pkt.to][pkt.from], pkt.seq)

VoiceInv ==
    /\ \A p, q \in Peers : PlayedRight(played[p][q], last[p][q], seq[q])
    /\ \A pkt \in net : PacketRight(pkt)
    /\ \A p, q \in Peers : BoxRight(inbox[p], q, played[p][q], Connected(p, q), seq[q])
----------------------------------------------------------------------------
(* One box. *)

LEMMA BoxAppend ==
    ASSUME NEW box \in Seq(Event), NEW ev \in Event, NEW q, NEW hist, NEW direct, NEW n,
           BoxRight(box, q, hist, direct, n),
           IsFrame(ev, q) =>
               /\ ev.seq <= n /\ (direct \/ Newer(hist, ev.seq))
               /\ \A i \in 1..Len(box) :
                     ~Removes(box[i], q) /\ (IsFrame(box[i], q) => box[i].seq < ev.seq)
    PROVE  BoxRight(Append(box, ev), q, hist, direct, n)
<1>1. /\ Len(Append(box, ev)) = Len(box) + 1 /\ Len(box) \in Nat
      /\ \A j \in 1..Len(box) : Append(box, ev)[j] = box[j]
      /\ Append(box, ev)[Len(box) + 1] = ev
  OBVIOUS
<1> DEFINE new == Append(box, ev)
<1> HIDE DEF new
<1>2. FramesInOrder(new, q)
  <2> SUFFICES ASSUME NEW i \in 1..Len(new), NEW j \in 1..Len(new), i < j, IsFrame(new[j], q)
               PROVE  ~Removes(new[i], q) /\ (IsFrame(new[i], q) => new[i].seq < new[j].seq)
    BY DEF FramesInOrder
  <2>1. i \in 1..Len(box) /\ new[i] = box[i]
    BY <1>1 DEF new
  <2>2. CASE j \in 1..Len(box)
    BY <1>1, <2>1, <2>2 DEF new, BoxRight, FramesInOrder
  <2>3. CASE j = Len(box) + 1
    BY <1>1, <2>1, <2>3 DEF new
  <2>4. QED
    BY <1>1, <2>2, <2>3 DEF new
<1>3. FramesAreNew(new, q, hist, direct, n)
  <2> SUFFICES ASSUME NEW i \in 1..Len(new), IsFrame(new[i], q)
               PROVE  new[i].seq <= n /\ (direct \/ Newer(hist, new[i].seq))
    BY DEF FramesAreNew
  <2>1. CASE i \in 1..Len(box)
    BY <1>1, <2>1 DEF new, BoxRight, FramesAreNew
  <2>2. CASE i = Len(box) + 1
    BY <1>1, <2>2 DEF new
  <2>3. QED
    BY <1>1, <2>1, <2>2 DEF new
<1>4. QED
  BY <1>2, <1>3 DEF BoxRight, new

LEMMA BoxPrefix ==
    ASSUME NEW box \in Seq(Event), NEW m \in 0..Len(box), NEW q, NEW hist, NEW direct, NEW n,
           BoxRight(box, q, hist, direct, n)
    PROVE  BoxRight(SubSeq(box, 1, m), q, hist, direct, n)
<1>1. /\ Len(SubSeq(box, 1, m)) = m /\ Len(box) \in Nat
      /\ \A i \in 1..m : i \in 1..Len(box) /\ SubSeq(box, 1, m)[i] = box[i]
  OBVIOUS
<1>2. QED
  BY <1>1 DEF BoxRight, FramesInOrder, FramesAreNew

\* Handling an event leaves the rest, and after q's departure no frame of q.
LEMMA BoxTail ==
    ASSUME NEW box \in Seq(Event), box # <<>>, NEW q, NEW hist, NEW direct, NEW n,
           BoxRight(box, q, hist, direct, n)
    PROVE  /\ BoxRight(Tail(box), q, hist, direct, n)
           /\ Removes(box[1], q) => \A other : BoxRight(Tail(box), q, hist, other, n)
           /\ \A i \in 1..Len(Tail(box)) :
                 IsFrame(box[1], q) /\ IsFrame(Tail(box)[i], q) => box[1].seq < Tail(box)[i].seq
<1>1. /\ Len(Tail(box)) = Len(box) - 1 /\ Len(box) \in Nat \ {0}
      /\ \A i \in 1..Len(Tail(box)) : i + 1 \in 1..Len(box) /\ 1 < i + 1 /\ Tail(box)[i] = box[i + 1]
  OBVIOUS
<1>2. FramesInOrder(Tail(box), q)
  <2> SUFFICES ASSUME NEW i \in 1..Len(Tail(box)), NEW j \in 1..Len(Tail(box)), i < j,
                      IsFrame(Tail(box)[j], q)
               PROVE  /\ ~Removes(Tail(box)[i], q)
                      /\ IsFrame(Tail(box)[i], q) => Tail(box)[i].seq < Tail(box)[j].seq
    BY DEF FramesInOrder
  <2>1. i + 1 < j + 1
    OBVIOUS
  <2>2. QED
    BY <1>1, <2>1 DEF BoxRight, FramesInOrder
<1>3. FramesAreNew(Tail(box), q, hist, direct, n)
  BY <1>1 DEF BoxRight, FramesAreNew
<1>4. ASSUME NEW i \in 1..Len(Tail(box)), IsFrame(Tail(box)[i], q)
      PROVE  ~Removes(box[1], q) /\ (IsFrame(box[1], q) => box[1].seq < Tail(box)[i].seq)
  BY <1>1, <1>4 DEF BoxRight, FramesInOrder
<1>5. ASSUME Removes(box[1], q), NEW other
      PROVE  BoxRight(Tail(box), q, hist, other, n)
  BY <1>2, <1>4, <1>5 DEF BoxRight, FramesAreNew
<1>6. QED
  BY <1>2, <1>3, <1>4, <1>5 DEF BoxRight
----------------------------------------------------------------------------
(* All boxes. *)

BoxesRight(boxes) ==
    \A x, q \in Peers : BoxRight(boxes[x], q, played[x][q], Connected(x, q), seq[q])

LEMMA ToldRight ==
    ASSUME NEW boxes \in Boxes, NEW Q, NEW ev \in Event, BoxesRight(boxes),
           ev.type # "voice_frame"
    PROVE  BoxesRight(Told(boxes, Q, ev))
<1>1. \A q : ~IsFrame(ev, q)
  BY DEF IsFrame
<1>2. \A x \in Peers : /\ boxes[x] \in Seq(Event)
                        /\ Told(boxes, Q, ev)[x] = IF x \in Q /\ online[x]
                                                   THEN Append(boxes[x], ev) ELSE boxes[x]
  BY DEF Told, Boxes
<1>3. QED
  BY <1>1, <1>2, BoxAppend DEF BoxesRight

LEMMA SignalRight ==
    ASSUME TypeOK, NEW boxes \in Boxes, NEW p \in Peers, NEW Q, NEW type \in SignalTypes,
           BoxesRight(boxes), Signal(boxes, p, Q, type)
    PROVE  BoxesRight(inbox')
<1>1. PICK D : inbox' = Told(boxes, D, [type |-> type, from |-> p])
  BY DEF Signal
<1>2. [type |-> type, from |-> p] \in Event /\ type # "voice_frame"
  BY EventTypes DEF SignalTypes
<1>3. QED
  BY <1>1, <1>2, ToldRight

LEMMA RestRight ==
    ASSUME TypeOK, NEW p \in Peers, inbox[p] # <<>>, BoxesRight(inbox)
    PROVE  Rest(p) \in Boxes /\ BoxesRight(Rest(p))
<1>1. inbox \in Boxes /\ inbox[p] \in Seq(Event)
  BY TypeParts DEF Boxes
<1>2. Rest(p) = [inbox EXCEPT ![p] = Tail(inbox[p])]
  BY DEF Rest
<1>3. \A x \in Peers : Rest(p)[x] = IF x = p THEN Tail(inbox[p]) ELSE inbox[x]
  BY <1>1, <1>2 DEF Boxes
<1>4. QED
  BY <1>1, <1>3, RestType, BoxTail DEF BoxesRight
----------------------------------------------------------------------------
(* Steps in which nothing is said and nothing heard. *)

LEMMA NoVoice ==
    ASSUME TypeOK, VoiceInv, UNCHANGED voiceVars,
           \A pkt \in net' : pkt.type = "voice" => pkt \in net,
           \A x, q \in Peers : BoxRight(inbox'[x], q, played[x][q], Connected(x, q)', seq[q])
    PROVE  VoiceInv'
<1>1. seq' = seq /\ last' = last /\ played' = played
  BY DEF voiceVars
<1>2. \A pkt \in net' : PacketRight(pkt)'
  BY <1>1 DEF VoiceInv, PacketRight
<1>3. QED
  BY <1>1, <1>2 DEF VoiceInv

LEMMA Quiet ==
    ASSUME TypeOK, VoiceInv, UNCHANGED voiceVars,
           \A pkt \in net' : pkt.type = "voice" => pkt \in net,
           BoxesRight(inbox'),
           \A x, q \in Peers : Connected(x, q) => Connected(x, q)'
    PROVE  VoiceInv'
<1>1. \A x, q \in Peers : BoxRight(inbox'[x], q, played[x][q], Connected(x, q)', seq[q])
  <2> SUFFICES ASSUME NEW x \in Peers, NEW q \in Peers
               PROVE  BoxRight(inbox'[x], q, played[x][q], Connected(x, q)', seq[q])
    OBVIOUS
  <2>1. BoxRight(inbox'[x], q, played[x][q], Connected(x, q), seq[q])
    BY DEF BoxesRight
  <2>2. QED
    BY <2>1 DEF BoxRight, FramesAreNew
<1>2. QED
  BY <1>1, NoVoice

\* A route that is written keeps what was heard.
LEMMA StillConnected ==
    ASSUME TypeOK, NEW p \in Peers, NEW y \in Peers, NEW rt \in Route,
           route' = WithRoute(p, y, rt), RouteTo(p, y).heard => rt.heard
    PROVE  \A x, q \in Peers : Connected(x, q) => Connected(x, q)'
<1>1. /\ DOMAIN route'[p] = DOMAIN route[p] \cup {y}
      /\ route'[p][y] = rt
      /\ \A x \in DOMAIN route[p] \ {y} : route'[p][x] = route[p][x]
      /\ \A x \in Peers \ {p} : route'[x] = route[x]
  BY WithRouteType DEF TypeOK
<1>2. QED
  BY <1>1 DEF Connected, RouteTo

LEMMA PingsOnly ==
    ASSUME NEW p, NEW q, NEW rt
    PROVE  \A pkt \in Sent(p, q, rt, "ping", 0) : pkt.type # "voice"
BY DEF Sent

LEMMA MeetVoice ==
    ASSUME TypeOK, VoiceInv, NEW p \in Peers, NEW Q \in SUBSET Peers, inbox[p] # <<>>, Meet(p, Q)
    PROVE  VoiceInv'
<1>1. BoxesRight(inbox')
  BY RestRight, SignalRight DEF Meet, VoiceInv, BoxesRight, SignalTypes
<1>2. \A x, q \in Peers : Connected(x, q) => Connected(x, q)'
  <2>1. /\ DOMAIN route'[p] = DOMAIN route[p] \cup (IF running[p] THEN Q \ {p} ELSE {})
        /\ \A q \in DOMAIN route'[p] :
              route'[p][q] = IF q \in OffersTo(p, Q) THEN [RouteTo(p, q) EXCEPT !.offerSent = TRUE]
                             ELSE RouteTo(p, q)
        /\ \A x \in Peers \ {p} : route'[x] = route[x]
    BY EnsureType DEF Meet, TypeOK
  <2>2. \A q \in DOMAIN route[p] : route[p][q] \in Route /\ RouteTo(p, q) = route[p][q]
    BY DEF TypeOK, DirectTypeOK, RouteTo
  <2>3. ASSUME NEW q \in DOMAIN route[p]
        PROVE  q \in DOMAIN route'[p] /\ route'[p][q].heard = route[p][q].heard
    <3>1. q \in DOMAIN route'[p]
      BY <2>1
    <3>2. \/ route'[p][q] = [route[p][q] EXCEPT !.offerSent = TRUE]
          \/ route'[p][q] = route[p][q]
      BY <2>1, <2>2, <3>1
    <3>3. [route[p][q] EXCEPT !.offerSent = TRUE].heard = route[p][q].heard
      BY <2>2 DEF Route
    <3>4. QED
      BY <3>1, <3>2, <3>3
  <2>4. QED
    BY <2>1, <2>3 DEF Connected
<1>3. QED
  BY <1>1, <1>2, Quiet DEF Meet

LEMMA HandleIceVoice ==
    ASSUME TypeOK, VoiceInv, NEW p \in Peers, HandleIce(p)
    PROVE  VoiceInv'
<1> DEFINE q == Head(inbox[p]).from
           type == Head(inbox[p]).type
           rt == [RouteTo(p, q) EXCEPT !.cands = TRUE, !.answerSent = @ \/ Answers(p, q, type)]
<1>1. q \in Peers /\ inbox[p] # <<>>
  BY RestType DEF HandleIce, Due, Event, SignalTypes
<1>2. BoxesRight(inbox')
  BY <1>1, RestRight, SignalRight DEF HandleIce, VoiceInv, BoxesRight, SignalTypes
<1>3. UNCHANGED voiceVars /\ HandleSignal(p, q, type)
  BY DEF HandleIce
<1>4. /\ \A pkt \in net' : pkt.type = "voice" => pkt \in net
      /\ \A x, y \in Peers : Connected(x, y) => Connected(x, y)'
  <2>1. CASE ~running[p]
    BY <1>3, <2>1 DEF HandleSignal, Connected
  <2>2. CASE running[p]
    <3>1. RouteTo(p, q) \in Route
      BY <1>1, RouteToType DEF TypeOK
    <3>2. Answers(p, q, type) \in BOOLEAN
      BY <1>1, <3>1 DEF Answers, Route, TypeOK, DirectTypeOK
    <3>3. rt \in Route /\ rt.heard = RouteTo(p, q).heard
      <4> HIDE DEF q, type
      <4>1. QED
        BY <3>1, <3>2 DEF Route
    <3>4. route' = WithRoute(p, q, rt) /\ net' = net \cup Sent(p, q, rt, "ping", 0)
      BY <1>3, <2>2 DEF HandleSignal
    <3> HIDE DEF rt
    <3>5. QED
      BY <1>1, <3>3, <3>4, StillConnected, PingsOnly
  <2>3. QED
    BY <2>1, <2>2
<1>5. QED
  BY <1>2, <1>3, <1>4, Quiet

LEMMA HandlePeerLeftVoice ==
    ASSUME TypeOK, VoiceInv, NEW p \in Peers, HandlePeerLeft(p)
    PROVE  VoiceInv'
<1> DEFINE q == Head(inbox[p]).from
<1>1. /\ inbox[p] \in Seq(Event) /\ inbox[p] # <<>> /\ q \in Peers
      /\ Removes(inbox[p][1], q)
  <2>1. inbox[p] \in Seq(Event) /\ inbox[p] # <<>> /\ Head(inbox[p]).type = "peer_left"
    BY TypeParts DEF HandlePeerLeft, Due, Boxes
  <2>2. Head(inbox[p]) = inbox[p][1] /\ Head(inbox[p]) \in Event
    BY <2>1
  <2>3. QED
    BY <2>1, <2>2 DEF Removes, Event, SignalTypes
<1>2. \A x, y \in Peers : <<x, y>> # <<p, q>> => Connected(x, y) = Connected(x, y)'
  <2>1. /\ DOMAIN route'[p] = DOMAIN route[p] \ {q}
        /\ \A x \in DOMAIN route'[p] : route'[p][x] = route[p][x]
        /\ \A x \in Peers \ {p} : route'[x] = route[x]
    BY <1>1, RemoveType DEF HandlePeerLeft, TypeOK
  <2> HIDE DEF q
  <2>2. QED
    BY <2>1 DEF Connected
<1>3. BoxesRight(Rest(p)) /\ Rest(p) = inbox'
  BY <1>1, RestRight DEF VoiceInv, BoxesRight, HandlePeerLeft
<1>4. ASSUME NEW x \in Peers, NEW y \in Peers
      PROVE  BoxRight(inbox'[x], y, played[x][y], Connected(x, y)', seq[y])
  <2>1. CASE <<x, y>> = <<p, q>>
    <3>1. inbox'[p] = Tail(inbox[p])
      BY <1>3, TypeParts DEF Rest, Boxes
    <3>2. BoxRight(inbox[p], q, played[p][q], Connected(p, q), seq[q])
      BY <1>1 DEF VoiceInv
    <3> HIDE DEF q
    <3>3. \A other : BoxRight(Tail(inbox[p]), q, played[p][q], other, seq[q])
      BY <1>1, <3>2, BoxTail
    <3>4. QED
      BY <2>1, <3>1, <3>3
  <2>2. CASE <<x, y>> # <<p, q>>
    BY <1>2, <1>3, <2>2 DEF BoxesRight
  <2>3. QED
    BY <2>1, <2>2
<1>5. QED
  BY <1>4, NoVoice DEF HandlePeerLeft

LEMMA CloseVoice ==
    ASSUME TypeOK, VoiceInv, NEW p \in Peers, Close(p)
    PROVE  VoiceInv'
<1>1. /\ inbox'[p] = <<>> /\ \A x \in Peers \ {p} : inbox'[x] = inbox[x]
      /\ UNCHANGED voiceVars /\ net' = net
  BY TypeParts DEF Close, Boxes, StopTransport
<1>2. \A x \in Peers \ {p} : route'[x] = route[x]
  BY StopType DEF Close, TypeOK
<1>3. ASSUME NEW x \in Peers, NEW q \in Peers
      PROVE  BoxRight(inbox'[x], q, played[x][q], Connected(x, q)', seq[q])
  <2>1. CASE x = p
    BY <1>1, <2>1 DEF BoxRight, FramesInOrder, FramesAreNew
  <2>2. CASE x # p
    BY <1>1, <1>2, <2>2 DEF VoiceInv, Connected
  <2>3. QED
    BY <2>1, <2>2
<1>4. QED
  BY <1>1, <1>3, NoVoice

LEMMA EnterVoice ==
    ASSUME TypeOK, VoiceInv, NEW p \in Peers, Enter(p)
    PROVE  VoiceInv'
<1>0. PICK D \in SUBSET member :
          inbox' = [Told(inbox, member \ D, [type |-> "peer_joined", from |-> p])
                       EXCEPT ![p] = <<[type |-> "joined_room", peers |-> member]>>]
  BY DEF Enter
<1> DEFINE told == Told(inbox, member \ D, [type |-> "peer_joined", from |-> p])
           first == <<[type |-> "joined_room", peers |-> member]>>
<1>1. told \in Boxes /\ BoxesRight(told)
  <2>1. [type |-> "peer_joined", from |-> p] \in Event /\ inbox \in Boxes
    BY TypeParts, EventTypes
  <2>2. QED
    BY <2>1, ToldType, ToldRight DEF VoiceInv, BoxesRight
<1>2. inbox' = [told EXCEPT ![p] = first]
  BY <1>0
<1>3. \A q, hist, direct, n : BoxRight(first, q, hist, direct, n)
  BY DEF BoxRight, FramesInOrder, FramesAreNew, IsFrame
<1>4. BoxesRight(inbox')
  <2> HIDE DEF told, first
  <2>1. \A x \in Peers : inbox'[x] = IF x = p THEN first ELSE told[x]
    BY <1>1, <1>2 DEF Boxes
  <2>2. QED
    BY <1>1, <1>3, <2>1 DEF BoxesRight
<1>5. QED
  BY <1>4, Quiet DEF Enter, directVars, Connected

LEMMA LoseConnectionVoice ==
    ASSUME TypeOK, VoiceInv, NEW p \in Peers, LoseConnection(p)
    PROVE  VoiceInv'
<1>1. PICK m \in 0..Len(inbox[p]) : inbox' = [inbox EXCEPT ![p] = SubSeq(@, 1, m)]
  BY DEF LoseConnection
<1>2. \A x \in Peers : inbox[x] \in Seq(Event)
                        /\ inbox'[x] = IF x = p THEN SubSeq(inbox[p], 1, m) ELSE inbox[x]
  BY <1>1, TypeParts DEF Boxes
<1>3. BoxesRight(inbox')
  BY <1>2, BoxPrefix DEF BoxesRight, VoiceInv
<1>4. QED
  BY <1>3, Quiet DEF LoseConnection, directVars, Connected
----------------------------------------------------------------------------
(* Steps in which a frame is played, sent or forgotten. *)

LEMMA AppendPlayed ==
    ASSUME NEW hist \in Seq(1..MaxSeq), NEW l, NEW n, NEW s \in 1..MaxSeq, PlayedRight(hist, l, n),
           Newer(hist, s), s <= n
    PROVE  /\ PlayedRight(Append(hist, s), s, n)
           /\ \A x : Newer(hist, x) /\ s < x => Newer(Append(hist, s), x)
<1>1. /\ Len(Append(hist, s)) = Len(hist) + 1 /\ Len(hist) \in Nat
      /\ \A k \in 1..Len(hist) : Append(hist, s)[k] = hist[k] /\ hist[k] \in Nat
      /\ Append(hist, s)[Len(hist) + 1] = s
  OBVIOUS
<1> DEFINE new == Append(hist, s)
<1> HIDE DEF new
<1>2. \A k \in 1..Len(new) : \/ k \in 1..Len(hist) /\ new[k] = hist[k] /\ new[k] < s
                             \/ k = Len(hist) + 1 /\ new[k] = s
  BY <1>1 DEF Newer, new
<1>3. \A i, j \in 1..Len(new) : i < j => new[i] < new[j]
  <2> SUFFICES ASSUME NEW i \in 1..Len(new), NEW j \in 1..Len(new), i < j
               PROVE  new[i] < new[j]
    OBVIOUS
  <2>1. i \in 1..Len(hist) /\ new[i] = hist[i] /\ new[i] < s
    BY <1>1, <1>2 DEF new
  <2>2. CASE j \in 1..Len(hist) /\ new[j] = hist[j]
    BY <2>1, <2>2 DEF PlayedRight
  <2>3. CASE new[j] = s
    BY <2>1, <2>3
  <2>4. QED
    BY <1>2, <2>2, <2>3
<1>4. \A k \in 1..Len(new) : new[k] <= n /\ (s # 0 => new[k] <= s)
  <2> SUFFICES ASSUME NEW k \in 1..Len(new)
               PROVE  new[k] <= n /\ new[k] <= s
    OBVIOUS
  <2>1. CASE k \in 1..Len(hist) /\ new[k] = hist[k] /\ new[k] < s
    BY <1>1, <2>1 DEF PlayedRight
  <2>2. CASE new[k] = s
    BY <2>2
  <2>3. QED
    BY <1>2, <2>1, <2>2
<1>5. ASSUME NEW x, Newer(hist, x), s < x
      PROVE  Newer(new, x)
  BY <1>2, <1>5 DEF Newer
<1>6. QED
  BY <1>3, <1>4, <1>5 DEF PlayedRight, new

\* A new frame of q is played by p, and the frames that remain are newer still.
LEMMA PlayVoice ==
    ASSUME TypeOK, VoiceInv, NEW p \in Peers, NEW q \in Peers, NEW s \in 1..MaxSeq,
           Newer(played[p][q], s), s <= seq[q],
           last' = [last EXCEPT ![p][q] = s], played' = [played EXCEPT ![p][q] = Append(@, s)],
           seq' = seq, net' \subseteq net, BoxesRight(inbox'),
           \A x, y \in Peers : Connected(x, y) => Connected(x, y)',
           Connected(p, q)' \/ \A i \in 1..Len(inbox'[p]) :
                                  IsFrame(inbox'[p][i], q) => s < inbox'[p][i].seq
    PROVE  VoiceInv'
<1> DEFINE new == Append(played[p][q], s)
<1>1. \A x, y \in Peers :
          /\ played'[x][y] = IF x = p /\ y = q THEN new ELSE played[x][y]
          /\ last'[x][y] = IF x = p /\ y = q THEN s ELSE last[x][y]
  BY DEF TypeOK
<1>2. played[p][q] \in Seq(1..MaxSeq) /\ PlayedRight(played[p][q], last[p][q], seq[q])
  BY DEF TypeOK, VoiceInv
<1>3. /\ PlayedRight(new, s, seq[q])
      /\ \A x : Newer(played[p][q], x) /\ s < x => Newer(new, x)
  BY <1>2, AppendPlayed
<1> HIDE DEF new
<1>4. \A x, y \in Peers : PlayedRight(played'[x][y], last'[x][y], seq'[y])
  BY <1>1, <1>3 DEF VoiceInv
<1>5. ASSUME NEW pkt \in net' PROVE PacketRight(pkt)'
  <2>1. PacketRight(pkt) /\ pkt.from \in Peers /\ pkt.to \in Peers
    BY DEF VoiceInv, TypeOK, DirectTypeOK, Packet
  <2>2. s # 0
    OBVIOUS
  <2>3. QED
    BY <1>1, <2>1, <2>2 DEF PacketRight
<1>6. ASSUME NEW x \in Peers, NEW y \in Peers
      PROVE  BoxRight(inbox'[x], y, played'[x][y], Connected(x, y)', seq'[y])
  <2>1. BoxRight(inbox'[x], y, played[x][y], Connected(x, y), seq[y])
    BY DEF BoxesRight
  <2>2. CASE x = p /\ y = q
    <3>1. ASSUME NEW i \in 1..Len(inbox'[p]), IsFrame(inbox'[p][i], q), ~Connected(p, q)'
          PROVE  Newer(new, inbox'[p][i].seq)
      <4>1. Newer(played[p][q], inbox'[p][i].seq)
        BY <2>1, <2>2, <3>1 DEF BoxRight, FramesAreNew
      <4>2. QED
        BY <1>3, <3>1, <4>1
    <3>2. QED
      BY <1>1, <2>1, <2>2, <3>1 DEF BoxRight, FramesAreNew
  <2>3. CASE ~(x = p /\ y = q)
    BY <1>1, <2>1, <2>3 DEF BoxRight, FramesAreNew
  <2>4. QED
    BY <2>2, <2>3
<1>7. QED
  BY <1>4, <1>5, <1>6 DEF VoiceInv

LEMMA HandleVoiceFrameVoice ==
    ASSUME TypeOK, VoiceInv, NEW p \in Peers, HandleVoiceFrame(p)
    PROVE  VoiceInv'
<1> DEFINE q == Head(inbox[p]).from
           s == Head(inbox[p]).seq
<1>1. /\ inbox[p] \in Seq(Event) /\ inbox[p] # <<>> /\ q \in Peers /\ s \in 1..MaxSeq
      /\ inbox[p][1] = Head(inbox[p]) /\ 1 \in 1..Len(inbox[p])
      /\ IsFrame(inbox[p][1], q)
  <2>1. inbox[p] \in Seq(Event) /\ inbox[p] # <<>> /\ Head(inbox[p]).type = "voice_frame"
    BY TypeParts DEF HandleVoiceFrame, Due, Boxes
  <2>2. Head(inbox[p]) = inbox[p][1] /\ Head(inbox[p]) \in Event /\ 1 \in 1..Len(inbox[p])
    BY <2>1
  <2>3. QED
    BY <2>1, <2>2 DEF IsFrame, Event, SignalTypes
<1>2. /\ inbox' = Rest(p) /\ BoxesRight(inbox')
      /\ UNCHANGED <<running, route, net, seq>>
      /\ \A x, y \in Peers : Connected(x, y) = Connected(x, y)'
  BY <1>1, RestRight DEF HandleVoiceFrame, VoiceInv, BoxesRight, directVars, Connected
<1>3. CASE UNCHANGED <<last, played>>
  BY <1>2, <1>3, Quiet DEF voiceVars
<1>4. CASE /\ ~Connected(p, q)
           /\ last' = [last EXCEPT ![p][q] = s] /\ played' = [played EXCEPT ![p][q] = Append(@, s)]
  <2>1. BoxRight(inbox[p], q, played[p][q], Connected(p, q), seq[q])
    BY <1>1 DEF VoiceInv
  <2>2. Newer(played[p][q], s) /\ s <= seq[q]
    BY <1>1, <1>4, <2>1 DEF BoxRight, FramesAreNew
  <2>3. inbox'[p] = Tail(inbox[p])
    BY <1>2, TypeParts DEF Rest, Boxes
  <2>4. \A i \in 1..Len(inbox'[p]) : IsFrame(inbox'[p][i], q) => s < inbox'[p][i].seq
    <3>1. \A i \in 1..Len(Tail(inbox[p])) :
             IsFrame(Tail(inbox[p])[i], q) => inbox[p][1].seq < Tail(inbox[p])[i].seq
      BY <1>1, <2>1, BoxTail
    <3>2. QED
      BY <1>1, <2>3, <3>1
  <2> HIDE DEF q, s
  <2>5. QED
    BY <1>1, <1>2, <1>4, <2>2, <2>4, PlayVoice
<1>5. QED
  BY <1>3, <1>4 DEF HandleVoiceFrame, PlayRemoteFrame

LEMMA ReceivePacketVoice ==
    ASSUME TypeOK, VoiceInv, NEW pkt \in net, ReceivePacket(pkt.to, pkt)
    PROVE  VoiceInv'
<1> DEFINE p == pkt.to
           q == pkt.from
           s == pkt.seq
           rt == [RouteTo(p, q) EXCEPT !.heard = TRUE,
                                       !.last = IF Accepts(p, pkt) THEN pkt.seq ELSE @]
<1>1. p \in Peers /\ q \in Peers /\ s \in 0..MaxSeq /\ PacketRight(pkt)
  BY DEF VoiceInv, TypeOK, DirectTypeOK, Packet
<1>2. RouteTo(p, q) \in Route
  BY <1>1, RouteToType DEF TypeOK
<1>3. rt \in Route /\ rt.heard
  BY <1>1, <1>2 DEF Route
<1>4. route' = WithRoute(p, q, rt) /\ net' \subseteq net /\ inbox' = inbox /\ seq' = seq
  BY DEF ReceivePacket, Receive, callVars
<1> HIDE DEF rt
<1>5. Connected(p, q)' /\ \A x, y \in Peers : Connected(x, y) => Connected(x, y)'
  <2> HIDE DEF p, q, s
  <2>0. DirectTypeOK
    BY DEF TypeOK
  <2>1. DOMAIN route'[p] = DOMAIN route[p] \cup {q} /\ route'[p][q] = rt
    BY <1>1, <1>3, <1>4, <2>0, WithRouteType
  <2>2. QED
    BY <1>1, <1>3, <1>4, <2>1, StillConnected DEF Connected
<1>6. BoxesRight(inbox')
  BY <1>4 DEF VoiceInv, BoxesRight
<1>7. CASE UNCHANGED <<last, played>>
  BY <1>4, <1>5, <1>6, <1>7, Quiet DEF voiceVars
<1>8. CASE /\ Accepts(p, pkt) /\ s > last[p][q]
           /\ last' = [last EXCEPT ![p][q] = s] /\ played' = [played EXCEPT ![p][q] = Append(@, s)]
  <2>1. pkt.type = "voice"
    BY <1>8 DEF Accepts
  <2>2. 1 <= s /\ s <= seq[q] /\ (last[p][q] = 0 => Newer(played[p][q], s))
    BY <1>1, <2>1 DEF PacketRight
  <2>3. Newer(played[p][q], s)
    <3>1. CASE last[p][q] # 0
      <4> HIDE DEF p, q, s
      <4>0. PlayedRight(played[p][q], last[p][q], seq[q]) /\ played[p][q] \in Seq(1..MaxSeq)
        BY <1>1 DEF VoiceInv, TypeOK
      <4>1. \A k \in 1..Len(played[p][q]) : played[p][q][k] <= last[p][q] /\ played[p][q][k] \in Nat
        BY <3>1, <4>0 DEF PlayedRight
      <4>2. last[p][q] \in Nat /\ s \in Nat
        BY <1>1 DEF TypeOK
      <4>3. QED
        BY <1>8, <4>1, <4>2 DEF Newer
    <3>2. QED
      BY <2>2, <3>1
  <2>4. s \in 1..MaxSeq
    BY <1>1, <2>2
  <2> HIDE DEF p, q, s
  <2>5. QED
    BY <1>1, <1>4, <1>5, <1>6, <1>8, <2>2, <2>3, <2>4, PlayVoice
<1>9. QED
  BY <1>7, <1>8 DEF ReceivePacket, PlayRemoteFrame

LEMMA ForgetVoice ==
    ASSUME TypeOK, VoiceInv, NEW p \in Peers, NEW q \in Peers, Forget(p, q)
    PROVE  VoiceInv'
<1>1. /\ \A x, y \in Peers : last'[x][y] = IF x = p /\ y = q THEN 0 ELSE last[x][y]
      /\ UNCHANGED <<route, net, inbox, seq, played>>
  BY DEF Forget, TypeOK, directVars, callVars
<1>2. \A x, y \in Peers : PlayedRight(played'[x][y], last'[x][y], seq'[y])
  BY <1>1 DEF VoiceInv, PlayedRight
<1>3. ASSUME NEW pkt \in net PROVE PacketRight(pkt)'
  <2>1. PacketRight(pkt) /\ pkt.from \in Peers /\ pkt.to \in Peers
    BY DEF VoiceInv, TypeOK, DirectTypeOK, Packet
  <2>2. ~(pkt.type = "voice" /\ pkt.from = q /\ pkt.to = p)
    BY DEF Forget
  <2>3. QED
    BY <1>1, <2>1, <2>2 DEF PacketRight
<1>4. \A x, y \in Peers : BoxRight(inbox'[x], y, played'[x][y], Connected(x, y)', seq'[y])
  BY <1>1 DEF VoiceInv, Connected
<1>5. QED
  BY <1>1, <1>2, <1>3, <1>4 DEF VoiceInv

\* A frame that is sent now is newer than all others of its sender.
LEMMA TalkVoice ==
    ASSUME TypeOK, CallInv, VoiceInv, NEW p \in Peers, Talk(p)
    PROVE  VoiceInv'
<1> DEFINE n == seq[p] + 1
           ev == [type |-> "voice_frame", from |-> p, seq |-> n]
<1>1. /\ seq[p] \in Nat /\ n \in 1..MaxSeq /\ seq' = [seq EXCEPT ![p] = n] /\ seq'[p] = n
      /\ \A x \in Peers : seq[x] \in Nat /\ seq'[x] = IF x = p THEN n ELSE seq[x]
      /\ UNCHANGED <<route, last, played>>
  BY DEF Talk, TypeOK
<1>0. \A x \in Peers : seq[x] \in Nat /\ seq'[x] \in Nat /\ seq[x] <= seq'[x]
  BY <1>1
<1>2. PICK D : /\ inbox' = Told(inbox, D, ev)
               /\ D # {} => p \in member
  <2> DEFINE heard == IF (\E q \in session[p] : ~Connected(p, q)) /\ online[p] /\ p \in member
                      THEN member \ {p} ELSE {}
  <2>1. \E F \in SUBSET heard : inbox' = Told(inbox, heard \ F, ev)
    BY <1>1 DEF Talk
  <2>2. QED
    BY <2>1
<1>3. \A x, y \in Peers : PlayedRight(played'[x][y], last'[x][y], seq'[y])
  <2> SUFFICES ASSUME NEW x \in Peers, NEW y \in Peers
               PROVE  PlayedRight(played[x][y], last[x][y], seq'[y])
    BY <1>1
  <2>1. PlayedRight(played[x][y], last[x][y], seq[y]) /\ played[x][y] \in Seq(1..MaxSeq)
    BY DEF VoiceInv, TypeOK
  <2>2. \A k \in 1..Len(played[x][y]) : played[x][y][k] \in Nat
    BY <2>1
  <2>3. seq[y] \in Nat /\ seq'[y] \in Nat /\ seq[y] <= seq'[y]
    BY <1>0
  <2>4. \A k \in 1..Len(played[x][y]) : played[x][y][k] <= seq'[y]
    BY <2>1, <2>2, <2>3 DEF PlayedRight
  <2>5. QED
    BY <2>1, <2>4 DEF PlayedRight
<1>4. \A x \in Peers : Newer(played[x][p], n)
  <2> SUFFICES ASSUME NEW x \in Peers, NEW k \in 1..Len(played[x][p])
               PROVE  played[x][p][k] < n
    BY DEF Newer
  <2>0. PlayedRight(played[x][p], last[x][p], seq[p]) /\ played[x][p] \in Seq(1..MaxSeq)
    BY DEF VoiceInv, TypeOK
  <2>1. played[x][p][k] <= seq[p] /\ played[x][p][k] \in Nat
    BY <2>0 DEF PlayedRight
  <2>2. QED
    BY <1>1, <2>1
<1>5. ASSUME NEW pkt \in net' PROVE PacketRight(pkt)'
  <2>1. CASE pkt \in net
    <3>1. PacketRight(pkt) /\ pkt.from \in Peers /\ pkt.to \in Peers /\ pkt.seq \in Nat
      BY <2>1 DEF VoiceInv, TypeOK, DirectTypeOK, Packet
    <3>2. seq[pkt.from] <= seq'[pkt.from] /\ seq[pkt.from] \in Nat /\ seq'[pkt.from] \in Nat
      BY <1>0, <3>1
    <3> HIDE DEF n
    <3>3. QED
      BY <1>1, <3>1, <3>2 DEF PacketRight
  <2>2. CASE pkt \notin net
    <3>1. PICK q \in DOMAIN route[p] : pkt \in Sent(p, q, route[p][q], "voice", n)
      BY <1>1, <2>2 DEF Talk, SendVoiceFrame
    <3>2. q \in Peers /\ pkt.from = p /\ pkt.to = q /\ pkt.seq = n
      BY <3>1 DEF Sent, TypeOK, DirectTypeOK
    <3>3. QED
      BY <1>1, <1>4, <3>2 DEF PacketRight
  <2>3. QED
    BY <2>1, <2>2
<1>6. ASSUME NEW x \in Peers, NEW y \in Peers
      PROVE  BoxRight(inbox'[x], y, played'[x][y], Connected(x, y)', seq'[y])
  <2>1. inbox[x] \in Seq(Event) /\ ev \in Event
    BY <1>1, TypeParts, EventTypes DEF Boxes
  <2>2. inbox'[x] = IF x \in D /\ online[x] THEN Append(inbox[x], ev) ELSE inbox[x]
    BY <1>2 DEF Told
  <2>3. Connected(x, y)' = Connected(x, y) /\ played'[x][y] = played[x][y]
    BY <1>1 DEF Connected
  <2>4. BoxRight(inbox[x], y, played[x][y], Connected(x, y), seq[y])
    BY DEF VoiceInv
  <2>5. BoxRight(inbox[x], y, played[x][y], Connected(x, y), seq'[y])
    <3>1. seq[y] \in Nat /\ seq'[y] \in Nat /\ seq[y] <= seq'[y]
      BY <1>0
    <3>2. \A i \in 1..Len(inbox[x]) : IsFrame(inbox[x][i], y) => inbox[x][i].seq \in Nat
      BY <2>1 DEF IsFrame, Event, SignalTypes
    <3>3. FramesAreNew(inbox[x], y, played[x][y], Connected(x, y), seq'[y])
      BY <2>4, <3>1, <3>2 DEF BoxRight, FramesAreNew
    <3>4. QED
      BY <2>4, <3>3 DEF BoxRight
  <2>6. IsFrame(ev, y) /\ x \in D =>
            /\ y = p /\ ev.seq <= seq'[y] /\ Newer(played[x][y], ev.seq)
            /\ \A i \in 1..Len(inbox[x]) :
                  ~Removes(inbox[x][i], y) /\ (IsFrame(inbox[x][i], y) => inbox[x][i].seq < ev.seq)
    <3> SUFFICES ASSUME IsFrame(ev, y), x \in D
                 PROVE  /\ y = p /\ ev.seq <= seq'[y] /\ Newer(played[x][y], ev.seq)
                        /\ \A i \in 1..Len(inbox[x]) :
                              /\ ~Removes(inbox[x][i], y)
                              /\ IsFrame(inbox[x][i], y) => inbox[x][i].seq < ev.seq
      OBVIOUS
    <3>1. y = p /\ ev.seq = n /\ p \in member
      BY <1>2 DEF IsFrame
    <3>2. ASSUME NEW i \in 1..Len(inbox[x])
          PROVE  ~Removes(inbox[x][i], p)
      BY <3>1 DEF CallInv, Promises
    <3>3. ASSUME NEW i \in 1..Len(inbox[x]), IsFrame(inbox[x][i], p)
          PROVE  inbox[x][i].seq < n
      <4>1. inbox[x][i].seq <= seq[p]
        BY <2>4, <3>1, <3>3 DEF BoxRight, FramesAreNew
      <4>2. inbox[x][i].seq \in Nat
        BY <2>1, <3>3 DEF IsFrame, Event, SignalTypes
      <4>3. QED
        BY <1>1, <4>1, <4>2
    <3>4. seq'[y] = n /\ Newer(played[x][y], n) /\ n \in Nat
      BY <1>1, <1>4, <3>1
    <3> HIDE DEF ev, n
    <3>5. QED
      BY <3>1, <3>2, <3>3, <3>4
  <2> HIDE DEF ev, n
  <2>7. QED
    BY <2>1, <2>2, <2>3, <2>5, <2>6, BoxAppend
<1>7. QED
  BY <1>3, <1>5, <1>6 DEF VoiceInv
----------------------------------------------------------------------------
LEMMA StepVoice == TypeOK /\ CallInv /\ VoiceInv /\ [Next]_vars => VoiceInv'
<1> SUFFICES ASSUME TypeOK, CallInv, VoiceInv, [Next]_vars PROVE VoiceInv'
  OBVIOUS
<1>0. BoxesRight(inbox) /\ inbox \in Boxes
  BY TypeParts DEF VoiceInv, BoxesRight
<1>1. ASSUME NEW p \in Peers, RemoveClient(p) PROVE VoiceInv'
  <2>1. BoxesRight(inbox')
    <3>1. \E D : inbox' = Told(inbox, D, [type |-> "peer_left", from |-> p])
      BY <1>1 DEF RemoveClient
    <3>2. QED
      BY <1>0, <3>1, ToldRight, EventTypes
  <2>2. QED
    BY <1>1, <2>1, Quiet DEF RemoveClient, directVars, Connected
<1>2. ASSUME NEW p \in Peers, Start(p) PROVE VoiceInv'
  BY <1>0, <1>2, Quiet DEF Start, StartTransport, Connected
<1>3. ASSUME NEW p \in Peers, HandleJoinedRoom(p) PROVE VoiceInv'
  <2>1. Head(inbox[p]).peers \in SUBSET Peers
    BY <1>3, RestType DEF HandleJoinedRoom, Due, Event, SignalTypes
  <2>2. QED
    BY <1>3, <2>1, MeetVoice DEF HandleJoinedRoom, Due
<1>4. ASSUME NEW p \in Peers, HandlePeerJoined(p) PROVE VoiceInv'
  <2>1. {Head(inbox[p]).from} \in SUBSET Peers
    BY <1>4, RestType DEF HandlePeerJoined, Due, Event, SignalTypes
  <2>2. QED
    BY <1>4, <2>1, MeetVoice DEF HandlePeerJoined, Due
<1>5. ASSUME NEW p \in Peers, NEW q \in Peers, ResendCandidates(p, q) PROVE VoiceInv'
  <2>1. BoxesRight(inbox')
    BY <1>0, <1>5, SignalRight DEF ResendCandidates, SignalTypes
  <2>2. \A x, y \in Peers : Connected(x, y) => Connected(x, y)'
    <3> DEFINE new == [route[p] EXCEPT ![q].resends = @ + 1]
    <3>1. route' = [route EXCEPT ![p] = new] /\ DOMAIN route = Peers /\ q \in DOMAIN route[p]
      BY <1>5 DEF ResendCandidates, Resend, TypeOK, DirectTypeOK
    <3>2. /\ DOMAIN new = DOMAIN route[p]
          /\ \A y \in DOMAIN route[p] \ {q} : new[y] = route[p][y]
      OBVIOUS
    <3>3. ~Connected(p, q)
      BY <1>5 DEF ResendCandidates, Resend, Connected
    <3> HIDE DEF new
    <3>4. route'[p] = new /\ \A x \in Peers \ {p} : route'[x] = route[x]
      BY <3>1
    <3>5. QED
      BY <3>2, <3>3, <3>4 DEF Connected
  <2>3. QED
    BY <1>5, <2>1, <2>2, Quiet DEF ResendCandidates, Resend
<1>6. ASSUME NEW p \in Peers, NEW q \in Peers, PingPeer(p, q) PROVE VoiceInv'
  BY <1>0, <1>6, PingsOnly, Quiet DEF PingPeer, Ping, callVars, Connected
<1>7. ASSUME NEW pkt \in net, LosePacket(pkt) PROVE VoiceInv'
  BY <1>0, <1>7, Quiet DEF LosePacket, Lose, callVars, Connected
<1>8. ASSUME NEW p \in Peers, HandlePeerStatus(p) PROVE VoiceInv'
  <2>1. BoxesRight(inbox')
    BY <1>0, <1>8, RestRight DEF HandlePeerStatus, Due
  <2>2. QED
    BY <1>8, <2>1, Quiet DEF HandlePeerStatus, directVars, Connected
<1>9. ASSUME NEW p \in Peers, BroadcastStatus(p) PROVE VoiceInv'
  <2>1. \E D : inbox' = Told(inbox, D, [type |-> "peer_status", from |-> p])
    BY <1>9 DEF BroadcastStatus
  <2>2. BoxesRight(inbox')
    BY <1>0, <2>1, ToldRight, EventTypes
  <2>3. QED
    BY <1>9, <2>2, Quiet DEF BroadcastStatus, directVars, Connected
<1>10. CASE UNCHANGED vars
  BY <1>0, <1>10, Quiet DEF vars, directVars, callVars, Connected
<1>11. QED
  BY <1>1, <1>2, <1>3, <1>4, <1>5, <1>6, <1>7, <1>8, <1>9, <1>10, EnterVoice, LoseConnectionVoice, CloseVoice,
     HandlePeerLeftVoice, HandleIceVoice, HandleVoiceFrameVoice, TalkVoice, ReceivePacketVoice,
     ForgetVoice DEF Next, HandleEvent, AllGone

LEMMA InitVoice == Init => VoiceInv
<1> SUFFICES ASSUME Init PROVE VoiceInv
  OBVIOUS
<1>1. /\ net = {} /\ \A p \in Peers : inbox[p] = <<>> /\ \A q \in Peers : played[p][q] = <<>>
  BY DEF Init, DirectInit
<1>2. Len(<<>>) = 0
  OBVIOUS
<1>3. \A l, n : PlayedRight(<<>>, l, n)
  BY <1>2 DEF PlayedRight
<1>4. \A q, hist, direct, n : BoxRight(<<>>, q, hist, direct, n)
  BY <1>2 DEF BoxRight, FramesInOrder, FramesAreNew
<1>5. QED
  BY <1>1, <1>3, <1>4 DEF VoiceInv

\* However frames come, directly or relayed, repeated, late or out of order,
\* and whatever routes and filters are forgotten meanwhile: nobody plays a
\* frame twice or after a later one of the same sender.
THEOREM PlayedOnce == Spec => []EachFrameOnce
<1>1. TypeOK /\ VoiceInv => EachFrameOnce
  <2> SUFFICES ASSUME TypeOK, VoiceInv, NEW p \in Peers, NEW q \in Peers
               PROVE  \A i, j \in DOMAIN played[p][q] : i < j => played[p][q][i] < played[p][q][j]
    BY DEF EachFrameOnce
  <2>1. played[p][q] \in Seq(1..MaxSeq)
    BY DEF TypeOK
  <2>2. DOMAIN played[p][q] = 1..Len(played[p][q])
    BY <2>1
  <2>3. QED
    BY <2>2 DEF VoiceInv, PlayedRight
<1>2. VoiceInv /\ TypeOK /\ CallInv /\ [Next]_vars => VoiceInv'
  BY StepVoice
<1>3. QED
  BY InitVoice, <1>1, <1>2, CallInvariant, PTL DEF Spec
=============================================================================
