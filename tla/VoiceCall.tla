----------------------------- MODULE VoiceCall -----------------------------
(***************************************************************************)
(* Clients in one room: what the application (client/src/core/             *)
(* Application.cpp) does between its session, the coordinator's relay, the *)
(* direct transport and the voice engine's filter of repeated frames.      *)
(*                                                                         *)
(* The coordinator is as Hub has it, seen by members of one room: it       *)
(* serialises what it is sent and what happens to its members, and sends   *)
(* events to each of them in that order, so that an inbox stands for the   *)
(* hub's channel, the socket and the signaling client's event queue.  A    *)
(* full channel loses any event for its client (MaxDrops bounds arrivals,  *)
(* departures and signals; voice frames and statuses are lost at will).    *)
(* Only the reply to a client's own request always arrives: Enter is a     *)
(* request that succeeded, and Squad has those that did not.               *)
(*                                                                         *)
(* The main loop is one thread: each event handled, packet received, ping  *)
(* or frame is a step.  Levels, icons and the overlay are left out.        *)
(***************************************************************************)
EXTENDS DirectVoice, Sequences

CONSTANT MaxDrops    \* bound: arrivals, departures and signals the coordinator drops

ASSUME DropsAssumption == MaxDrops \in Nat

VARIABLES
    phase,      \* client -> out | starting (in the room, no main loop yet) | on | gone
    online,     \* client -> SignalingClient::connected_
    member,     \* the coordinator's view of the room
    session,    \* client -> keys of VoiceSession::peers_
    inbox,      \* client -> events on their way to handleSignalingEvent
    seq,        \* client -> VoiceEngine::sequence_
    last,       \* client -> peer -> remoteAudio_[peer].lastSequence + 1, 0 if erased
    played,     \* client -> peer -> frames handed to the decoder, oldest first (history)
    drops,      \* arrivals, departures and signals dropped
    missed      \* client -> peers whose arrival was dropped on its way to the client
                \* and whose departure it has not handled (history)

callVars == <<phase, online, member, session, inbox>>
voiceVars == <<seq, last, played>>
lossVars == <<drops, missed>>
vars == <<directVars, callVars, voiceVars, lossVars>>

SignalTypes == {"ice_offer", "ice_answer", "ice_candidate"}

Event ==
    [type : {"joined_room"}, peers : SUBSET Peers]
        \cup [type : {"peer_joined", "peer_left", "peer_status"} \cup SignalTypes, from : Peers]
        \cup [type : {"voice_frame"}, from : Peers, seq : 1..MaxSeq]

TypeOK ==
    /\ DirectTypeOK
    /\ phase \in [Peers -> {"out", "starting", "on", "gone"}]
    /\ online \in [Peers -> BOOLEAN]
    /\ member \in SUBSET Peers
    /\ session \in [Peers -> SUBSET Peers]
    /\ inbox \in [Peers -> Seq(Event)]
    /\ seq \in [Peers -> 0..MaxSeq]
    /\ last \in [Peers -> [Peers -> 0..MaxSeq]]
    /\ played \in [Peers -> [Peers -> Seq(1..MaxSeq)]]
    /\ drops \in 0..MaxDrops
    /\ missed \in [Peers -> SUBSET Peers]

Init ==
    /\ DirectInit
    /\ phase = [p \in Peers |-> "out"]
    /\ online = [p \in Peers |-> FALSE]
    /\ member = {}
    /\ session = [p \in Peers |-> {}]
    /\ inbox = [p \in Peers |-> <<>>]
    /\ seq = [p \in Peers |-> 0]
    /\ last = [p \in Peers |-> [q \in Peers |-> 0]]
    /\ played = [p \in Peers |-> [q \in Peers |-> <<>>]]
    /\ drops = 0
    /\ missed = [p \in Peers |-> {}]
----------------------------------------------------------------------------
(* The coordinator. *)

\* Inboxes in which the coordinator has queued ev for those of Q that listen.
Told(boxes, Q, ev) ==
    [q \in Peers |-> IF q \in Q /\ online[q] THEN Append(boxes[q], ev) ELSE boxes[q]]

\* enqueue finds the channels of D full.
Dropped(D) ==
    /\ drops' = drops + Cardinality(D)
    /\ drops' <= MaxDrops

\* p sends a signal to each of Q: the coordinator relays it to members of the
\* room if p is connected and one itself, or drops it.
Signal(boxes, p, Q, type) ==
    LET heard == IF online[p] /\ p \in member THEN Q \cap member ELSE {}
    IN  \E D \in SUBSET heard :
            /\ Dropped(D)
            /\ inbox' = Told(boxes, heard \ D, [type |-> type, from |-> p])

Rest(p) == [inbox EXCEPT ![p] = Tail(@)]

\* Mutant: the others are not told.
EnterUnannounced(p) ==
    /\ phase[p] = "out"
    /\ phase' = [phase EXCEPT ![p] = "starting"]
    /\ online' = [online EXCEPT ![p] = TRUE]
    /\ member' = member \cup {p}
    /\ inbox' = [inbox EXCEPT ![p] = <<[type |-> "joined_room", peers |-> member]>>]
    /\ UNCHANGED <<directVars, session, voiceVars, lossVars>>

\* joinRoom succeeds, or createRoom for the first.  Members whose channels are
\* full are not told.
Enter(p) ==
    /\ phase[p] = "out"
    /\ phase' = [phase EXCEPT ![p] = "starting"]
    /\ online' = [online EXCEPT ![p] = TRUE]
    /\ member' = member \cup {p}
    /\ \E D \in SUBSET member :
          /\ Dropped(D)
          /\ missed' = [q \in Peers |-> missed[q] \cup {x \in {p} : q \in D}]
          /\ inbox' = [Told(inbox, member \ D, [type |-> "peer_joined", from |-> p])
                          EXCEPT ![p] = <<[type |-> "joined_room", peers |-> member]>>]
    /\ UNCHANGED <<directVars, session, voiceVars>>

\* The websocket fails; some of what is on its way to p still arrives.  The
\* application goes on without it.
LoseConnection(p) ==
    /\ online[p]
    /\ online' = [online EXCEPT ![p] = FALSE]
    /\ \E n \in 0..Len(inbox[p]) : inbox' = [inbox EXCEPT ![p] = SubSeq(@, 1, n)]
    /\ UNCHANGED <<directVars, phase, member, session, voiceVars, lossVars>>

\* removeClient.
RemoveClient(p) ==
    /\ p \in member
    /\ ~online[p]
    /\ member' = member \ {p}
    /\ \E D \in SUBSET member' :
          /\ Dropped(D)
          /\ inbox' = Told(inbox, member' \ D, [type |-> "peer_left", from |-> p])
    /\ UNCHANGED <<directVars, phase, online, session, voiceVars, missed>>
----------------------------------------------------------------------------
(* The application: start and end. *)

\* run has the room and starts the transport, which may fail; the main loop begins.
Start(p) ==
    /\ phase[p] = "starting"
    /\ phase' = [phase EXCEPT ![p] = "on"]
    /\ \E started \in BOOLEAN : StartTransport(p, started)
    /\ UNCHANGED <<online, member, session, inbox, voiceVars, lossVars>>

\* The main loop ends, or the process dies.
Close(p) ==
    /\ phase[p] = "on"
    /\ phase' = [phase EXCEPT ![p] = "gone"]
    /\ online' = [online EXCEPT ![p] = FALSE]
    /\ session' = [session EXCEPT ![p] = {}]
    /\ inbox' = [inbox EXCEPT ![p] = <<>>]
    /\ StopTransport(p)
    /\ UNCHANGED <<member, voiceVars, lossVars>>
----------------------------------------------------------------------------
(* handleSignalingEvent. *)

\* pump has an event of one of these types to handle.
Due(p, types) == phase[p] = "on" /\ inbox[p] # <<>> /\ Head(inbox[p]).type \in types

\* addOrUpdatePeer and ensurePeer for each of Q.
Meet(p, Q) ==
    /\ session' = [session EXCEPT ![p] = @ \cup (Q \ {p})]
    /\ EnsurePeers(p, Q)
    /\ Signal(Rest(p), p, OffersTo(p, Q), "ice_offer")
    /\ UNCHANGED <<running, net, phase, online, member, voiceVars, missed>>

HandleJoinedRoom(p) == Due(p, {"joined_room"}) /\ Meet(p, Head(inbox[p]).peers)

HandlePeerJoined(p) == Due(p, {"peer_joined"}) /\ Meet(p, {Head(inbox[p]).from})

\* A status makes its sender a peer of the session, and gives it no route.
HandlePeerStatus(p) ==
    /\ Due(p, {"peer_status"})
    /\ session' = [session EXCEPT ![p] = @ \cup ({Head(inbox[p]).from} \ {p})]
    /\ inbox' = Rest(p)
    /\ UNCHANGED <<directVars, phase, online, member, voiceVars, lossVars>>

HandlePeerLeft(p) ==
    /\ Due(p, {"peer_left"})
    /\ session' = [session EXCEPT ![p] = @ \ {Head(inbox[p]).from}]
    /\ RemovePeer(p, Head(inbox[p]).from)
    /\ missed' = [missed EXCEPT ![p] = @ \ {Head(inbox[p]).from}]
    /\ inbox' = Rest(p)
    /\ UNCHANGED <<running, net, phase, online, member, voiceVars, drops>>

HandleIce(p) ==
    /\ Due(p, SignalTypes)
    /\ LET ev == Head(inbox[p])
       IN  /\ HandleSignal(p, ev.from, ev.type)
           /\ Signal(Rest(p), p, IF Answers(p, ev.from, ev.type) THEN {ev.from} ELSE {}, "ice_answer")
    /\ UNCHANGED <<running, phase, online, member, session, voiceVars, missed>>

\* Mutant: no filter of sequences in playRemoteFrame.
PlayAnything(p, q, s) ==
    /\ last' = [last EXCEPT ![p][q] = s]
    /\ played' = [played EXCEPT ![p][q] = Append(@, s)]

\* playRemoteFrame: a frame whose sequence is not new is dropped.
PlayRemoteFrame(p, q, s) ==
    IF s > last[p][q]
    THEN /\ last' = [last EXCEPT ![p][q] = s]
         /\ played' = [played EXCEPT ![p][q] = Append(@, s)]
    ELSE UNCHANGED <<last, played>>

\* A relayed frame counts only as long as nothing came directly.
HandleVoiceFrame(p) ==
    /\ Due(p, {"voice_frame"})
    /\ LET ev == Head(inbox[p])
       IN  IF Connected(p, ev.from) THEN UNCHANGED <<last, played>>
           ELSE PlayRemoteFrame(p, ev.from, ev.seq)
    /\ inbox' = Rest(p)
    /\ UNCHANGED <<directVars, phase, online, member, session, seq, lossVars>>
----------------------------------------------------------------------------
(* The rest of the main loop. *)

ResendCandidates(p, q) ==
    /\ Resend(p, q)
    /\ Signal(inbox, p, {q}, "ice_candidate")
    /\ UNCHANGED <<phase, online, member, session, voiceVars, missed>>

PingPeer(p, q) == Ping(p, q) /\ UNCHANGED <<callVars, voiceVars, lossVars>>

\* HybridVoiceTransport::sendVoiceFrame: directly, and through the coordinator
\* while some peer of the session was never heard.
Talk(p) ==
    /\ phase[p] = "on"
    /\ seq[p] < MaxSeq
    /\ seq' = [seq EXCEPT ![p] = @ + 1]
    /\ SendVoiceFrame(p, seq'[p])
    /\ LET needsRelay == \E q \in session[p] : ~Connected(p, q)
           heard == IF needsRelay /\ online[p] /\ p \in member THEN member \ {p} ELSE {}
       IN  \E D \in SUBSET heard :
               inbox' = Told(inbox, heard \ D, [type |-> "voice_frame", from |-> p, seq |-> seq'[p]])
    /\ UNCHANGED <<running, route, phase, online, member, session, last, played, lossVars>>

\* The metrics callback and the mute hotkey: broadcastPeerStatus.  A status
\* behind another of the same peer changes nothing and is not kept.
BroadcastStatus(p) ==
    /\ phase[p] = "on" /\ online[p] /\ p \in member
    /\ LET status == [type |-> "peer_status", from |-> p]
           heard == {q \in member \ {p} : \A n \in DOMAIN inbox[q] : inbox[q][n] # status}
       IN  \E D \in SUBSET heard : inbox' = Told(inbox, heard \ D, status)
    /\ UNCHANGED <<directVars, phase, online, member, session, voiceVars, lossVars>>

ReceivePacket(p, pkt) ==
    /\ Receive(p, pkt)
    /\ IF Accepts(p, pkt) THEN PlayRemoteFrame(p, pkt.from, pkt.seq) ELSE UNCHANGED <<last, played>>
    /\ UNCHANGED <<callVars, seq, lossVars>>

LosePacket(pkt) == Lose(pkt) /\ UNCHANGED <<callVars, voiceVars, lossVars>>

\* pumpRemotePlayback forgets a peer that was silent for two seconds, longer
\* than the network keeps a packet.
Forget(p, q) ==
    /\ phase[p] = "on"
    /\ last[p][q] # 0
    /\ \A pkt \in net : ~(pkt.type = "voice" /\ pkt.from = q /\ pkt.to = p)
    /\ last' = [last EXCEPT ![p][q] = 0]
    /\ UNCHANGED <<directVars, callVars, seq, played, lossVars>>
----------------------------------------------------------------------------
HandleEvent(p) ==
    \/ HandleJoinedRoom(p) \/ HandlePeerJoined(p) \/ HandlePeerStatus(p)
    \/ HandlePeerLeft(p) \/ HandleIce(p) \/ HandleVoiceFrame(p)

AllGone == (\A p \in Peers : phase[p] = "gone" /\ p \notin member) /\ net = {} /\ UNCHANGED vars

Next ==
    \/ \E p \in Peers : \/ Enter(p) \/ LoseConnection(p) \/ RemoveClient(p)
                        \/ Start(p) \/ Close(p) \/ HandleEvent(p) \/ Talk(p) \/ BroadcastStatus(p)
    \/ \E p, q \in Peers : ResendCandidates(p, q) \/ PingPeer(p, q) \/ Forget(p, q)
    \/ \E pkt \in net : ReceivePacket(pkt.to, pkt) \/ LosePacket(pkt)
    \/ AllGone

Spec == Init /\ [][Next]_vars

\* The main loop runs, the network delivers what is sent again and again, and
\* the coordinator notices dead connections.  Users and the network owe nothing else.
Fairness ==
    \A p \in Peers :
        /\ WF_vars(Start(p))
        /\ WF_vars(HandleEvent(p))
        /\ WF_vars(RemoveClient(p))
        /\ \A q \in Peers :
              /\ WF_vars(ResendCandidates(p, q))
              /\ WF_vars(PingPeer(p, q))
              /\ SF_vars(\E pkt \in net : pkt.from = p /\ pkt.to = q /\ ReceivePacket(q, pkt))

FairSpec == Spec /\ Fairness
----------------------------------------------------------------------------
\* A packet made rt, and nothing was signalled on it.
Learned(rt) == rt.heard /\ ~(rt.cands \/ rt.offerSent \/ rt.answerSent) /\ rt.resends = 0

\* Routes follow the session although events and packets come on different
\* ways and events are lost: a peer of the session has a route (it is pinged and
\* sent candidates), and a route to anybody else was made by a packet that came
\* before the peer's arrival or after its departure was handled; nothing is
\* signalled on such a route.  The exception is a peer whose arrival was dropped
\* on its way to this client, until its departure: a status of it makes a
\* session peer without a route, a signal of it a route without a session peer.
RoutesFollowTheSession ==
    \A p \in Peers :
        /\ running[p] => session[p] \subseteq DOMAIN route[p] \cup missed[p]
        /\ \A q \in DOMAIN route[p] \ session[p] : q \in missed[p] \/ Learned(route[p][q])

\* A signal is handled after its sender's arrival and before its departure, or
\* its sender is one whose arrival was dropped: only then does handleSignal's
\* peers[source] make a route to somebody the session does not have.
SignalsAreFromPeers ==
    \A p \in Peers : Due(p, SignalTypes) => Head(inbox[p]).from \in session[p] \cup missed[p]

\* Two ways to a peer (direct and relayed), each with its own filter, a network
\* that repeats and reorders, routes that come and go, and a filter that is
\* forgotten after a pause: still no frame is played twice or after a later one.
EachFrameOnce ==
    \A p, q \in Peers :
        \A i, j \in DOMAIN played[p][q] : i < j => played[p][q][i] < played[p][q][j]

\* Two peers that stay in the room and of which one can reach the other hear
\* each other in the end, although the coordinator loses events (no more
\* than signals are sent again) and the network packets.
PeersConnect ==
    \A p, q \in Peers :
        (/\ p # q /\ running[p] /\ running[q] /\ q \in session[p] /\ p \in session[q]
         /\ (<<p, q>> \in Opens \/ <<q, p>> \in Opens))
            ~> (Connected(p, q) \/ ~online[p] \/ ~online[q])
=============================================================================
