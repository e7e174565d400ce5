---------------------------- MODULE DirectVoice ----------------------------
(***************************************************************************)
(* The direct voice transport of every client                              *)
(* (client/src/net/DirectVoiceTransport.cpp): a UDP socket and a table     *)
(* with one route per peer, and the network between the sockets, which     *)
(* loses, repeats, delays and reorders packets.                            *)
(*                                                                         *)
(* The transport is called by the application's one thread: VoiceCall says *)
(* when.  The operators that would call signalCallback say which peers it  *)
(* is called for; what becomes of the signal is VoiceCall's business.      *)
(*                                                                         *)
(* Addresses are abstract.  A route either has candidates or it has not,   *)
(* and a packet for them arrives if the pair is in Opens (which depends on *)
(* NATs and firewalls).  A packet that came in shows where its sender can  *)
(* be answered: a reply to a learned endpoint can always arrive.  Timers   *)
(* (750 ms between pings, 2 s and 3 s between candidate signals) are left  *)
(* to chance; packet layout, room ids (all are in one room) and counters   *)
(* kept for the log are left out.                                          *)
(***************************************************************************)
EXTENDS Naturals, FiniteSets

CONSTANTS
    Peers,        \* peer ids
    Opens,        \* <<p, q>>: what p sends to the candidates of q can arrive
    MaxResends,   \* how often candidates are sent again on one route
    MaxSeq        \* bound: how many voice frames a client sends

\* Peer ids are compared as strings; numbers stand for them.
ASSUME PeersAssumption == Peers \subseteq Nat /\ IsFiniteSet(Peers)
ASSUME OpensAssumption == Opens \subseteq Peers \X Peers
ASSUME LimitsAssumption == MaxResends \in Nat /\ MaxSeq \in Nat

VARIABLES
    running,    \* client -> Impl::running
    route,      \* client -> Impl::peers, a route for each of some peers
    net         \* UDP packets under way

directVars == <<running, route, net>>

\* cands: endpoints is not empty; heard: lastHeard is set, and so is
\* learnedEndpoint; last: one more than the last voice sequence, 0 if none.
Route == [cands : BOOLEAN, heard : BOOLEAN, offerSent : BOOLEAN, answerSent : BOOLEAN,
          resends : 0..MaxResends, last : 0..MaxSeq]

NewRoute == [cands |-> FALSE, heard |-> FALSE, offerSent |-> FALSE, answerSent |-> FALSE,
             resends |-> 0, last |-> 0]

Packet == [type : {"ping", "voice"}, from : Peers, to : Peers, seq : 0..MaxSeq]

DirectTypeOK ==
    /\ running \in [Peers -> BOOLEAN]
    /\ DOMAIN route = Peers
    /\ \A p \in Peers : DOMAIN route[p] \in SUBSET Peers /\ route[p] \in [DOMAIN route[p] -> Route]
    /\ net \in SUBSET Packet

DirectInit ==
    /\ running = [p \in Peers |-> FALSE]
    /\ route = [p \in Peers |-> [q \in {} |-> NewRoute]]
    /\ net = {}
----------------------------------------------------------------------------
(* Routes. *)

\* peers[q]: the route to q, created when it is first asked for.
RouteTo(p, q) == IF q \in DOMAIN route[p] THEN route[p][q] ELSE NewRoute

\* The tables with rt as p's route to q.
WithRoute(p, q, rt) ==
    [route EXCEPT ![p] = [x \in DOMAIN @ \cup {q} |-> IF x = q THEN rt ELSE route[p][x]]]

Connected(p, q) == q \in DOMAIN route[p] /\ route[p][q].heard

\* Of two peers, the one with the smaller id makes the offer.
Initiates(p, q) == p < q

\* The peers that EnsurePeers sends an offer to.
OffersTo(p, Q) ==
    {q \in Q \ {p} : running[p] /\ Initiates(p, q) /\ ~RouteTo(p, q).offerSent}

EnsurePeers(p, Q) ==
    LET new == IF running[p] THEN Q \ {p} ELSE {}
    IN  route' = [route EXCEPT ![p] =
            [q \in DOMAIN @ \cup new |->
                IF q \in OffersTo(p, Q) THEN [RouteTo(p, q) EXCEPT !.offerSent = TRUE]
                ELSE RouteTo(p, q)]]

\* Mutant: the route stays.
RouteKept(p, q) == UNCHANGED route

RemovePeer(p, q) ==
    route' = [route EXCEPT ![p] = [x \in DOMAIN @ \ {q} |-> @[x]]]

StartTransport(p, started) ==
    /\ running' = [running EXCEPT ![p] = started]
    /\ UNCHANGED <<route, net>>

\* The socket is closed; what it sent is still on its way.
StopTransport(p) ==
    /\ running' = [running EXCEPT ![p] = FALSE]
    /\ route' = [route EXCEPT ![p] = [q \in {} |-> NewRoute]]
    /\ UNCHANGED net
----------------------------------------------------------------------------
(* Packets. *)

\* What sendPacket puts on the network for a route rt to q.
Sent(p, q, rt, type, seq) ==
    IF rt.heard \/ (rt.cands /\ <<p, q>> \in Opens)
    THEN {[type |-> type, from |-> p, to |-> q, seq |-> seq]}
    ELSE {}

Answers(p, q, type) == running[p] /\ type = "ice_offer" /\ ~RouteTo(p, q).answerSent

\* Mutant: only an offer and an answer bring candidates.
SignalWithoutCandidates(p, q, type) ==
    LET rt == [RouteTo(p, q) EXCEPT !.cands = @ \/ type # "ice_candidate",
                                    !.answerSent = @ \/ Answers(p, q, type)]
    IN  IF ~running[p] THEN UNCHANGED <<route, net>>
        ELSE /\ route' = WithRoute(p, q, rt)
             /\ net' = net \cup Sent(p, q, rt, "ping", 0)

\* An offer, an answer or a candidate signal of q carries q's candidates.
HandleSignal(p, q, type) ==
    LET rt == [RouteTo(p, q) EXCEPT !.cands = TRUE,
                                    !.answerSent = @ \/ Answers(p, q, type)]
    IN  IF ~running[p] THEN UNCHANGED <<route, net>>
        ELSE /\ route' = WithRoute(p, q, rt)
             /\ net' = net \cup Sent(p, q, rt, "ping", 0)

\* pump, when q's ping is due.
Ping(p, q) ==
    /\ running[p]
    /\ q \in DOMAIN route[p]
    /\ net' = net \cup Sent(p, q, route[p][q], "ping", 0)
    /\ UNCHANGED <<running, route>>

\* Mutant: candidates are sent again without end.
ResendForever(p, q) ==
    /\ running[p] /\ q \in DOMAIN route[p] /\ ~route[p][q].heard
    /\ route' = [route EXCEPT ![p][q].resends = @ + 1]
    /\ UNCHANGED <<running, net>>

\* pump, when q was not heard for a while: candidates are due again.
Resend(p, q) ==
    /\ running[p]
    /\ q \in DOMAIN route[p]
    /\ ~route[p][q].heard
    /\ route[p][q].resends < MaxResends
    /\ route' = [route EXCEPT ![p][q].resends = @ + 1]
    /\ UNCHANGED <<running, net>>

\* A frame goes to every route.
SendVoiceFrame(p, seq) ==
    net' = net \cup (IF running[p]
                     THEN UNION {Sent(p, q, route[p][q], "voice", seq) : q \in DOMAIN route[p]}
                     ELSE {})

\* The packet is a voice packet and not a duplicate: the frame callback is called.
Accepts(p, pkt) == pkt.type = "voice" /\ pkt.seq > RouteTo(p, pkt.from).last

\* drainSocket takes a packet; the network may have another copy of it.
Receive(p, pkt) ==
    /\ running[p]
    /\ pkt \in net
    /\ pkt.to = p
    /\ route' = WithRoute(p, pkt.from,
                          [RouteTo(p, pkt.from) EXCEPT
                              !.heard = TRUE,
                              !.last = IF Accepts(p, pkt) THEN pkt.seq ELSE @])
    /\ net' \in {net, net \ {pkt}}
    /\ UNCHANGED running

Lose(pkt) ==
    /\ pkt \in net
    /\ net' = net \ {pkt}
    /\ UNCHANGED <<running, route>>
=============================================================================
