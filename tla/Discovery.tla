----------------------------- MODULE Discovery -----------------------------
(***************************************************************************)
(* Where a client can be reached: DirectVoiceTransport::start (client/src/ *)
(* net/DirectVoiceTransport.cpp) opens the UDP socket, lists the host's    *)
(* addresses, asks each STUN server how the NAT maps the socket and asks   *)
(* web services for the public address.  What it finds are the candidates  *)
(* that DirectVoice sends to every peer.                                   *)
(*                                                                         *)
(* start runs on the main thread and waits for each answer on the socket   *)
(* it will use for voice: late answers of the servers asked before, peers  *)
(* of an earlier run that still send to the same port and answers to that  *)
(* run come in between.  Nothing seeds rand, so each run of the program    *)
(* draws the same transaction ids in the same order.  start is called once *)
(* in a run.                                                               *)
(***************************************************************************)
EXTENDS Integers, Sequences, SequencesExt

CONSTANTS
    NumServers,     \* configuredStunServers: distinct, asked in this order
    HostAddresses,  \* what getaddrinfo finds for the host's name
    Mappings,       \* endpoints the NAT may show for the socket
    Pages,          \* addresses on a page of a web service, in order
    PreferredPort, AutoPort,
    MaxStrays       \* bound: datagrams that are no answers to this run

\* An address is its first two octets: isPublicIPv4Address looks at no more.
Addresses == (0..255) \X (0..255)
Ports == 1..65535
Endpoints == [address : Addresses, port : Ports]
None == [address |-> <<0, 0>>, port |-> 0]
Loopback == <<127, 0>>

ASSUME ServersAssumption ==
    /\ NumServers \in Nat /\ MaxStrays \in Nat
    /\ Mappings \subseteq Endpoints
ASSUME AddressesAssumption ==
    /\ HostAddresses \subseteq Addresses /\ Pages \subseteq Seq(Addresses)
    /\ PreferredPort \in Ports /\ AutoPort \in Ports

VARIABLES
    phase,          \* idle | stun (between servers) | waiting (in select) | https
                    \* | running | failed | ended
    port,           \* of the socket, or 0
    server, attempt,    \* the server asked, and how often so far
    draws,          \* transaction ids drawn by this run of the program
    service,        \* the web service asked
    candidates,     \* localCandidates
    mapped,         \* how the NAT maps the socket towards each server
    net, buffer,    \* datagrams on their way, and in the socket's buffer
    strays,
    credit,         \* what each server was found to say (history)
    spent,          \* what the attempts at this server were spent on (history)
    stale           \* an answer to the earlier run was read (history)

query == <<server, attempt, draws, service>>
found == <<candidates, mapped, credit>>
vars == <<phase, port, query, found, net, buffer, strays, spent, stale>>

Servers == 1..NumServers
Datagrams == [id : 0..NumServers, n : 0..2, says : Endpoints \cup {None}]

TypeOK ==
    /\ phase \in {"idle", "stun", "waiting", "https", "running", "failed", "ended"}
    /\ port \in Ports \cup {0}
    /\ server \in 0..(NumServers + 1) /\ attempt \in 0..2 /\ draws \in 0..NumServers
    /\ service \in 0..3
    /\ candidates \in Seq([type : {"host", "srflx", "public"}, at : Endpoints])
    /\ mapped \in [Servers -> Endpoints] /\ credit \in [Servers -> Endpoints \cup {None}]
    /\ net \subseteq Datagrams /\ buffer \in Seq(Datagrams)
    /\ strays \in 0..MaxStrays
    /\ spent \in Seq({"timeout", "other"}) /\ stale \in BOOLEAN
----------------------------------------------------------------------------
(* Pure helpers. *)

IsPublicIPv4Address(address) ==
    LET a == address[1]
        b == address[2]
    IN  /\ a \notin {0, 10, 127} /\ a < 224
        /\ ~(a = 100 /\ b \in 64..127)
        /\ <<a, b>> \notin {<<169, 254>>, <<192, 168>>}
        /\ ~(a = 172 /\ b \in 16..31)

\* extractPublicIPv4Token: the first on the page, or None's address.
ExtractPublicIPv4Token(page) ==
    LET public == {i \in DOMAIN page : IsPublicIPv4Address(page[i])}
    IN  IF public = {} THEN None.address ELSE page[Min(public)]

\* addLocalCandidate.
AddLocalCandidate(list, candidate) ==
    IF candidate \in ToSet(list) THEN list ELSE Append(list, candidate)

\* The addresses are distinct, so addLocalCandidate keeps them all.
HostCandidates(addresses, p) ==
    [i \in DOMAIN addresses |-> [type |-> "host", at |-> [address |-> addresses[i], port |-> p]]]
----------------------------------------------------------------------------
Init ==
    /\ phase = "idle" /\ port = 0
    /\ server = 0 /\ attempt = 0 /\ draws = 0 /\ service = 0
    /\ candidates = <<>> /\ mapped \in [Servers -> Mappings] /\ credit = [s \in Servers |-> None]
    /\ net = {} /\ buffer = <<>>
    /\ strays = 0 /\ spent = <<>> /\ stale = FALSE

\* WSAStartup, the socket, either bind or getsockname fails: stop takes it all back.
StartFails ==
    /\ phase = "idle" /\ phase' = "failed"
    /\ UNCHANGED <<port, query, found, net, buffer, strays, spent, stale>>

\* localIPv4Addresses: the loopback address first, then the others in any order,
\* each once; only the first if the host's name cannot be looked up.
Start ==
    /\ phase = "idle" /\ phase' = "stun"
    /\ port' \in {PreferredPort, AutoPort}
    /\ \E known \in {{}, HostAddresses} : \E others \in SetToSeqs(known \ {Loopback}) :
           candidates' = HostCandidates(<<Loopback>> \o others, port')
    /\ server' = 1
    /\ UNCHANGED <<attempt, draws, service, mapped, credit, net, buffer, strays, spent, stale>>

\* sendto: the server answers, answers something useless, or not at all; the
\* answer may be late.
Asks(n, id) ==
    \E replies \in {{}, {None}, {mapped[server]}} :
        net' = net \cup [id : {id}, n : {n}, says : replies]

\* queryStunMappedEndpoint begins: the server's name is resolved, or it is not.
Query ==
    /\ phase = "stun" /\ server <= NumServers
    /\ spent' = <<>>
    /\ \/ server' = server + 1 /\ UNCHANGED <<phase, attempt, draws, net>>
       \/ /\ phase' = "waiting" /\ attempt' = 1 /\ draws' = draws + 1
          /\ Asks(1, draws')
          /\ UNCHANGED server
    /\ UNCHANGED <<port, service, found, buffer, strays, stale>>

\* Mutant: a datagram that is not the answer ends the query.
ContinueOnce(why) ==
    /\ spent' = Append(spent, why)
    /\ IF attempt = 1 /\ why = "timeout"
       THEN attempt' = 2 /\ Asks(2, draws) /\ UNCHANGED <<phase, server>>
       ELSE phase' = "stun" /\ server' = server + 1 /\ UNCHANGED <<attempt, net>>

\* Mutant: a third attempt.
ContinueTwice(why) ==
    /\ spent' = Append(spent, why)
    /\ IF attempt < 3
       THEN attempt' = attempt + 1 /\ Asks(2, draws) /\ UNCHANGED <<phase, server>>
       ELSE phase' = "stun" /\ server' = server + 1 /\ UNCHANGED <<attempt, net>>

\* The loop's continue: a second attempt, with the same id, or the end.
Continue(why) ==
    /\ spent' = Append(spent, why)
    /\ IF attempt = 1
       THEN attempt' = 2 /\ Asks(2, draws) /\ UNCHANGED <<phase, server>>
       ELSE phase' = "stun" /\ server' = server + 1 /\ UNCHANGED <<attempt, net>>

\* Mutant: the transaction id is not compared.
AnyAnswer(d) == d.id # 0 /\ d.says # None

\* A success response with the request's transaction id and a mapped address.
IsAnswer(d) == d.id = draws /\ d.says # None

\* select finds a datagram in the buffer, and one is read.
Read ==
    /\ phase = "waiting" /\ buffer # <<>>
    /\ buffer' = Tail(buffer)
    /\ LET d == Head(buffer)
       IN  /\ stale' = (stale \/ (d.id # 0 /\ d.n = 0))
           /\ \/ /\ IsAnswer(d)
                 /\ phase' = "stun" /\ server' = server + 1
                 /\ credit' = [credit EXCEPT ![server] = d.says]
                 /\ candidates' = AddLocalCandidate(candidates, [type |-> "srflx", at |-> d.says])
                 /\ UNCHANGED <<attempt, net, spent>>
              \/ /\ ~IsAnswer(d)
                 /\ Continue("other")
                 /\ UNCHANGED <<candidates, credit>>
    /\ UNCHANGED <<port, draws, service, mapped, strays>>

\* select returns nothing after 350 ms.
Timeout ==
    /\ phase = "waiting" /\ buffer = <<>>
    /\ Continue("timeout")
    /\ UNCHANGED <<port, draws, service, found, buffer, strays, stale>>

\* What is left in the socket is for pump, which drops what is no packet of a peer.
ToHttps ==
    /\ phase = "stun" /\ server > NumServers
    /\ phase' = "https" /\ service' = 1
    /\ buffer' = <<>> /\ net' = {}
    /\ UNCHANGED <<port, server, attempt, draws, found, strays, spent, stale>>

\* Mutant: after the last service comes the first.
AskServiceForever ==
    /\ phase = "https" /\ service' = (service % 3) + 1
    /\ UNCHANGED <<phase, port, server, attempt, draws, found, net, buffer, strays, spent, stale>>

\* queryPublicIPv4Endpoint, of the services in turn; an unreachable one has an
\* empty page.
AskService ==
    /\ phase = "https"
    /\ \E page \in Pages \cup {<<>>} :
           LET public == ExtractPublicIPv4Token(page)
               type == IF \A s \in Servers : credit[s] = None THEN "srflx" ELSE "public"
           IN  IF public # None.address
               THEN /\ phase' = "running"
                    /\ candidates' = AddLocalCandidate(candidates,
                           [type |-> type, at |-> [address |-> public, port |-> port]])
                    /\ UNCHANGED service
               ELSE /\ IF service < 3 THEN service' = service + 1 /\ UNCHANGED phase
                       ELSE phase' = "running" /\ UNCHANGED service
                    /\ UNCHANGED candidates
    /\ UNCHANGED <<port, server, attempt, draws, mapped, credit, net, buffer, strays,
                   spent, stale>>

\* The program ends.
Stop ==
    /\ phase \in {"running", "failed"}
    /\ phase' = "ended" /\ port' = 0 /\ candidates' = <<>> /\ buffer' = <<>>
    /\ UNCHANGED <<query, mapped, credit, net, strays, spent, stale>>

\* A datagram arrives; between two queries nobody looks, so it is as if it came in
\* the next one.
Arrive ==
    \E d \in net :
        /\ phase = "waiting"
        /\ net' = net \ {d} /\ buffer' = Append(buffer, d)
        /\ UNCHANGED <<phase, port, query, found, strays, spent, stale>>

\* The program ran before, on the same port: a peer still sends to it, or an
\* answer to that run is late.
Stray ==
    /\ phase = "waiting" /\ port = PreferredPort /\ strays < MaxStrays
    /\ strays' = strays + 1
    /\ \E id \in 0..NumServers, m \in Mappings \cup {None} :
           /\ id = 0 <=> m = None
           /\ buffer' = Append(buffer, [id |-> id, n |-> 0, says |-> m])
    /\ UNCHANGED <<phase, port, query, found, net, spent, stale>>

Discover == Query \/ Read \/ Timeout \/ ToHttps \/ AskService
Next == StartFails \/ Start \/ Discover \/ Stop \/ Arrive \/ Stray

\* start runs on; select has a timeout, WinHttpSetTimeouts bounds the requests.
Spec == Init /\ [][Next]_vars /\ WF_vars(Discover)
----------------------------------------------------------------------------
(* Properties. *)

\* What is taken for a server's answer is how the NAT maps the socket towards
\* that server, never the late answer of a server asked before, unless an answer
\* to the program's previous run, with the same ids, has come in.
OwnAnswers == ~stale => \A s \in Servers : credit[s] \in {None, mapped[s]}

\* A query without a result has used both its attempts; and if its answer is in
\* the buffer all the same, another datagram has taken the place of one of them:
\* a single stray or late datagram does not cost a server whose answers are
\* timely.
GivesUpLate ==
    [][phase = "waiting" /\ phase' = "stun" /\ credit' = credit =>
          /\ Len(spent') = 2
          /\ (\E i \in DOMAIN buffer' : IsAnswer(buffer'[i])) => "other" \in ToSet(spent')]_vars

\* start comes back, whatever the network does: the main thread waits for it.
StartReturns == phase \in {"stun", "waiting", "https"} ~> phase = "running"
=============================================================================
