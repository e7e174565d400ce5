-------------------------- MODULE DiscoveryProofs --------------------------
(***************************************************************************)
(* Theorems about Discovery, for any servers, mappings, pages and number   *)
(* of strays: what a candidate is, whose answer is taken for whose, and    *)
(* when a server is given up.                                              *)
(***************************************************************************)
EXTENDS Discovery, Induction, FiniteSetTheorems, SequenceTheorems

\* Datagrams without the bound on the ids.
Packets == [id : Nat, n : 0..2, says : Endpoints \cup {None}]

UnderWay == net \cup {buffer[i] : i \in DOMAIN buffer}

\* A query: which server is asked, with which id, and what was spent on it.
QueryInv ==
    /\ phase \in {"idle", "stun", "waiting", "https", "running", "failed", "ended"}
    /\ server \in Nat /\ draws \in Nat
    /\ net \subseteq Packets /\ buffer \in Seq(Packets)
    /\ credit \in [Servers -> Endpoints \cup {None}] /\ mapped \in [Servers -> Endpoints]
    /\ phase \in {"stun", "waiting"} => server >= 1
    /\ phase = "waiting" => server \in Servers /\ draws >= 1
    /\ phase = "idle" => server = 0

\* What an attempt was spent on is noted when it is over.
SpentInv ==
    phase = "waiting" =>
        \/ attempt = 1 /\ spent = <<>>
        \/ attempt = 2 /\ spent \in {<<"timeout">>, <<"other">>}

\* Servers that were not asked yet, or are being asked, have said nothing.
NothingEarly == \A s \in Servers : s >= server => credit[s] = None

\* The datagrams of this run carry ids that were drawn, and those with the latest
\* id are about the server that is asked.
IdsAreDrawn ==
    \A d \in UnderWay :
        d.n # 0 =>
            /\ d.id \in 1..draws
            /\ phase = "waiting" /\ d.id = draws => d.says \in {None, mapped[server]}

Inv == QueryInv /\ SpentInv /\ NothingEarly /\ IdsAreDrawn /\ OwnAnswers
----------------------------------------------------------------------------
LEMMA Parameters == NumServers \in Nat /\ Mappings \subseteq Endpoints
BY ServersAssumption

LEMMA InitInv == Init => Inv
<1> SUFFICES ASSUME Init PROVE Inv
  OBVIOUS
<1>1. mapped \in [Servers -> Endpoints]
  BY Parameters DEF Init
<1>a. /\ phase = "idle" /\ server = 0 /\ draws = 0
      /\ net \subseteq Packets /\ buffer \in Seq(Packets)
  BY DEF Init
<1>b. credit \in [Servers -> Endpoints \cup {None}]
  BY DEF Init
<1>2. QueryInv
  BY <1>1, <1>a, <1>b DEF QueryInv
<1>3. SpentInv /\ NothingEarly /\ OwnAnswers
  BY DEF SpentInv, NothingEarly, OwnAnswers, Init
<1>4. UnderWay = {}
  BY DEF UnderWay, Init
<1> QED
  BY <1>2, <1>3, <1>4 DEF Inv, IdsAreDrawn

\* A reading takes the head of the buffer away.
LEMMA TailOfBuffer ==
    ASSUME buffer \in Seq(Packets), buffer # <<>>
    PROVE  /\ Head(buffer) \in UnderWay /\ Head(buffer) \in Packets
           /\ Tail(buffer) \in Seq(Packets)
           /\ {Tail(buffer)[i] : i \in DOMAIN Tail(buffer)} \subseteq
                  {buffer[i] : i \in DOMAIN buffer}
BY HeadTailProperties DEF UnderWay

LEMMA AppendToBuffer ==
    ASSUME buffer \in Seq(Packets), NEW d \in Packets, buffer' = Append(buffer, d)
    PROVE  /\ buffer' \in Seq(Packets)
           /\ {buffer'[i] : i \in DOMAIN buffer'} \subseteq {buffer[i] : i \in DOMAIN buffer} \cup {d}
BY AppendProperties

\* Asking puts datagrams with the given id under way, about the server asked.
LEMMA AsksSends ==
    ASSUME QueryInv, NEW n \in {1, 2}, NEW id \in Nat, Asks(n, id), server \in Servers
    PROVE  /\ net' \subseteq Packets
           /\ \A d \in net' \ net :
                 d.id = id /\ d.n = n /\ d.says \in {None, mapped[server]}
<1>1. mapped[server] \in Endpoints
  BY DEF QueryInv
<1>2. PICK replies \in {{}, {None}, {mapped[server]}} :
          net' = net \cup [id : {id}, n : {n}, says : replies]
  BY DEF Asks
<1>3. \A d \in [id : {id}, n : {n}, says : replies] :
          d.id = id /\ d.n = n /\ d.says \in {None, mapped[server]} /\ d \in Packets
  BY <1>1, <1>2 DEF Packets
<1> QED
  BY <1>2, <1>3 DEF QueryInv

LEMMA QueryKeeps ==
    ASSUME Inv, Query
    PROVE  Inv'
<1> USE DEF Inv
<1>0. /\ server >= 1 /\ server \in Servers
      /\ UNCHANGED <<credit, mapped, buffer, stale>>
  BY DEF Query, QueryInv, found, Servers
<1>1. OwnAnswers'
  BY <1>0 DEF OwnAnswers
<1>2. CASE server' = server + 1 /\ UNCHANGED <<phase, attempt, draws, net>>
  <2>1. QueryInv' /\ SpentInv' /\ NothingEarly'
    BY <1>0, <1>2 DEF QueryInv, SpentInv, NothingEarly, Query, Servers
  <2>2. UnderWay' = UnderWay
    BY <1>0, <1>2 DEF UnderWay
  <2>3. IdsAreDrawn'
    BY <1>2, <2>2 DEF IdsAreDrawn, Query
  <2> QED
    BY <1>1, <2>1, <2>3
<1>3. CASE /\ phase' = "waiting" /\ attempt' = 1 /\ draws' = draws + 1
           /\ Asks(1, draws') /\ UNCHANGED server
  <2>1. /\ net' \subseteq Packets
        /\ \A d \in net' \ net :
              d.id = draws' /\ d.n = 1 /\ d.says \in {None, mapped[server]}
    BY <1>0, <1>3, AsksSends DEF QueryInv
  <2>2. QueryInv' /\ SpentInv' /\ NothingEarly'
    BY <1>0, <1>3, <2>1 DEF QueryInv, SpentInv, NothingEarly, Query
  <2>3. UnderWay' \subseteq UnderWay \cup (net' \ net)
    BY <1>0 DEF UnderWay
  <2>4. IdsAreDrawn'
    <3> SUFFICES ASSUME NEW d \in UnderWay', d.n # 0
                 PROVE  /\ d.id \in 1..draws'
                        /\ d.id = draws' => d.says \in {None, mapped'[server']}
      BY DEF IdsAreDrawn
    <3>1. CASE d \in net' \ net
      BY <3>1, <2>1, <1>0, <1>3 DEF QueryInv
    <3>2. CASE d \in UnderWay
      BY <3>2, <1>3 DEF IdsAreDrawn, QueryInv
    <3> QED
      BY <3>1, <3>2, <2>3
  <2> QED
    BY <1>1, <2>2, <2>4
<1> QED
  BY <1>2, <1>3 DEF Query

\* The loop goes on, or ends without a result.
LEMMA ContinueKeeps ==
    ASSUME Inv, phase = "waiting", NEW why \in {"timeout", "other"}, Continue(why),
           buffer' \in Seq(Packets),
           {buffer'[i] : i \in DOMAIN buffer'} \subseteq {buffer[i] : i \in DOMAIN buffer},
           UNCHANGED <<draws, credit, mapped>>, stale => stale'
    PROVE  Inv' /\ (phase' = "stun" => Len(spent') = 2 /\ spent'[2] = why)
<1> USE DEF Inv
<1>1. OwnAnswers'
  BY DEF OwnAnswers
<1>2. CASE attempt = 1
  <2>1. attempt' = 2 /\ Asks(2, draws) /\ UNCHANGED <<phase, server>> /\ spent' = <<why>>
    BY <1>2 DEF Continue, SpentInv
  <2>2. /\ net' \subseteq Packets
        /\ \A d \in net' \ net :
              d.id = draws /\ d.n = 2 /\ d.says \in {None, mapped[server]}
    BY <2>1, AsksSends DEF QueryInv
  <2>3. QueryInv' /\ SpentInv' /\ NothingEarly'
    <3>1. QueryInv'
      BY <2>1, <2>2 DEF QueryInv
    <3>2. SpentInv'
      BY <2>1 DEF SpentInv
    <3>3. NothingEarly'
      BY <2>1 DEF NothingEarly
    <3> QED
      BY <3>1, <3>2, <3>3
  <2>4. UnderWay' \subseteq UnderWay \cup (net' \ net)
    BY DEF UnderWay
  <2>5. IdsAreDrawn'
    <3> SUFFICES ASSUME NEW d \in UnderWay', d.n # 0
                 PROVE  /\ d.id \in 1..draws'
                        /\ d.id = draws' => d.says \in {None, mapped'[server']}
      BY DEF IdsAreDrawn
    <3>1. CASE d \in net' \ net
      BY <3>1, <2>1, <2>2 DEF QueryInv
    <3>2. CASE d \in UnderWay
      BY <3>2, <2>1 DEF IdsAreDrawn
    <3> QED
      BY <3>1, <3>2, <2>4
  <2> QED
    BY <1>1, <2>1, <2>3, <2>5
<1>3. CASE attempt = 2
  <2>1. phase' = "stun" /\ server' = server + 1 /\ UNCHANGED <<attempt, net>>
    BY <1>3 DEF Continue
  <2>a. spent' = Append(spent, why)
    BY DEF Continue
  <2>b. spent = <<"timeout">> \/ spent = <<"other">>
    BY <1>3 DEF SpentInv
  <2>c. QueryInv'
    BY <2>1 DEF QueryInv
  <2>d. SpentInv' /\ NothingEarly'
    BY <2>1 DEF SpentInv, NothingEarly, QueryInv, Servers
  <2>2. QueryInv' /\ SpentInv' /\ NothingEarly'
    BY <2>c, <2>d
  <2>3. UnderWay' \subseteq UnderWay
    BY <2>1 DEF UnderWay
  <2>4. IdsAreDrawn'
    BY <2>1, <2>3 DEF IdsAreDrawn
  <2>5. Len(spent') = 2 /\ spent'[2] = why
    <3>1. CASE spent = <<"timeout">>
      BY <3>1, <2>a
    <3>2. CASE spent = <<"other">>
      BY <3>2, <2>a
    <3> QED
      BY <3>1, <3>2, <2>b
  <2> QED
    BY <1>1, <2>2, <2>4, <2>5
<1> QED
  BY <1>2, <1>3 DEF SpentInv

\* An answer is taken for the server that gave it.
LEMMA AnswerKeeps ==
    ASSUME Inv, Read, IsAnswer(Head(buffer)), credit' # credit
    PROVE  Inv'
<1> USE DEF Inv
<1> DEFINE d == Head(buffer)
<1>0. /\ phase = "waiting" /\ buffer # <<>> /\ buffer' = Tail(buffer)
      /\ phase' = "stun" /\ server' = server + 1 /\ server \in Servers
      /\ credit' = [credit EXCEPT ![server] = d.says]
      /\ ~stale' => ~stale /\ (d.id = 0 \/ d.n # 0)
      /\ UNCHANGED <<net, spent, attempt, draws, mapped>>
  BY DEF Read, QueryInv
<1>1. /\ d \in UnderWay /\ d \in Packets /\ Tail(buffer) \in Seq(Packets)
      /\ {Tail(buffer)[i] : i \in DOMAIN Tail(buffer)} \subseteq
             {buffer[i] : i \in DOMAIN buffer}
  BY <1>0, TailOfBuffer DEF QueryInv
<1>2. d.id = draws /\ d.says # None
  BY DEF IsAnswer
<1> HIDE DEF d
<1>3. QueryInv'
  BY <1>0, <1>1 DEF QueryInv, Packets
<1>4. SpentInv' /\ NothingEarly'
  BY <1>0 DEF SpentInv, NothingEarly, QueryInv, Servers
<1>5. IdsAreDrawn'
  <2>1. UnderWay' \subseteq UnderWay
    BY <1>0, <1>1 DEF UnderWay
  <2> QED
    BY <2>1, <1>0 DEF IdsAreDrawn
<1>6. OwnAnswers'
  <2> SUFFICES ASSUME ~stale', NEW s \in Servers
               PROVE  credit'[s] \in {None, mapped'[s]}
    BY DEF OwnAnswers
  <2>1. d.n # 0
    BY <1>0, <1>2 DEF QueryInv
  <2>2. d.says \in {None, mapped[server]}
    BY <2>1, <1>0, <1>1, <1>2 DEF IdsAreDrawn
  <2> QED
    BY <2>2, <1>0 DEF OwnAnswers, QueryInv
<1> QED
  BY <1>3, <1>4, <1>5, <1>6

\* Taking an answer is never taken for giving up.
LEMMA AnswerCounts ==
    ASSUME Inv, phase = "waiting", NEW d, IsAnswer(d)
    PROVE  [credit EXCEPT ![server] = d.says] # credit
<1>1. server \in Servers /\ credit[server] = None /\ credit \in [Servers -> Endpoints \cup {None}]
  BY DEF Inv, QueryInv, NothingEarly
<1> QED
  BY <1>1 DEF IsAnswer

LEMMA NextInv ==
    ASSUME Inv, [Next]_vars
    PROVE  Inv'
<1> USE DEF Inv
<1>1. CASE Query
  BY <1>1, QueryKeeps
<1>2. CASE Read
  <2>1. CASE IsAnswer(Head(buffer))
    <3>1. credit' = [credit EXCEPT ![server] = Head(buffer).says]
      BY <1>2, <2>1 DEF Read
    <3> QED
      BY <1>2, <2>1, <3>1, AnswerCounts, AnswerKeeps DEF Read
  <2>2. CASE ~IsAnswer(Head(buffer))
    <3>1. /\ phase = "waiting" /\ Continue("other") /\ buffer' = Tail(buffer) /\ buffer # <<>>
          /\ UNCHANGED <<draws, credit, mapped>> /\ (stale => stale')
      BY <1>2, <2>2 DEF Read
    <3>2. /\ buffer' \in Seq(Packets)
          /\ {buffer'[i] : i \in DOMAIN buffer'} \subseteq {buffer[i] : i \in DOMAIN buffer}
      BY <3>1, TailOfBuffer DEF QueryInv
    <3> QED
      BY <3>1, <3>2, ContinueKeeps
  <2> QED
    BY <2>1, <2>2
<1>3. CASE Timeout
  <2>1. /\ phase = "waiting" /\ Continue("timeout") /\ UNCHANGED <<buffer, draws, credit, mapped, stale>>
    BY <1>3 DEF Timeout, found
  <2> QED
    BY <2>1, ContinueKeeps DEF QueryInv
<1>4. CASE Arrive
  <2>1. PICK d \in net : /\ net' = net \ {d} /\ buffer' = Append(buffer, d)
                         /\ UNCHANGED <<phase, server, attempt, draws, credit, mapped, spent, stale>>
    BY <1>4 DEF Arrive, query, found
  <2>2. /\ buffer' \in Seq(Packets)
        /\ {buffer'[i] : i \in DOMAIN buffer'} \subseteq {buffer[i] : i \in DOMAIN buffer} \cup {d}
    BY <2>1, AppendToBuffer DEF QueryInv
  <2>3. UnderWay' \subseteq UnderWay
    BY <2>1, <2>2 DEF UnderWay
  <2>4. QueryInv' /\ SpentInv' /\ NothingEarly' /\ OwnAnswers'
    BY <2>1, <2>2 DEF QueryInv, SpentInv, NothingEarly, OwnAnswers
  <2> QED
    BY <2>1, <2>3, <2>4 DEF IdsAreDrawn
<1>5. CASE Stray
  <2>1. PICK id \in 0..NumServers, m \in Mappings \cup {None} :
            buffer' = Append(buffer, [id |-> id, n |-> 0, says |-> m])
    BY <1>5 DEF Stray
  <2> DEFINE d == [id |-> id, n |-> 0, says |-> m]
  <2>a. id \in Nat /\ m \in Endpoints \cup {None}
    BY Parameters
  <2>2. d \in Packets /\ d.n = 0 /\ buffer' = Append(buffer, d)
    BY <2>1, <2>a DEF Packets
  <2> HIDE DEF d
  <2>3. /\ buffer' \in Seq(Packets)
        /\ {buffer'[i] : i \in DOMAIN buffer'} \subseteq {buffer[i] : i \in DOMAIN buffer} \cup {d}
    BY <2>2, AppendToBuffer DEF QueryInv
  <2>4. UNCHANGED <<phase, server, attempt, draws, credit, mapped, net, spent, stale>>
    BY <1>5 DEF Stray, query, found
  <2>5. UnderWay' \subseteq UnderWay \cup {d}
    BY <2>3, <2>4 DEF UnderWay
  <2>6. QueryInv' /\ SpentInv' /\ NothingEarly' /\ OwnAnswers'
    BY <2>3, <2>4 DEF QueryInv, SpentInv, NothingEarly, OwnAnswers
  <2> QED
    BY <2>2, <2>4, <2>5, <2>6 DEF IdsAreDrawn
<1>6. CASE ToHttps
  <2>1. UnderWay' = {}
    BY <1>6 DEF ToHttps, UnderWay
  <2>2. QueryInv' /\ SpentInv' /\ NothingEarly' /\ OwnAnswers'
    BY <1>6 DEF ToHttps, QueryInv, SpentInv, NothingEarly, OwnAnswers, found
  <2> QED
    BY <2>1, <2>2 DEF IdsAreDrawn
<1>7. CASE Start
  <2>1. QueryInv' /\ SpentInv' /\ OwnAnswers'
    BY <1>7 DEF Start, QueryInv, SpentInv, OwnAnswers
  <2>2. NothingEarly'
    BY <1>7 DEF Start, NothingEarly, QueryInv, Servers
  <2> QED
    BY <1>7, <2>1, <2>2 DEF IdsAreDrawn, UnderWay, Start
<1>8. CASE StartFails \/ AskService
  <2>1. /\ UNCHANGED <<server, attempt, draws, credit, mapped, net, buffer, spent, stale>>
        /\ phase' \in {"failed", "https", "running"}
    BY <1>8 DEF StartFails, AskService, query, found
  <2>2. QueryInv' /\ SpentInv' /\ NothingEarly' /\ OwnAnswers'
    BY <2>1 DEF QueryInv, SpentInv, NothingEarly, OwnAnswers
  <2> QED
    BY <2>1, <2>2 DEF IdsAreDrawn, UnderWay
<1>9. CASE Stop
  <2>1. /\ UNCHANGED <<server, attempt, draws, credit, mapped, net, spent, stale>>
        /\ phase' = "ended" /\ buffer' = <<>>
    BY <1>9 DEF Stop, query
  <2>2. QueryInv' /\ SpentInv' /\ NothingEarly' /\ OwnAnswers'
    BY <2>1 DEF QueryInv, SpentInv, NothingEarly, OwnAnswers
  <2>3. UnderWay' \subseteq UnderWay
    BY <2>1 DEF UnderWay
  <2> QED
    BY <2>1, <2>2, <2>3 DEF IdsAreDrawn
<1>10. CASE UNCHANGED vars
  BY <1>10 DEF vars, query, found, QueryInv, SpentInv, NothingEarly, OwnAnswers, IdsAreDrawn,
               UnderWay
<1> QED
  BY <1>1, <1>2, <1>3, <1>4, <1>5, <1>6, <1>7, <1>8, <1>9, <1>10 DEF Next, Discover

\* For any number of servers and strays: what is taken for a server's answer is
\* the NAT's mapping towards that server, until an answer to an earlier run of
\* the program has been read.
THEOREM Answers == Spec => []OwnAnswers
<1>1. Inv => OwnAnswers
  BY DEF Inv
<1> QED
  BY InitInv, NextInv, <1>1, PTL DEF Spec
----------------------------------------------------------------------------
(* Giving a server up. *)

\* The body of GivesUpLate.
LateEnough ==
    phase = "waiting" /\ phase' = "stun" /\ credit' = credit =>
        /\ Len(spent') = 2
        /\ (\E i \in DOMAIN buffer' : IsAnswer(buffer'[i])) => "other" \in ToSet(spent')

LEMMA NextLate ==
    ASSUME Inv, Next
    PROVE  LateEnough
<1> SUFFICES ASSUME phase = "waiting", phase' = "stun", credit' = credit
             PROVE  LateEnough
  BY DEF LateEnough
<1>1. CASE Read
  <2>1. ~IsAnswer(Head(buffer))
    BY <1>1, AnswerCounts DEF Read
  <2>2. /\ Continue("other") /\ buffer' = Tail(buffer) /\ buffer # <<>>
        /\ UNCHANGED <<draws, credit, mapped>> /\ (stale => stale')
    BY <1>1, <2>1 DEF Read
  <2>3. /\ buffer' \in Seq(Packets)
        /\ {buffer'[i] : i \in DOMAIN buffer'} \subseteq {buffer[i] : i \in DOMAIN buffer}
    BY <2>2, TailOfBuffer DEF Inv, QueryInv
  <2>4. Len(spent') = 2 /\ spent'[2] = "other" /\ spent' = Append(spent, "other")
    BY <2>2, <2>3, ContinueKeeps DEF Continue
  <2>5. 2 \in DOMAIN spent'
    BY <2>4 DEF Inv, SpentInv
  <2> QED
    BY <2>4, <2>5 DEF LateEnough, ToSet
<1>2. CASE Timeout
  <2>1. Continue("timeout") /\ UNCHANGED <<buffer, draws, credit, mapped, stale>> /\ buffer = <<>>
    BY <1>2 DEF Timeout, found
  <2>2. Len(spent') = 2
    BY <2>1, ContinueKeeps DEF Inv, QueryInv
  <2> QED
    BY <2>1, <2>2 DEF LateEnough
<1>3. Read \/ Timeout
  BY DEF Next, Discover, StartFails, Start, Query, ToHttps, AskService, Stop, Arrive, Stray
<1> QED
  BY <1>1, <1>2, <1>3

\* For any number of servers and strays: a server is given up after two attempts,
\* and one whose answer is there by then was given up because another datagram
\* had been read in its place.
THEOREM GivenUp == Spec => GivesUpLate
<1>1. Inv /\ [Next]_vars => [LateEnough]_vars
  BY NextLate
<1>2. Spec => [][LateEnough]_vars
  BY InitInv, NextInv, <1>1, PTL DEF Spec
<1> QED
  BY <1>2 DEF GivesUpLate, LateEnough
----------------------------------------------------------------------------
(* Types. *)

\* An id is drawn for a server at most, and the port is known when it is used.
Counts ==
    /\ phase = "idle" => draws = 0
    /\ phase = "stun" => server >= 1 /\ draws < server
    /\ phase = "waiting" => server \in Servers /\ draws <= server
    /\ phase \in {"stun", "waiting", "https"} => port # 0

LEMMA PortsArePositive == 0 \notin Ports
BY DEF Ports

LEMMA AddressesAreFinite == IsFiniteSet(Addresses)
<1>1. IsFiniteSet(0..255)
  <2>1. 0 \in Int /\ 255 \in Int
    OBVIOUS
  <2> QED
    BY <2>1, FS_Interval, Zenon
<1> QED
  BY <1>1, FS_Product DEF Addresses

\* A candidate.
Candidate == [type : {"host", "srflx", "public"}, at : Endpoints]

\* What start puts into the list before it asks anybody.
LEMMA HostsAreCandidates ==
    ASSUME NEW known \in SUBSET Addresses, NEW others \in SetToSeqs(known), NEW p \in Ports
    PROVE  HostCandidates(<<Loopback>> \o others, p) \in Seq(Candidate)
<1>1. Cardinality(known) \in Nat
  BY AddressesAreFinite, FS_Subset, FS_CardinalityType
<1>2. others \in [1..Cardinality(known) -> known]
  BY DEF SetToSeqs
<1>3. others \in Seq(Addresses)
  BY <1>1, <1>2
<1>4. <<Loopback>> \in Seq(Addresses)
  BY DEF Loopback, Addresses
<1> DEFINE all == <<Loopback>> \o others
<1>5. all \in Seq(Addresses)
  BY <1>3, <1>4
<1> HIDE DEF all
<1>6. \A i \in 1..Len(all) :
         [type |-> "host", at |-> [address |-> all[i], port |-> p]] \in Candidate
  BY <1>5 DEF Candidate, Endpoints
<1>7. DOMAIN all = 1..Len(all) /\ Len(all) \in Nat
  BY <1>5
<1> DEFINE hosts == HostCandidates(all, p)
<1>8. /\ DOMAIN hosts = 1..Len(all)
      /\ \A i \in 1..Len(all) :
            hosts[i] = [type |-> "host", at |-> [address |-> all[i], port |-> p]]
  BY <1>7 DEF HostCandidates
<1>9. hosts = [i \in 1..Len(all) |-> hosts[i]]
  BY <1>7 DEF HostCandidates
<1> HIDE DEF hosts
<1>10. hosts \in [1..Len(all) -> Candidate]
  BY <1>6, <1>8, <1>9
<1>11. hosts \in Seq(Candidate)
  BY <1>7, <1>10
<1> QED
  BY <1>11 DEF hosts, all

LEMMA AddedType ==
    ASSUME NEW list \in Seq(Candidate), NEW c \in Candidate
    PROVE  AddLocalCandidate(list, c) \in Seq(Candidate)
BY AppendProperties DEF AddLocalCandidate

\* What is taken from a page is an address of it, and public: the first such.
LEMMA TokenIsPublic ==
    ASSUME NEW page \in Seq(Addresses), ExtractPublicIPv4Token(page) # None.address
    PROVE  \E i \in DOMAIN page :
              /\ ExtractPublicIPv4Token(page) = page[i] /\ IsPublicIPv4Address(page[i])
              /\ \A j \in DOMAIN page : j < i => ~IsPublicIPv4Address(page[j])
              /\ page[i] \in Addresses
<1> DEFINE public == {i \in DOMAIN page : IsPublicIPv4Address(page[i])}
<1>1. public # {} /\ ExtractPublicIPv4Token(page) = page[Min(public)]
  BY DEF ExtractPublicIPv4Token
<1>2. DOMAIN page = 1..Len(page) /\ Len(page) \in Nat /\ public \in SUBSET Nat
  OBVIOUS
<1>3. Min(public) \in public /\ \A j \in public : Min(public) <= j
  <2> HIDE DEF public
  <2>1. \E i \in public : \A j \in public : i <= j
    BY <1>1, <1>2, LeastNumber
  <2> QED
    BY <2>1 DEF Min
<1> DEFINE i == Min(public)
<1>4. i \in DOMAIN page /\ IsPublicIPv4Address(page[i]) /\ page[i] \in Addresses
  BY <1>3
<1>5. ASSUME NEW j \in DOMAIN page, j < i
      PROVE  ~IsPublicIPv4Address(page[j])
  <2>1. j \notin public
    <3>1. i \in Nat /\ j \in Nat /\ (j \in public => i <= j)
      BY <1>2, <1>3
    <3> HIDE DEF i
    <3> QED
      BY <1>5, <3>1
  <2> QED
    BY <2>1
<1> QED
  BY <1>1, <1>4, <1>5

LEMMA AsksType ==
    ASSUME TypeOK, server \in Servers, NEW n \in {1, 2}, NEW id \in 0..NumServers, Asks(n, id)
    PROVE  net' \subseteq Datagrams
<1>1. mapped[server] \in Endpoints
  BY DEF TypeOK
<1>2. PICK replies \in {{}, {None}, {mapped[server]}} :
          net' = net \cup [id : {id}, n : {n}, says : replies]
  BY DEF Asks
<1>3. [id : {id}, n : {n}, says : replies] \subseteq Datagrams
  BY <1>1, <1>2 DEF Datagrams
<1> QED
  BY <1>2, <1>3 DEF TypeOK

LEMMA ContinueType ==
    ASSUME TypeOK, Counts, phase = "waiting", NEW why \in {"timeout", "other"}, Continue(why),
           UNCHANGED <<port, draws>>
    PROVE  /\ phase' \in {"stun", "waiting"} /\ server' \in 0..(NumServers + 1) /\ attempt' \in 0..2
           /\ net' \subseteq Datagrams /\ spent' \in Seq({"timeout", "other"})
           /\ Counts'
<1>1. server \in Servers /\ draws \in 0..NumServers /\ draws <= server /\ NumServers \in Nat /\ port # 0
  BY Parameters DEF Counts, TypeOK
<1>2. spent' \in Seq({"timeout", "other"})
  BY AppendProperties DEF Continue, TypeOK
<1>3. CASE attempt = 1
  <2>1. attempt' = 2 /\ Asks(2, draws) /\ UNCHANGED <<phase, server>>
    BY <1>3 DEF Continue
  <2>2. net' \subseteq Datagrams
    BY <1>1, <2>1, AsksType
  <2> QED
    BY <1>1, <1>2, <2>1, <2>2 DEF Counts, Servers
<1>4. CASE attempt # 1
  <2>1. phase' = "stun" /\ server' = server + 1 /\ UNCHANGED <<attempt, net>>
    BY <1>4 DEF Continue
  <2> QED
    BY <1>1, <1>2, <2>1 DEF Counts, Servers, TypeOK
<1> QED
  BY <1>3, <1>4

LEMMA BufferType ==
    ASSUME TypeOK, buffer # <<>>
    PROVE  Head(buffer) \in Datagrams /\ Tail(buffer) \in Seq(Datagrams)
BY HeadTailProperties DEF TypeOK

LEMMA TypeStep ==
    ASSUME TypeOK, Counts, [Next]_vars
    PROVE  TypeOK' /\ Counts'
<1>0. /\ NumServers \in Nat /\ MaxStrays \in Nat /\ HostAddresses \subseteq Addresses
      /\ Mappings \subseteq Endpoints /\ Pages \subseteq Seq(Addresses)
      /\ PreferredPort \in Ports /\ AutoPort \in Ports
  BY ServersAssumption, AddressesAssumption
<1>c. candidates \in Seq(Candidate)
  BY DEF TypeOK, Candidate
<1>1. CASE StartFails
  BY <1>1 DEF StartFails, TypeOK, Counts, query, found
<1>2. CASE Start
  <2>1. port' \in Ports /\ phase' = "stun" /\ server' = 1 /\ draws' = draws /\ draws = 0
    BY <1>0, <1>2 DEF Start, Counts
  <2>a. port' # 0
    BY <2>1, PortsArePositive
  <2>2. PICK known \in SUBSET Addresses : \E others \in SetToSeqs(known) :
           candidates' = HostCandidates(<<Loopback>> \o others, port')
    <3>1. PICK known \in {{}, HostAddresses} : \E others \in SetToSeqs(known \ {Loopback}) :
             candidates' = HostCandidates(<<Loopback>> \o others, port')
      BY <1>2 DEF Start
    <3>2. known \ {Loopback} \in SUBSET Addresses
      BY <1>0
    <3> QED
      BY <3>1, <3>2, Zenon
  <2>3. candidates' \in Seq([type : {"host", "srflx", "public"}, at : Endpoints])
    BY <2>1, <2>2, HostsAreCandidates DEF Candidate
  <2>4. UNCHANGED <<attempt, draws, service, mapped, credit, net, buffer, strays, spent, stale>>
    BY <1>2 DEF Start
  <2>5. Counts'
    BY <2>1, <2>a DEF Counts
  <2> QED
    BY <1>0, <2>1, <2>3, <2>4, <2>5 DEF TypeOK
<1>3. CASE Query
  <2>0. server \in Servers /\ draws < server /\ draws \in 0..NumServers /\ port # 0
    BY <1>0, <1>3 DEF Query, Counts, TypeOK, Servers
  <2>1. /\ spent' = <<>>
        /\ UNCHANGED <<port, service, candidates, mapped, credit, buffer, strays, stale>>
    BY <1>3 DEF Query, found
  <2>2. CASE server' = server + 1 /\ UNCHANGED <<phase, attempt, draws, net>>
    <3>1. Counts'
      BY <1>0, <1>3, <2>0, <2>1, <2>2 DEF Query, Counts, Servers
    <3> QED
      BY <1>0, <2>0, <2>1, <2>2, <3>1 DEF TypeOK, Servers
  <2>3. CASE /\ phase' = "waiting" /\ attempt' = 1 /\ draws' = draws + 1
             /\ Asks(1, draws') /\ UNCHANGED server
    <3>1. draws' \in 0..NumServers /\ draws' <= server
      BY <1>0, <2>0, <2>3 DEF Servers
    <3>2. net' \subseteq Datagrams
      BY <2>0, <2>3, <3>1, AsksType
    <3>3. Counts'
      BY <2>0, <2>1, <2>3, <3>1 DEF Counts
    <3> QED
      BY <2>1, <2>3, <3>1, <3>2, <3>3 DEF TypeOK
  <2> QED
    BY <1>3, <2>2, <2>3 DEF Query
<1>4. CASE Read
  <2> DEFINE d == Head(buffer)
  <2>1. /\ phase = "waiting" /\ d \in Datagrams /\ buffer' = Tail(buffer)
        /\ buffer' \in Seq(Datagrams)
        /\ UNCHANGED <<port, draws, service, mapped, strays>>
    BY <1>4, BufferType DEF Read
  <2>2. stale' \in BOOLEAN
    BY <1>4, Zenon DEF Read, TypeOK
  <2>3. CASE IsAnswer(d)
    <3>1. /\ phase' = "stun" /\ server' = server + 1 /\ UNCHANGED <<attempt, net, spent>>
          /\ credit' = [credit EXCEPT ![server] = d.says]
          /\ candidates' = AddLocalCandidate(candidates, [type |-> "srflx", at |-> d.says])
      BY <1>4, <2>3 DEF Read
    <3>2. d.says \in Endpoints
      BY <2>1, <2>3 DEF IsAnswer, Datagrams
    <3>3. [type |-> "srflx", at |-> d.says] \in Candidate
      BY <3>2 DEF Candidate
    <3>4. candidates' \in Seq([type : {"host", "srflx", "public"}, at : Endpoints])
      BY <1>c, <3>1, <3>3, AddedType DEF Candidate
    <3>5. server \in Servers /\ draws <= server /\ port # 0 /\ draws \in Nat
      BY <2>1 DEF Counts, TypeOK
    <3>6. Counts'
      BY <1>0, <2>1, <3>1, <3>5 DEF Counts, Servers
    <3>7. credit' \in [Servers -> Endpoints \cup {None}]
      BY <3>1, <3>2 DEF TypeOK
    <3>8. server' \in 0..(NumServers + 1)
      BY <1>0, <3>1, <3>5 DEF Servers
    <3> QED
      BY <2>1, <2>2, <3>1, <3>4, <3>6, <3>7, <3>8 DEF TypeOK
  <2>4. CASE ~IsAnswer(d)
    <3>1. Continue("other") /\ UNCHANGED <<candidates, credit>>
      BY <1>4, <2>4 DEF Read
    <3>2. /\ phase' \in {"stun", "waiting"} /\ server' \in 0..(NumServers + 1) /\ attempt' \in 0..2
          /\ net' \subseteq Datagrams /\ spent' \in Seq({"timeout", "other"})
          /\ Counts'
      BY <2>1, <3>1, ContinueType
    <3> QED
      BY <2>1, <2>2, <3>1, <3>2 DEF TypeOK
  <2> QED
    BY <2>3, <2>4
<1>5. CASE Timeout
  <2>1. /\ phase = "waiting" /\ Continue("timeout")
        /\ UNCHANGED <<port, draws, service, candidates, mapped, credit, buffer, strays, stale>>
    BY <1>5 DEF Timeout, found
  <2>2. /\ phase' \in {"stun", "waiting"} /\ server' \in 0..(NumServers + 1) /\ attempt' \in 0..2
        /\ net' \subseteq Datagrams /\ spent' \in Seq({"timeout", "other"})
        /\ Counts'
    BY <2>1, ContinueType
  <2> QED
    BY <2>1, <2>2 DEF TypeOK
<1>6. CASE ToHttps
  BY <1>6 DEF ToHttps, TypeOK, Counts, found
<1>7. CASE AskService
  <2>1. PICK page \in Pages \cup {<<>>} :
           LET public == ExtractPublicIPv4Token(page)
               type == IF \A s \in Servers : credit[s] = None THEN "srflx" ELSE "public"
           IN  IF public # None.address
               THEN /\ phase' = "running"
                    /\ candidates' = AddLocalCandidate(candidates,
                           [type |-> type, at |-> [address |-> public, port |-> port]])
                    /\ UNCHANGED service
               ELSE /\ IF service < 3 THEN service' = service + 1 /\ UNCHANGED phase
                       ELSE phase' = "running" /\ UNCHANGED service
                    /\ UNCHANGED candidates
    BY <1>7 DEF AskService
  <2>2. /\ phase = "https" /\ port \in Ports /\ page \in Seq(Addresses)
        /\ UNCHANGED <<port, server, attempt, draws, mapped, credit, net, buffer, strays, spent, stale>>
    <3>1. page \in Seq(Addresses)
      BY <1>0, <2>1, EmptySeq
    <3>2. port \in Ports
      BY <1>7 DEF AskService, Counts, TypeOK
    <3> QED
      BY <1>7, <3>1, <3>2 DEF AskService
  <2>3. CASE ExtractPublicIPv4Token(page) # None.address
    <3> DEFINE public == ExtractPublicIPv4Token(page)
               type == IF \A s \in Servers : credit[s] = None THEN "srflx" ELSE "public"
               new == [type |-> type, at |-> [address |-> public, port |-> port]]
    <3>1. public \in Addresses
      BY <2>2, <2>3, TokenIsPublic
    <3>2. new \in Candidate
      BY <2>2, <3>1 DEF Candidate, Endpoints
    <3>3. phase' = "running" /\ candidates' = AddLocalCandidate(candidates, new) /\ UNCHANGED service
      BY <2>1, <2>3
    <3>4. candidates' \in Seq([type : {"host", "srflx", "public"}, at : Endpoints])
      BY <1>c, <3>2, <3>3, AddedType DEF Candidate
    <3>5. Counts'
      BY <3>3 DEF Counts
    <3> QED
      BY <2>2, <3>3, <3>4, <3>5 DEF TypeOK
  <2>4. CASE ExtractPublicIPv4Token(page) = None.address
    <3>1. /\ phase' \in {"https", "running"} /\ service' \in 0..3 /\ UNCHANGED candidates
      BY <2>1, <2>2, <2>4 DEF TypeOK
    <3> QED
      BY <2>2, <3>1 DEF TypeOK, Counts
  <2> QED
    BY <2>3, <2>4
<1>8. CASE Stop
  BY <1>8 DEF Stop, TypeOK, Counts, query
<1>9. CASE Arrive
  <2>1. PICK d \in net : net' = net \ {d} /\ buffer' = Append(buffer, d)
    BY <1>9 DEF Arrive
  <2>2. buffer' \in Seq(Datagrams) /\ net' \subseteq Datagrams
    BY <2>1, AppendProperties DEF TypeOK
  <2> QED
    BY <1>9, <2>2 DEF Arrive, TypeOK, Counts, query, found
<1>10. CASE Stray
  <2>1. PICK id \in 0..NumServers, m \in Mappings \cup {None} :
            buffer' = Append(buffer, [id |-> id, n |-> 0, says |-> m])
    BY <1>10 DEF Stray
  <2>2. [id |-> id, n |-> 0, says |-> m] \in Datagrams
    BY <1>0, <2>1 DEF Datagrams
  <2>3. buffer' \in Seq(Datagrams)
    BY <2>1, <2>2, AppendProperties DEF TypeOK
  <2>4. strays' \in 0..MaxStrays
    BY <1>0, <1>10 DEF Stray, TypeOK
  <2> QED
    BY <1>10, <2>3, <2>4 DEF Stray, TypeOK, Counts, query, found
<1>11. CASE UNCHANGED vars
  BY <1>11 DEF vars, query, found, TypeOK, Counts
<1> QED
  BY <1>1, <1>2, <1>3, <1>4, <1>5, <1>6, <1>7, <1>8, <1>9, <1>10, <1>11 DEF Next, Discover

\* Every variable keeps its type, for any servers, addresses and pages: no id is
\* drawn beyond the servers, no third attempt is made, and what is sent to the
\* peers as a candidate is an endpoint of a kind they know, with a port.
THEOREM TypeCorrect == Spec => []TypeOK
<1>1. Init => TypeOK /\ Counts
  <2> SUFFICES ASSUME Init PROVE TypeOK /\ Counts
    OBVIOUS
  <2>1. NumServers \in Nat /\ MaxStrays \in Nat /\ Mappings \subseteq Endpoints
    BY ServersAssumption
  <2>2. mapped \in [Servers -> Endpoints] /\ credit \in [Servers -> Endpoints \cup {None}]
    BY <2>1 DEF Init
  <2>3. /\ candidates \in Seq([type : {"host", "srflx", "public"}, at : Endpoints])
        /\ buffer \in Seq(Datagrams) /\ spent \in Seq({"timeout", "other"})
    BY EmptySeq DEF Init
  <2>4. /\ phase = "idle" /\ port = 0 /\ server = 0 /\ attempt = 0 /\ draws = 0 /\ service = 0
        /\ net = {} /\ strays = 0 /\ stale = FALSE
    BY DEF Init
  <2>5. stale \in BOOLEAN
    BY <2>4, Zenon
  <2>6. /\ server \in 0..(NumServers + 1) /\ attempt \in 0..2 /\ draws \in 0..NumServers
        /\ service \in 0..3 /\ strays \in 0..MaxStrays
    BY <2>1, <2>4
  <2> QED
    BY <2>2, <2>3, <2>4, <2>5, <2>6 DEF TypeOK, Counts
<1>2. TypeOK /\ Counts /\ [Next]_vars => TypeOK' /\ Counts'
  BY TypeStep
<1> QED
  BY <1>1, <1>2, PTL DEF Spec
=============================================================================
