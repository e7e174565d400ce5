---------------------------- MODULE RoomService ----------------------------
(***************************************************************************)
(* What the coordinator promises about rooms, with no table, channel or    *)
(* connection in it: a client is in at most one room; a room is open while *)
(* somebody is in it; somebody who comes finds space; the host is whoever  *)
(* opened the room until that client goes, and then the smallest of the    *)
(* ids that are left.                                                      *)
(***************************************************************************)
EXTENDS Naturals, FiniteSets

CONSTANTS Clients, Rooms, NoRoom, MaxPeers

VARIABLES
    at,       \* client -> the room it is in, or NoRoom
    host,     \* open room -> its host
    opened    \* the rooms that have ever been open

serviceVars == <<at, host, opened>>

Least(S) == CHOOSE p \in S : \A q \in S : p <= q

Members(r) == {c \in Clients : at[c] = r}

Init ==
    /\ at = [c \in Clients |-> NoRoom]
    /\ host = [r \in {} |-> NoRoom]
    /\ opened = {}

\* The hosts once c has gone from wherever it was.
Handover(c) ==
    [r \in {q \in DOMAIN host : Members(q) \ {c} # {}} |->
        IF host[r] = c THEN Least(Members(r) \ {c}) ELSE host[r]]

Open(c, r) ==
    /\ r \notin opened
    /\ opened' = opened \cup {r}
    /\ at' = [at EXCEPT ![c] = r]
    /\ host' = [q \in DOMAIN Handover(c) \cup {r} |-> IF q = r THEN c ELSE Handover(c)[q]]

Enter(c, r) ==
    /\ r \in DOMAIN host
    /\ at[c] # r
    /\ at' = [at EXCEPT ![c] = r]
    /\ Cardinality(Members(r)) < MaxPeers
    /\ host' = Handover(c)
    /\ UNCHANGED opened

Leave(c) ==
    /\ at[c] # NoRoom
    /\ at' = [at EXCEPT ![c] = NoRoom]
    /\ host' = Handover(c)
    /\ UNCHANGED opened

\* Joining the room one is in: one goes and comes back, no longer as the host.
Return(c) ==
    /\ at[c] # NoRoom
    /\ UNCHANGED <<opened, at>>
    /\ Members(at[c]) # {c}
    /\ host' = Handover(c)

Next ==
    \E c \in Clients :
        \/ \E r \in Rooms : Open(c, r) \/ Enter(c, r)
        \/ Leave(c)
        \/ Return(c)

Spec == Init /\ [][Next]_serviceVars
=============================================================================
