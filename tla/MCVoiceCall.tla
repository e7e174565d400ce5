---------------------------- MODULE MCVoiceCall ----------------------------
(* Instances of the call for TLC. *)
EXTENDS VoiceCall

\* Who can reach whom unasked.
AllOpen == {pq \in Peers \X Peers : pq[1] # pq[2]}
DownwardOnly == {pq \in Peers \X Peers : pq[1] > pq[2]}

\* Bound: one client talks and the others report their status; routes, queues
\* and filters are kept per pair.
OneTalks ==
    /\ \A p \in Peers \ {1} : seq[p] = 0
    /\ \A p \in Peers : \A n \in DOMAIN inbox[p] :
          inbox[p][n].type = "peer_status" => inbox[p][n].from # 1
=============================================================================
