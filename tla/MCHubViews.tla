---------------------------- MODULE MCHubViews ----------------------------
(* Instances of the hub with what its clients have been told. *)
EXTENDS HubViews, TLC

RoomSymmetry == Permutations(Rooms)

Moves == {"create_room", "join_room", "leave_room"}
AllButLeaving == {"hello", "list_rooms", "create_room", "join_room", "ice", "peer_status",
                  "voice_frame", "heartbeat", "unknown"}

\* Bound: the safety properties speak of clients that lost nothing, and lost
\* only grows; nothing is left to check once every client has lost something.
SomebodyLostNothing == lost # Clients
=============================================================================
