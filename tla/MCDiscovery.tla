---------------------------- MODULE MCDiscovery ----------------------------
(* Two servers behind a NAT that may map the socket to one of two ports,   *)
(* and pages that have the public address, a private one, or both.         *)
EXTENDS Discovery

MCHostAddresses == {<<192, 168>>}
MCMappings == {[address |-> <<8, 8>>, port |-> p] : p \in {2, 3}}
MCPages == {<<<<10, 1>>, <<8, 8>>>>, <<<<172, 20>>>>}
=============================================================================
