-------------------------- MODULE MCUdpAssociation --------------------------
(* Two senders, so that one of them is not the client, and a queue that the *)
(* upstream can fill.                                                       *)
EXTENDS UdpAssociation, TLC

CONSTANTS a1, a2

MCClients == {a1, a2}
Symmetric == Permutations(MCClients)
=============================================================================
