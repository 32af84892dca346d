---------------------------- MODULE MCClientRpc -----------------------------
(* Instances of ClientRpc: two rooms, one of them room 0, which the service *)
(* page never opens by itself.                                              *)
EXTENDS ClientRpc

RoomIds == {0, 1}
Nowhere == -1
=============================================================================
