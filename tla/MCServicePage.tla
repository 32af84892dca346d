--------------------------- MODULE MCServicePage ----------------------------
(* A user in room 1 who may be invited to room 2, or create it.            *)
EXTENDS ServicePage

TwoRooms == {1, 2}
OneRoom == <<1>>
=============================================================================
