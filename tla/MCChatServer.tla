---------------------------- MODULE MCChatServer ----------------------------
(* Small instances of ChatServer: who sits at which client, what the tables *)
(* hold when the server starts, and which requests are sent.                *)
EXTENDS ChatServer, TLC

CONSTANTS u1, u2, p1, c1, c2

OneAccount == [EmptyDb EXCEPT !.account[u1] = p1]
OneRoom == [EmptyDb EXCEPT
    !.account = [u \in Users |-> p1], !.token = Users,
    !.room = {0}, !.lastRead[0] = [u \in Users |-> 0]]
OneMessage == [OneRoom EXCEPT
    !.chat = {[room |-> 0, user |-> u1, id |-> 0, deleted |-> FALSE]}]

(* Each client has its own user, or both try to be the second one.         *)
OnePersonEach == [c \in Clients |-> IF c = c1 THEN {u1} ELSE {u2}]
SecondContested == [c \in Clients |-> IF c = c1 THEN Users ELSE {u2}]

Chatting == {"LOGIN", "SSE_CONNECT", "SEND_CHAT"}
Entering == {"SIGNUP", "LOGIN", "Search_User", "CREATE_ROOM", "UPDATE_ROOM_LIST"}
Marking == {"LOGIN", "UPDATE_CHAT_LIST", "SEND_CHAT_REACT", "DELETE_CHAT"}
=============================================================================
