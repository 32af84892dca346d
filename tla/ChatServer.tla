----------------------------- MODULE ChatServer -----------------------------
(***************************************************************************)
(* The chat server of server.c, cmd.c, server_sock.c and mysql_query.c.    *)
(* One worker thread per connection receives a request, looks up the       *)
(* session, makes its calls to the database, pushes CHAT_UPDATED to the    *)
(* members of a room and answers.  A step is one call, one send or one     *)
(* look at the session list, so workers interleave between them.           *)
(*                                                                         *)
(* Calls are atomic (MysqlConn shows that mysql_common.c makes them so).   *)
(* Sessions are appended in one step (SessionList takes the append apart). *)
(* A client is the GTK program: it opens a connection for requests and one *)
(* for pushes, and sends what its callbacks send.  File descriptors are    *)
(* handed out lowest first, so one that is closed is soon used again.      *)
(*                                                                         *)
(* Left out: ECHO, USER_LIST, ENTER_ROOM and EXIT_ROOM, which change no    *)
(* state and which the client never sends; contents of answers.            *)
(***************************************************************************)
EXTENDS MysqlQuery

CONSTANTS
    Fds,          \* descriptors accept may return, positive numbers
    Clients,      \* client processes
    Person,       \* Person[c]: the ids the person at client c may enter
    NoUser,       \* not logged in
    Freed,        \* the id of a session whose string was freed
    Types,        \* request types clients send in this instance
    InitDb,       \* tables when the server is started
    MaxStarts,    \* bound: client processes started
    MaxSessions,  \* bound: sessions appended
    MaxChats,     \* bound: messages of a room
    MaxRooms,     \* bound: rooms
    DbFaulty,     \* may a call fail, with or without its effect?
    Leaving       \* may a client leave?

ASSUME FdsAssumption == Fds \subseteq Nat \ {0}
ASSUME NamesAssumption == NoUser \notin Users \cup Clients /\ Freed \notin Users
ASSUME SwitchesAssumption == DbFaulty \in BOOLEAN /\ Leaving \in BOOLEAN
ASSUME PersonAssumption == Person \in [Clients -> SUBSET Users]
ASSUME InitDbAssumption ==
    InitDb \in Db /\ IsFiniteSet(InitDb.room) /\ IsFiniteSet(InitDb.chat)

VARIABLES
    up,        \* the server process runs
    db,        \* the tables
    sessions,  \* session_list: id, fd and sse_fd of each login
    work,      \* per descriptor: the worker thread and its locals
    client,    \* per client: its two connections and what it knows
    started,   \* client processes started
    recycled,  \* history: descriptors closed since the server started
    latest,    \* history: the client that last registered for a user
    missed,    \* history: clients that have not heard of a change of a room
    cut,       \* history: rooms in which a push loop was given up
    heard      \* history: pushes a client received, and on which connection

history == <<recycled, latest, missed, cut, heard>>
vars == <<up, db, sessions, work, client, started, history>>

NoFd == -1
NoReq == [type |-> "none"]
Idle == [pc |-> "recv", req |-> NoReq, ss |-> 0, rows |-> {}, answer |-> "none"]
Closed == [Idle EXCEPT !.pc = "closed"]

(* ear: the SSE thread of the client; early: a push came before the answer *)
(* to its SSE_CONNECT.                                                     *)
Off == [rpc |-> NoFd, sse |-> NoFd, user |-> NoUser, ear |-> "off", early |-> FALSE]

Init ==
    /\ up = TRUE
    /\ db = InitDb
    /\ sessions = <<>>
    /\ work = [f \in Fds |-> Closed]
    /\ client = [c \in Clients |-> Off]
    /\ started = 0
    /\ recycled = {}
    /\ latest = [u \in Users |-> NoUser]
    /\ missed = {}
    /\ cut = {}
    /\ heard = {}
-----------------------------------------------------------------------------
(* Sessions.  A lookup returns the position of the first match, 0 for none.*)
(* An id that was freed may compare equal to anything.                     *)
(* Slips: the test assigns instead of comparing; the next session is taken.*)
FirstSession(f) == IF sessions = <<>> THEN 0 ELSE 1
NextSession(f) ==
    LET same == {i \in DOMAIN sessions : sessions[i].fd = f}
    IN IF same = {} THEN 0 ELSE Min(same) + 1

FindByFd(f) ==
    LET same == {i \in DOMAIN sessions : sessions[i].fd = f}
    IN IF same = {} THEN 0 ELSE Min(same)

FindById(u) ==
    LET same == {i \in DOMAIN sessions : sessions[i].id = u}
        first == IF same = {} THEN 0 ELSE Min(same)
    IN {first} \cup {i \in DOMAIN sessions :
                        sessions[i].id = Freed /\ (first = 0 \/ i < first)}

(* Slip: the connection for requests is used for the push.                 *)
RequestFds(u) == {IF i = 0 THEN NoFd ELSE sessions[i].fd : i \in FindById(u)}

SseFds(u) == {IF i = 0 THEN NoFd ELSE sessions[i].sse : i \in FindById(u)}

(* What a handler reads through user_id = ss->id. *)
UserIds(f) ==
    IF sessions[work[f].ss].id = Freed THEN Users ELSE {sessions[work[f].ss].id}
-----------------------------------------------------------------------------
(* The requests of the client at the other end of descriptor f. *)
Ends(f) == {c \in Clients : f \in {client[c].rpc, client[c].sse}}
Gone(f) == Ends(f) = {}

InFlight(type) == Cardinality({f \in Fds : work[f].req.type = type})
HisRooms(u) == {r \in Rooms : u \in Members(r, db)}

LoginPage(c) ==
    {q \in [type : {"SIGNUP", "LOGIN"}, user : Person[c], pwd : Passwords] :
        q.type = "LOGIN" => Len(sessions) + InFlight("LOGIN") < MaxSessions}

(* The menu hides "delete for all" at the messages of others, and shows it  *)
(* again with the rest of the menu: it is there at every message.          *)
RoomPage(r) ==
         [type : {"SEND_CHAT"}, room : {x \in {r} :
              Cardinality(RoomChats(x, db)) + InFlight("SEND_CHAT") < MaxChats}]
    \cup [type : {"SEND_CHAT_REACT"}, room : {r}, chat : ChatIds(r, db), react : Reacts]
    \cup [type : {"DELETE_CHAT"}, room : {r}, chat : ChatIds(r, db), all : BOOLEAN]
    \cup [type : {"UPDATE_CHAT_LIST"}, room : {r}]

(* A new room has its creator and the users picked in the search as        *)
(* members; twice: a user was picked twice.  room is local room_id.        *)
ServicePage(u) ==
         (UNION {RoomPage(r) : r \in HisRooms(u)})
    \cup [type : {"UPDATE_ROOM_LIST", "Search_User"}]
    \cup [type : {"CREATE_ROOM"}, users : {m \in SUBSET Users : u \in m},
          twice : BOOLEAN, room : {n \in {Null} :
              Cardinality(db.room) + InFlight("CREATE_ROOM") < MaxRooms}]

Requests(c, f) ==
    {q \in IF f = client[c].sse
           THEN [type : {"SSE_CONNECT"}, user : {u \in Users :
                    u = client[c].user /\ client[c].ear = "start"}]
           ELSE IF client[c].sse = NoFd THEN {}
           ELSE IF client[c].user = NoUser THEN LoginPage(c)
           ELSE ServicePage(client[c].user) :
        q.type \in Types}
-----------------------------------------------------------------------------
(* Steps shared by the handlers. *)
At(f, p) == work[f].pc = p
Goto(f, p) == work' = [work EXCEPT ![f].pc = p]
Reply(f, status) == work' = [work EXCEPT ![f].pc = "reply", ![f].answer = status]
Finish(f) == work' = [work EXCEPT ![f] = Idle]

(* A call: its effect on the tables and its answer. *)
Outcomes(c) ==
         {[db |-> Effect(c, db), res |-> Answer(c, Effect(c, db))]}
    \cup {[db |-> d, res |-> NullResult] :
             d \in IF DbFaulty THEN {db, Effect(c, db)} ELSE {}}
Empty(o) == o.res.null \/ o.res.rows = {}

(* The process ends: connections and sessions are gone, clients are        *)
(* started anew.  The tables stay.                                         *)
Crash ==
    /\ up' = FALSE
    /\ sessions' = <<>>
    /\ work' = [f \in Fds |-> Closed]
    /\ client' = [c \in Clients |-> Off]
    /\ recycled' = {} /\ missed' = {} /\ cut' = {} /\ heard' = {}
    /\ latest' = [u \in Users |-> NoUser]
    /\ UNCHANGED started

Boot ==
    /\ ~up
    /\ up' = TRUE
    /\ UNCHANGED <<db, sessions, work, client, started, history>>
-----------------------------------------------------------------------------
(* Connections.  A client opens its request connection, then its push      *)
(* connection.                                                             *)
Accept(c) ==
    LET free == {g \in Fds : At(g, "closed")} IN
    /\ up /\ free # {}
    /\ work' = [work EXCEPT ![Min(free)] = Idle]
    /\ \/ /\ client[c].rpc = NoFd /\ started < MaxStarts
          /\ client' = [client EXCEPT ![c].rpc = Min(free)]
          /\ started' = started + 1
       \/ /\ client[c].rpc # NoFd /\ client[c].sse = NoFd
          /\ client' = [client EXCEPT ![c].sse = Min(free)]
          /\ UNCHANGED started
    /\ UNCHANGED <<up, db, sessions, history>>

Leave(c) ==
    /\ Leaving
    /\ client[c] # Off
    /\ client' = [client EXCEPT ![c] = Off]
    /\ missed' = {m \in missed : m[1] # c}
    /\ heard' = {h \in heard : h[1] # c}
    /\ UNCHANGED <<up, db, sessions, work, started, recycled, latest, cut>>

(* recv returns 0 or fails: the worker closes its descriptor and ends.     *)
(* Sessions that name the descriptor stay in the list.                     *)
Close(f) ==
    /\ At(f, "recv") /\ Gone(f)
    /\ work' = [work EXCEPT ![f] = Closed]
    /\ recycled' = recycled \cup {f}
    /\ UNCHANGED <<up, db, sessions, client, started, latest, missed, cut, heard>>

FirstStep ==
    [ SIGNUP |-> "find_user", LOGIN |-> "match_user", SSE_CONNECT |-> "register",
      SEND_CHAT |-> "insert_chat", SEND_CHAT_REACT |-> "find_react",
      DELETE_CHAT |-> "delete", CREATE_ROOM |-> "insert_room",
      UPDATE_ROOM_LIST |-> "room_list", Search_User |-> "search_user",
      UPDATE_CHAT_LIST |-> "chat_list" ]

NeedsSession == {"SEND_CHAT", "SEND_CHAT_REACT", "DELETE_CHAT",
                 "UPDATE_ROOM_LIST", "Search_User", "UPDATE_CHAT_LIST"}

(* receive_cmd, execute_cmd and the session lookup of the handler. *)
Receive(f) ==
    /\ At(f, "recv")
    /\ \E c \in Ends(f) : \E q \in Requests(c, f) :
          /\ work' = [work EXCEPT ![f] =
               IF q.type \in NeedsSession /\ FindByFd(f) = 0
               THEN [Idle EXCEPT !.pc = "reply", !.req = q,
                                 !.answer = "Session_Not_Found"]
               ELSE [Idle EXCEPT !.pc = FirstStep[q.type], !.req = q,
                                 !.ss = FindByFd(f)]]
          /\ client' = IF q.type = "SSE_CONNECT"
                       THEN [client EXCEPT ![c].ear = "wait"] ELSE client
    /\ UNCHANGED <<up, db, sessions, started, history>>

(* send_to_client(fd, answer).  Sending to a client that left succeeds, or *)
(* raises SIGPIPE, which nothing handles.                                  *)
LoginAnswered(c, f) ==
    [client EXCEPT ![c].user = work[f].req.user, ![c].ear = "start"]
SseAnswered(c) ==
    [client EXCEPT ![c].ear = IF client[c].early THEN "dead" ELSE "on"]

SendReply(f) ==
    LET q == work[f].req
        ok == work[f].answer = "OK"
    IN
    /\ At(f, "reply")
    /\ Finish(f)
    /\ client' =
         CASE ok /\ q.type = "LOGIN" /\ ~Gone(f) ->
                LoginAnswered(CHOOSE c \in Ends(f) : TRUE, f)
           [] ok /\ q.type = "SSE_CONNECT" /\ ~Gone(f) ->
                SseAnswered(CHOOSE c \in Ends(f) : TRUE)
           [] OTHER -> client
    /\ UNCHANGED <<up, db, sessions, started, history>>

BrokenPipe(f) ==
    /\ \/ At(f, "reply") /\ Gone(f)
       \/ /\ At(f, "push")
          /\ \E u \in work[f].rows : \E g \in SseFds(u) \cap Fds :
                ~At(g, "closed") /\ Gone(g)
    /\ Crash
    /\ UNCHANGED db
-----------------------------------------------------------------------------
(* cmd_signup.  A failed look-up counts as "not taken", and the outcome of *)
(* the insertion is not looked at.                                         *)
FindUser(f) ==
    /\ At(f, "find_user")
    /\ \E o \in Outcomes([name |-> "find_user", user |-> work[f].req.user]) :
          IF Empty(o) THEN Goto(f, "insert_user") ELSE Reply(f, "Signup_Already_Exist")
    /\ UNCHANGED <<up, db, sessions, client, started, history>>

(* The fields of vo are bound with a length one above their size, and what *)
(* follows the end of the id is not initialised: the row may be rejected   *)
(* as too long, or be stored for an id nobody enters.                      *)
InsertUser(f) ==
    LET q == work[f].req IN
    /\ At(f, "insert_user")
    /\ \/ \E o \in Outcomes([name |-> "insert_user", user |-> q.user, pwd |-> q.pwd]) :
             db' = o.db
       \/ UNCHANGED db
    /\ Reply(f, "OK")
    /\ UNCHANGED <<up, sessions, client, started, history>>

(* Slip: rows are counted, and "select count" always has one.              *)
MatchUserRows(f) ==
    LET q == work[f].req IN
    /\ At(f, "match_user")
    /\ \E o \in Outcomes([name |-> "match_user", user |-> q.user, pwd |-> q.pwd]) :
          IF o.res.null THEN Reply(f, "Login_Failed") ELSE Goto(f, "count_token")
    /\ UNCHANGED <<up, db, sessions, client, started, history>>

(* cmd_login, mysql_refresh_token and add_session.  The bytes after the id *)
(* and the password take part in the comparison, so it may always fail.    *)
MatchUser(f) ==
    LET q == work[f].req IN
    /\ At(f, "match_user")
    /\ \/ \E o \in Outcomes([name |-> "match_user", user |-> q.user, pwd |-> q.pwd]) :
             IF Empty(o) THEN Reply(f, "Login_Failed") ELSE Goto(f, "count_token")
       \/ Reply(f, "Login_Failed")
    /\ UNCHANGED <<up, db, sessions, client, started, history>>

(* Slip: a login without a session is answered like one with a session.    *)
CountTokenIgnored(f) ==
    /\ At(f, "count_token")
    /\ \E o \in Outcomes([name |-> "count_token", user |-> work[f].req.user]) :
          IF o.res.null THEN Reply(f, "OK")
          ELSE Goto(f, IF Empty(o) THEN "insert_token" ELSE "update_token")
    /\ UNCHANGED <<up, db, sessions, client, started, history>>

(* Without the row count add_session gives up, and the login is answered   *)
(* OK with an empty access token.                                          *)
CountToken(f) ==
    /\ At(f, "count_token")
    /\ \E o \in Outcomes([name |-> "count_token", user |-> work[f].req.user]) :
          IF o.res.null THEN Reply(f, "NoToken")
          ELSE Goto(f, IF Empty(o) THEN "insert_token" ELSE "update_token")
    /\ UNCHANGED <<up, db, sessions, client, started, history>>

WriteToken(f) ==
    /\ work[f].pc \in {"insert_token", "update_token"}
    /\ \E o \in Outcomes([name |-> work[f].pc, user |-> work[f].req.user]) : db' = o.db
    /\ Goto(f, "add_session")
    /\ UNCHANGED <<up, sessions, client, started, history>>

(* The header of the answer gets the low byte of the token's address, so   *)
(* the token may arrive empty although there is a session.                 *)
AddSession(f) ==
    /\ At(f, "add_session")
    /\ sessions' = Append(sessions, [id |-> work[f].req.user, fd |-> f, sse |-> NoFd])
    /\ \E token \in {"OK", "NoToken"} : Reply(f, token)
    /\ UNCHANGED <<up, db, client, started, history>>

(* cmd_sse_connect. *)
Register(f) ==
    LET u == work[f].req.user IN
    /\ At(f, "register")
    /\ \E i \in FindById(u) :
          IF i = 0 THEN Finish(f) /\ UNCHANGED <<sessions, latest>>
          ELSE /\ sessions' = [sessions EXCEPT ![i].sse = f]
               /\ Reply(f, "OK")
               /\ latest' = [latest EXCEPT ![u] =
                    IF Gone(f) THEN NoUser ELSE CHOOSE c \in Ends(f) : TRUE]
    /\ UNCHANGED <<up, db, client, started, recycled, missed, cut, heard>>
-----------------------------------------------------------------------------
(* cmd_chat, cmd_chat_react, cmd_delete_chat: change the room, then push.  *)
PostCall(f, u) ==
    LET q == work[f].req IN
    CASE q.type = "SEND_CHAT" -> [name |-> "insert_chat", room |-> q.room, user |-> u]
      [] q.type = "SEND_CHAT_REACT" ->
           [name |-> work[f].pc, room |-> q.room, user |-> u, chat |-> q.chat,
            type |-> q.react]
      [] q.type = "DELETE_CHAT" ->
           [name |-> IF q.all THEN "delete_all" ELSE "delete_self",
            room |-> q.room, user |-> u, chat |-> q.chat]

(* Slip: update and insert of a reaction exchanged.                        *)
FindReactSwapped(f) ==
    /\ At(f, "find_react")
    /\ \E u \in UserIds(f) : \E o \in Outcomes(PostCall(f, u)) :
          Goto(f, IF o.res.null THEN "get_members"
                  ELSE IF Empty(o) THEN "update_react" ELSE "insert_react")
    /\ UNCHANGED <<up, db, sessions, client, started, history>>

FindReact(f) ==
    /\ At(f, "find_react")
    /\ \E u \in UserIds(f) : \E o \in Outcomes(PostCall(f, u)) :
          Goto(f, IF o.res.null THEN "get_members"
                  ELSE IF Empty(o) THEN "insert_react" ELSE "update_react")
    /\ UNCHANGED <<up, db, sessions, client, started, history>>

(* The clients a change of room r concerns: those whose user is a member   *)
(* and who are the last to have registered for that user.                  *)
Audience(r) ==
    {c \in Clients : /\ client[c].ear = "on"
                     /\ latest[client[c].user] = c
                     /\ client[c].user \in Members(r, db)}

Post(f) ==
    LET r == work[f].req.room IN
    /\ work[f].pc \in {"insert_chat", "insert_react", "update_react", "delete"}
    /\ \E u \in UserIds(f) : \E o \in Outcomes(PostCall(f, u)) : db' = o.db
    /\ missed' = IF db' = db THEN missed ELSE missed \cup (Audience(r) \X {r})
    /\ Goto(f, "get_members")
    /\ UNCHANGED <<up, sessions, client, started, recycled, latest, cut, heard>>

(* Slip: only members with something unread are selected.                  *)
GetMembersUnread(f) ==
    /\ At(f, "get_members")
    /\ \E o \in Outcomes([name |-> "get_members", room |-> work[f].req.room]) :
          LET unread == {m \in o.res.rows : m.non_read > 0} IN
          IF unread = {} THEN Crash
          ELSE /\ work' = [work EXCEPT ![f].pc = "push",
                                       ![f].rows = {m.owner : m \in unread}]
               /\ UNCHANGED <<up, sessions, client, started, history>>
    /\ UNCHANGED db

(* send_chat_in_room.  Without rows the list is NULL and its length 1, so  *)
(* the loop reads through NULL.                                            *)
GetMembers(f) ==
    /\ At(f, "get_members")
    /\ \E o \in Outcomes([name |-> "get_members", room |-> work[f].req.room]) :
          IF Empty(o) THEN Crash
          ELSE /\ work' = [work EXCEPT ![f].pc = "push",
                                       ![f].rows = {m.owner : m \in o.res.rows}]
               /\ UNCHANGED <<up, sessions, client, started, history>>
    /\ UNCHANGED db

(* The push for user u arrives at the client that holds descriptor g. *)
Delivered(g, r) ==
    /\ client' = [c \in Clients |->
         IF client[c].sse = g /\ client[c].ear # "on"
         THEN [client[c] EXCEPT !.early = TRUE] ELSE client[c]]
    /\ missed' = {m \in missed : ~(m[1] \in Ends(g) /\ client[m[1]].sse = g /\ m[2] = r)}
    /\ heard' = heard \cup
         {<<c, r, IF client[c].sse = g THEN "sse" ELSE "rpc">> : c \in Ends(g)}

(* Slip: a member who is not connected ends the loop. *)
PushStops(f, u) ==
    LET r == work[f].req.room IN
    /\ At(f, "push") /\ u \in work[f].rows
    /\ \E g \in SseFds(u) :
          \/ /\ g = NoFd
             /\ Finish(f)
             /\ UNCHANGED <<client, missed, heard, cut>>
          \/ /\ g \in Fds /\ ~At(g, "closed")
             /\ Delivered(g, r)
             /\ work' = [work EXCEPT ![f].rows = @ \ {u}]
             /\ UNCHANGED cut
    /\ UNCHANGED <<up, db, sessions, started, recycled, latest>>

(* Slip: the loop does not move on to the next member.                     *)
PushAgain(f, u) ==
    LET r == work[f].req.room IN
    /\ At(f, "push") /\ u \in work[f].rows
    /\ \E g \in SseFds(u) :
          \/ g = NoFd /\ UNCHANGED <<client, missed, heard, cut>>
          \/ /\ g \in Fds /\ ~At(g, "closed")
             /\ Delivered(g, r)
             /\ UNCHANGED cut
    /\ UNCHANGED <<up, db, sessions, work, started, recycled, latest>>

(* One turn of the loop: not registered, delivered, or refused because the *)
(* descriptor is closed, which ends the loop for the members after u.      *)
Push(f, u) ==
    LET r == work[f].req.room IN
    /\ At(f, "push") /\ u \in work[f].rows
    /\ \E g \in SseFds(u) :
          \/ /\ g = NoFd
             /\ work' = [work EXCEPT ![f].rows = @ \ {u}]
             /\ UNCHANGED <<client, missed, heard, cut>>
          \/ /\ g \in Fds /\ ~At(g, "closed")
             /\ Delivered(g, r)
             /\ work' = [work EXCEPT ![f].rows = @ \ {u}]
             /\ UNCHANGED cut
          \/ /\ g \in Fds /\ At(g, "closed")
             /\ cut' = cut \cup {r}
             /\ IF work[f].req.type = "SEND_CHAT_REACT" THEN Finish(f) ELSE Reply(f, "ERROR")
             /\ UNCHANGED <<client, missed, heard>>
    /\ UNCHANGED <<up, db, sessions, started, recycled, latest>>

PushDone(f) ==
    /\ At(f, "push") /\ work[f].rows = {}
    /\ Finish(f)
    /\ UNCHANGED <<up, db, sessions, client, started, history>>
-----------------------------------------------------------------------------
(* cmd_create_room and mysql_insert_room: answered OK whatever happens.    *)
InsertRoom(f) ==
    /\ At(f, "insert_room")
    /\ \E o \in Outcomes([name |-> "insert_room"]) :
          /\ db' = o.db
          /\ IF Empty(o) THEN Reply(f, "OK")
             ELSE work' = [work EXCEPT ![f].pc = "insert_members",
                              ![f].req.room = CHOOSE n \in o.res.rows : TRUE]
    /\ UNCHANGED <<up, sessions, client, started, history>>

(* Slip: the members go to the newest room.                                *)
InsertMembersNewest(f) ==
    LET q == work[f].req IN
    /\ At(f, "insert_members")
    /\ \/ q.twice /\ UNCHANGED db
       \/ /\ ~q.twice
          /\ \E o \in Outcomes([name |-> "insert_members",
                   room |-> NextRoomId(db) - 1, users |-> q.users]) : db' = o.db
    /\ Reply(f, "OK")
    /\ UNCHANGED <<up, sessions, client, started, history>>

(* One INSERT for all members: a user named twice breaks its primary key   *)
(* and nobody is added.                                                    *)
InsertMembers(f) ==
    LET q == work[f].req IN
    /\ At(f, "insert_members")
    /\ \/ q.twice /\ UNCHANGED db
       \/ /\ ~q.twice
          /\ \E o \in Outcomes([name |-> "insert_members", room |-> q.room,
                                users |-> q.users]) : db' = o.db
    /\ Reply(f, "OK")
    /\ UNCHANGED <<up, sessions, client, started, history>>

(* cmd_room_list and cmd_update_chat_list: a failed call gives an empty    *)
(* list, the answer is OK.                                                 *)
ListCall(f, u) ==
    IF At(f, "room_list") THEN [name |-> "room_list", user |-> u]
    ELSE [name |-> "chat_list", room |-> work[f].req.room, user |-> u]

List(f) ==
    /\ work[f].pc \in {"room_list", "chat_list"}
    /\ \E u \in UserIds(f) : \E o \in Outcomes(ListCall(f, u)) : db' = o.db
    /\ Reply(f, "OK")
    /\ UNCHANGED <<up, sessions, client, started, history>>

(* cmd_search_user_when_create_room: afterwards it frees user_id, which is *)
(* the id of the session.  Freeing it a second time may end the process.   *)
SearchUser(f) ==
    /\ At(f, "search_user")
    /\ Goto(f, "free")
    /\ UNCHANGED <<up, db, sessions, client, started, history>>

FreeId(f) ==
    /\ At(f, "free")
    /\ \/ /\ sessions' = [sessions EXCEPT ![work[f].ss].id = Freed]
          /\ Reply(f, "OK")
          /\ UNCHANGED <<up, client, started, history>>
       \/ sessions[work[f].ss].id = Freed /\ Crash
    /\ UNCHANGED db

Work(f) ==
    \/ Close(f) \/ SendReply(f) \/ BrokenPipe(f)
    \/ FindUser(f) \/ InsertUser(f)
    \/ MatchUser(f) \/ CountToken(f) \/ WriteToken(f) \/ AddSession(f) \/ Register(f)
    \/ FindReact(f) \/ Post(f) \/ GetMembers(f)
    \/ \E u \in Users : Push(f, u)
    \/ PushDone(f)
    \/ InsertRoom(f) \/ InsertMembers(f) \/ List(f) \/ SearchUser(f) \/ FreeId(f)

Next ==
    \/ \E c \in Clients : Accept(c) \/ Leave(c)
    \/ \E f \in Fds : Receive(f) \/ Work(f)
    \/ Boot

(* A worker that has taken a request goes on with it. *)
Fairness == \A f \in Fds : WF_vars(Work(f))

Spec == Init /\ [][Next]_vars /\ Fairness
-----------------------------------------------------------------------------
Steps == {"closed", "recv", "reply", "find_user", "insert_user", "match_user",
          "count_token", "insert_token", "update_token", "add_session",
          "register", "insert_chat", "find_react", "insert_react",
          "update_react", "delete", "get_members", "push", "insert_room",
          "insert_members", "room_list", "chat_list", "search_user", "free"}
Statuses == {"none", "OK", "NoToken", "ERROR", "Session_Not_Found",
             "Signup_Already_Exist", "Login_Failed"}

TypeOK ==
    /\ up \in BOOLEAN
    /\ db \in Db
    /\ \A i \in DOMAIN sessions :
          sessions[i] \in [id : Users \cup {Freed}, fd : Fds, sse : Fds \cup {NoFd}]
    /\ \A f \in Fds : /\ work[f].pc \in Steps
                      /\ work[f].ss \in 0 .. Len(sessions)
                      /\ work[f].rows \subseteq Users
                      /\ work[f].answer \in Statuses
    /\ client \in [Clients -> [rpc : Fds \cup {NoFd}, sse : Fds \cup {NoFd},
                               user : Users \cup {NoUser}, early : BOOLEAN,
                               ear : {"off", "start", "wait", "on", "dead"}]]

(* A descriptor that was never closed identifies its client. *)
Fresh(f) == f \notin recycled

(* A request is carried out for the user who logged in on its connection,  *)
(* as long as there is one session with this descriptor and no search has  *)
(* freed its id.  The first session is the one that is found: it may be    *)
(* that of an earlier client on the descriptor, or of an earlier login of  *)
(* this one that got a session but an empty token.                         *)
ActsAsOwner ==
    \A c \in Clients : \A f \in Fds \ {NoFd} :
        /\ f = client[c].rpc
        /\ client[c].user # NoUser /\ work[f].ss # 0
        /\ Cardinality({i \in DOMAIN sessions : sessions[i].fd = f}) = 1
        => sessions[work[f].ss].id \in {client[c].user, Freed}

(* A client that takes itself to be logged in has a session: a login that  *)
(* failed half way is answered with an empty token, which it refuses.      *)
LoggedInHasSession ==
    \A c \in Clients : client[c].user # NoUser => FindByFd(client[c].rpc) # 0

(* A push of a room arrives at members of that room only, and only on the  *)
(* connection meant for pushes, unless a descriptor was used again.        *)
PushReachesMember ==
    \A h \in heard :
        LET c == h[1] IN
        /\ h[3] = "sse" /\ Fresh(client[c].sse) => client[c].user \in Members(h[2], db)
        /\ h[3] = "rpc" => ~Fresh(client[c].rpc)

(* A client that has not heard of a change of a room is about to: a worker *)
(* still has its user before it.  Only a loop given up half way, at the    *)
(* descriptor of somebody who left, leaves members uninformed, and a       *)
(* client whose user registered again from another one.                    *)
WillPush(f, u, r) ==
    /\ work[f].req.type \in {"SEND_CHAT", "SEND_CHAT_REACT", "DELETE_CHAT"}
    /\ work[f].req.room = r
    /\ At(f, "get_members") \/ (At(f, "push") /\ u \in work[f].rows)

Informed ==
    \A m \in missed :
        \/ m[2] \in cut \/ latest[client[m[1]].user] # m[1]
        \/ \E f \in Fds : WillPush(f, client[m[1]].user, m[2])

(* Every change of a room is heard of in the end by the clients it         *)
(* concerns, whichever calls fail, unless the server goes down.            *)
EveryoneHears ==
    \A c \in Clients, r \in Rooms : (<<c, r>> \in missed) ~> (<<c, r>> \notin missed)

(* A worker finishes every request, whichever of its calls fail.           *)
RequestsFinish ==
    \A f \in Fds : (work[f].pc # "recv") ~> (work[f].pc \in {"recv", "closed"})

(* Sessions exist for users who have an account only: no overlap of        *)
(* sign-ups and logins lets anybody else in.                               *)
SessionsRegistered ==
    \A i \in DOMAIN sessions :
        sessions[i].id # Freed => db.account[sessions[i].id] # NoAccount

(* When a room creation is answered, the room has exactly the members that *)
(* were asked for, however many are created at once, unless a user was     *)
(* picked twice.  When a call fails it may have none, never others.        *)
RoomFilled ==
    \A f \in Fds :
        LET q == work[f].req IN
        At(f, "reply") /\ q.type = "CREATE_ROOM" /\ ~q.twice
        => \/ q.room \in Rooms /\ Members(q.room, db) = q.users
           \/ DbFaulty /\ (q.room \in Rooms => Members(q.room, db) = {})

(* Before the members are told of a change, the change is in the tables:   *)
(* the message, the chosen reaction, or the deletion, for the user of the  *)
(* session.                                                                *)
Stored(q, u) ==
    CASE q.type = "SEND_CHAT" -> \E x \in RoomChats(q.room, db) : x.user = u
      [] q.type = "SEND_CHAT_REACT" ->
           [room |-> q.room, chat |-> q.chat, type |-> q.react, user |-> u] \in db.react
      [] q.type = "DELETE_CHAT" ->
           IF q.all
           THEN \A x \in RoomChats(q.room, db) : x.id = q.chat => x.deleted
           ELSE [room |-> q.room, chat |-> q.chat, user |-> u] \in db.hidden

ChangeStored ==
    \A f \in Fds : At(f, "get_members")
        => Stored(work[f].req, sessions[work[f].ss].id)

(* Clients that stay, post in their own rooms and search nobody never      *)
(* bring the server down.                                                  *)
StaysUp == up
=============================================================================
