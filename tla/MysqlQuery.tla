----------------------------- MODULE MysqlQuery -----------------------------
(***************************************************************************)
(* The TALKS database as mysql_query.c sees it: the tables of              *)
(* talks_schema.sql, the SQL statements, and the calls the functions of    *)
(* mysql_query.c make.  A call is what one invocation of                   *)
(* mysql_query_execute or mysql_multi_query_execute runs while it holds    *)
(* mysql_mutex: a sequence of statements sharing their arguments.          *)
(*                                                                         *)
(* Constant-level: MysqlConn runs the statements of a call one by one on   *)
(* the shared connection, ChatStore applies a call in one step.            *)
(*                                                                         *)
(* Left out: names, times, message texts and types.  The "limit 5" of the  *)
(* user search and the "limit 50" of the message list are not reached in   *)
(* the instances checked.  create_bind_param binds a string with the NUL   *)
(* behind it; ids are taken to be bound the same way wherever they occur.  *)
(***************************************************************************)
EXTENDS Integers, Sequences, FiniteSets, FiniteSetsExt

CONSTANTS
    Users,      \* user ids
    Rooms,      \* room ids a client may name
    ChatNos,    \* message ids a client may name
    Passwords,  \* passwords a user may choose
    Reacts      \* reactions (emoji)

ASSUME IdsAssumption == Rooms \subseteq Nat /\ ChatNos \subseteq Nat

(***************************************************************************)
(* Tables.  NoMember and NoAccount mark the absence of a row; Null is the  *)
(* value of a user variable no statement has set on this connection.       *)
(***************************************************************************)
NoMember == -1
NoAccount == "none"
Null == -1

ASSUME PasswordsAssumption == NoAccount \notin Passwords

Accounts == Passwords \cup {NoAccount}
ChatRows == [room : Rooms, user : Users, id : Nat, deleted : BOOLEAN]
ReactRows == [room : Rooms, user : Users, chat : Nat, type : Reacts]
HiddenRows == [room : Rooms, user : Users, chat : Nat]

Db == [ account  : [Users -> Accounts],
        token    : SUBSET Users,
        room     : SUBSET Nat,
        lastRead : [Rooms -> [Users -> Nat \cup {NoMember}]],
        chat     : SUBSET ChatRows,
        react    : SUBSET ReactRows,
        hidden   : SUBSET HiddenRows ]

EmptyDb ==
    [ account  |-> [u \in Users |-> NoAccount],
      token    |-> {},
      room     |-> {},
      lastRead |-> [r \in Rooms |-> [u \in Users |-> NoMember]],
      chat     |-> {},
      react    |-> {},
      hidden   |-> {} ]

(* The user variables @max_id and @max_chat_id belong to the connection. *)
Variables == {"max_id", "max_chat_id"}
NoVars == [x \in Variables |-> Null]

Members(r, d) == {u \in Users : d.lastRead[r][u] # NoMember}
ChatIds(r, d) == {c.id : c \in {x \in d.chat : x.room = r}}
NextChatId(r, d) == IF ChatIds(r, d) = {} THEN 0 ELSE Max(ChatIds(r, d)) + 1
LastChatId(r, d) == IF ChatIds(r, d) = {} THEN 0 ELSE Max(ChatIds(r, d))
NextRoomId(d) == IF d.room = {} THEN 0 ELSE Max(d.room) + 1
Reactions(u, r, c, d) ==
    {x \in d.react : x.user = u /\ x.room = r /\ x.chat = c}

(***************************************************************************)
(* Calls.  Single calls go through mysql_query_execute, multi calls        *)
(* through mysql_multi_query_execute.                                      *)
(***************************************************************************)
SingleUser == {"count_token", "update_token", "insert_token", "find_user",
               "search_user", "room_list"}
SinglePwd == {"insert_user", "match_user"}
SingleReact == {"find_react", "insert_react", "update_react"}
SingleDelete == {"delete_all", "delete_self"}
MultiRoomUser == {"insert_chat", "chat_list"}

Calls ==
         [name : SingleUser, user : Users]
    \cup [name : SinglePwd, user : Users, pwd : Passwords]
    \cup [name : {"insert_members"}, room : Rooms, users : SUBSET Users]
    \cup [name : SingleReact, room : Rooms, user : Users, chat : ChatNos,
          type : Reacts]
    \cup [name : SingleDelete, room : Rooms, user : Users, chat : ChatNos]
    \cup [name : MultiRoomUser, room : Rooms, user : Users]
    \cup [name : {"get_members"}, room : Rooms]
    \cup [name : {"insert_room"}]

Multi(c) == c.name \in MultiRoomUser \cup {"get_members", "insert_room"}

(* Slip: the message list is read before the read position is moved. *)
StatementsSwapped(c) ==
    CASE c.name = "insert_room" -> <<"set_max_room", "insert_room", "select_max_id">>
      [] c.name = "insert_chat" -> <<"set_max_chat", "insert_chat">>
      [] c.name = "chat_list"   -> <<"select_chats", "mark_read">>
      [] c.name = "get_members" -> <<"set_last_chat", "select_members">>
      [] OTHER                  -> <<c.name>>

Statements(c) ==
    CASE c.name = "insert_room" -> <<"set_max_room", "insert_room", "select_max_id">>
      [] c.name = "insert_chat" -> <<"set_max_chat", "insert_chat">>
      [] c.name = "chat_list"   -> <<"mark_read", "select_chats">>
      [] c.name = "get_members" -> <<"set_last_chat", "select_members">>
      [] OTHER                  -> <<c.name>>

(***************************************************************************)
(* What a statement does: it sets a user variable, changes a table or      *)
(* returns rows.  A statement that breaks a primary key or stores NULL     *)
(* where the schema forbids it is rejected and changes nothing.            *)
(***************************************************************************)
(* Slip: the new id is the last one, not one more. *)
AssignLast(s, c, d, v) ==
    CASE s = "set_max_chat"  -> [v EXCEPT !["max_id"] = LastChatId(c.room, d)]
      [] s = "set_max_room"  -> [v EXCEPT !["max_id"] = NextRoomId(d)]
      [] s = "set_last_chat" -> [v EXCEPT !["max_chat_id"] = LastChatId(c.room, d)]
      [] OTHER               -> v

Assign(s, c, d, v) ==
    CASE s = "set_max_chat"  -> [v EXCEPT !["max_id"] = NextChatId(c.room, d)]
      [] s = "set_max_room"  -> [v EXCEPT !["max_id"] = NextRoomId(d)]
      [] s = "set_last_chat" -> [v EXCEPT !["max_chat_id"] = LastChatId(c.room, d)]
      [] OTHER               -> v

NewChat(c, v) ==
    [room |-> c.room, user |-> c.user, id |-> v["max_id"], deleted |-> FALSE]
NewReaction(c) ==
    [room |-> c.room, user |-> c.user, chat |-> c.chat, type |-> c.type]
Mark(c) == [room |-> c.room, user |-> c.user, chat |-> c.chat]

(* Slip: user without its primary key. *)
DuplicateAccountIgnored(c, d) == FALSE
DuplicateAccount(c, d) == d.account[c.user] # NoAccount

(* Slip: chat_react without its primary key. *)
DuplicateReactionIgnored(c, d) == FALSE
DuplicateReaction(c, d) == Reactions(c.user, c.room, c.chat, d) # {}

Rejected(s, c, d, v) ==
    \/ s = "insert_user" /\ DuplicateAccount(c, d)
    \/ s = "insert_token" /\ c.user \in d.token
    \/ s = "insert_room" /\ v["max_id"] \in d.room \cup {Null}
    \/ s = "insert_members" /\ \/ c.users = {}
                               \/ c.users \cap Members(c.room, d) # {}
    \/ s = "insert_chat" /\ \/ v["max_id"] = Null
                            \/ \E x \in d.chat : /\ x.room = c.room
                                                 /\ x.user = c.user
                                                 /\ x.id = v["max_id"]
    \/ s = "insert_react" /\ DuplicateReaction(c, d)
    \/ s = "delete_self" /\ Mark(c) \in d.hidden

AddMembers(c, d) ==
    [d EXCEPT !.lastRead[c.room] =
        [u \in Users |-> IF u \in c.users THEN 0 ELSE d.lastRead[c.room][u]]]

(* Slip: the read position is set one past the next message. *)
MarkReadAhead(c, d) ==
    IF d.lastRead[c.room][c.user] = NoMember THEN d
    ELSE [d EXCEPT !.lastRead[c.room][c.user] = NextChatId(c.room, d) + 1]
MarkRead(c, d) ==
    IF d.lastRead[c.room][c.user] = NoMember THEN d
    ELSE [d EXCEPT !.lastRead[c.room][c.user] = NextChatId(c.room, d)]

(* Slip: a message deleted for everyone leaves the table. *)
DeleteAllRows(c, d) ==
    [d EXCEPT !.chat = {x \in @ : ~(x.room = c.room /\ x.id = c.chat)}]
DeleteAll(c, d) ==
    [d EXCEPT !.chat = {IF x.room = c.room /\ x.id = c.chat
                        THEN [x EXCEPT !.deleted = TRUE] ELSE x : x \in @}]

UpdateReaction(c, d) ==
    [d EXCEPT !.react = {IF x \in Reactions(c.user, c.room, c.chat, d)
                         THEN [x EXCEPT !.type = c.type] ELSE x : x \in @}]

Write(s, c, d, v) ==
    CASE s = "insert_user"    -> [d EXCEPT !.account[c.user] = c.pwd]
      [] s = "insert_token"   -> [d EXCEPT !.token = @ \cup {c.user}]
      [] s = "insert_room"    -> [d EXCEPT !.room = @ \cup {v["max_id"]}]
      [] s = "insert_members" -> AddMembers(c, d)
      [] s = "mark_read"      -> MarkRead(c, d)
      [] s = "insert_chat"    -> [d EXCEPT !.chat = @ \cup {NewChat(c, v)}]
      [] s = "insert_react"   -> [d EXCEPT !.react = @ \cup {NewReaction(c)}]
      [] s = "update_react"   -> UpdateReaction(c, d)
      [] s = "delete_all"     -> DeleteAll(c, d)
      [] s = "delete_self"    -> [d EXCEPT !.hidden = @ \cup {Mark(c)}]
      [] OTHER                -> d

(* The members that have not read message id of room r (last_read <= id). *)
Unread(r, id, d) == {u \in Members(r, d) : d.lastRead[r][u] <= id}

RoomItem(r, u, d) ==
    [ room |-> r,
      updated |-> IF ChatIds(r, d) = {} THEN 0
                  ELSE LastChatId(r, d) - d.lastRead[r][u],
      last |-> IF ChatIds(r, d) = {} THEN Null ELSE LastChatId(r, d),
      members |-> Cardinality(Members(r, d)) ]

(* The number the client shows beside a room: none below 1. *)
Badge(item) == IF item.updated > 0 THEN item.updated ELSE 0

ChatItem(x, u, d) ==
    [ id |-> x.id, owner |-> x.user,
      non_read |-> Cardinality(Unread(x.room, x.id, d)),
      deleted |-> \/ x.deleted
                  \/ [room |-> x.room, user |-> u, chat |-> x.id] \in d.hidden,
      emo |-> [t \in Reacts |-> Cardinality({y \in d.react :
                  y.room = x.room /\ y.chat = x.id /\ y.type = t})] ]

MemberItem(r, u, d, v) ==
    [ owner |-> u, last |-> v["max_chat_id"],
      non_read |-> v["max_chat_id"] - d.lastRead[r][u] ]

(* The result of a call.  NULL from the C function is [null |-> TRUE]. *)
NullResult == [null |-> TRUE, rows |-> {}]
Result(rows) == [null |-> FALSE, rows |-> rows]

Select(s, c, d, v) ==
    CASE s \in {"find_user", "match_user", "count_token"} ->
           Result({u \in {c.user} :
               \/ s = "find_user" /\ d.account[u] # NoAccount
               \/ s = "match_user" /\ d.account[u] = c.pwd
               \/ s = "count_token" /\ u \in d.token})
      [] s = "search_user" ->
           Result({u \in Users \ {c.user} : d.account[u] # NoAccount})
      [] s = "find_react" -> Result(Reactions(c.user, c.room, c.chat, d))
      [] s = "room_list" ->
           Result({RoomItem(r, c.user, d) :
                      r \in {q \in Rooms : c.user \in Members(q, d)}})
      [] s = "select_max_id" -> Result({v["max_id"]})
      [] s = "select_members" ->
           Result({MemberItem(c.room, u, d, v) : u \in Members(c.room, d)})
      [] s = "select_chats" ->
           Result({ChatItem(x, c.user, d) : x \in {y \in d.chat : y.room = c.room}})
      [] OTHER -> NullResult
(***************************************************************************)
(* Whole calls, as ChatStore and ChatServer take them: all statements at   *)
(* once.  A new message gets the number of messages the room already has,  *)
(* a new room the number of rooms.                                         *)
(***************************************************************************)
RoomChats(r, d) == {x \in d.chat : x.room = r}

(* The tables after the whole of call c. *)
Effect(c, d) ==
    LET s == Statements(c)[1] IN
    CASE c.name = "insert_chat" ->
           [d EXCEPT !.chat = @ \cup
               {[room |-> c.room, user |-> c.user, deleted |-> FALSE,
                 id |-> Cardinality(RoomChats(c.room, d))]}]
      [] c.name = "insert_room" -> [d EXCEPT !.room = @ \cup {Cardinality(d.room)}]
      [] c.name = "chat_list" -> Write("mark_read", c, d, NoVars)
      [] c.name = "get_members" -> d
      [] OTHER -> IF Rejected(s, c, d, NoVars) THEN d ELSE Write(s, c, d, NoVars)

(* The answer of call c, d being the tables after it. *)
Answer(c, d) ==
    CASE c.name = "insert_room" -> Result({Cardinality(d.room) - 1})
      [] c.name = "chat_list" ->
           Result({ChatItem(x, c.user, d) : x \in RoomChats(c.room, d)})
      [] c.name = "get_members" ->
           LET last == [NoVars EXCEPT !["max_chat_id"] =
                  IF RoomChats(c.room, d) = {} THEN 0
                  ELSE Cardinality(RoomChats(c.room, d)) - 1]
           IN Result({MemberItem(c.room, u, d, last) : u \in Members(c.room, d)})
      [] OTHER -> Select(c.name, c, d, NoVars)
-----------------------------------------------------------------------------
(* Rooms, and the messages of every room, are numbered 0, 1, 2, ... and no *)
(* two rows share a number.                                                *)
IdsDense(d) ==
    /\ d.room = 0 .. NextRoomId(d) - 1
    /\ \A r \in Rooms : ChatIds(r, d) = 0 .. NextChatId(r, d) - 1
    /\ \A x, y \in d.chat : x.room = y.room /\ x.id = y.id => x = y

ReadInRange(d) ==
    \A r \in Rooms, u \in Users : d.lastRead[r][u] <= NextChatId(r, d)

(* e keeps the messages of d and moves no read position backwards. *)
Grows(d, e) ==
    /\ \A x \in d.chat : \E y \in e.chat :
          /\ y.room = x.room /\ y.user = x.user /\ y.id = x.id
          /\ x.deleted => y.deleted
    /\ \A r \in Rooms, u \in Users : e.lastRead[r][u] >= d.lastRead[r][u]
=============================================================================
