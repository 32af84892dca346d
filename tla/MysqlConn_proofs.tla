-------------------------- MODULE MysqlConn_proofs --------------------------
(***************************************************************************)
(* What the database layer guarantees for any number of threads, users and *)
(* rooms.  The first part is about the tables alone: what one statement    *)
(* keeps.  The second is about the threads that run the statements.  The   *)
(* third is what the tables keep of the functions that make several calls  *)
(* or run several statements: the first password, one reaction per user    *)
(* and message, a room id for each creation.  The last is that a call is   *)
(* atomic: MysqlConn implements ChatStore.                                 *)
(***************************************************************************)
EXTENDS MysqlConn, FiniteSetTheorems, FunctionTheorems, TLAPS

-----------------------------------------------------------------------------
(* Calls and statements.                                                   *)

AllNames == SingleUser \cup SinglePwd \cup SingleReact \cup SingleDelete
            \cup MultiRoomUser \cup {"insert_members", "get_members", "insert_room"}

(* Which arguments a call carries, by its name. *)
LEMMA CallFields ==
    ASSUME NEW c \in Calls
    PROVE  /\ c.name \in AllNames
           /\ c.name \in SingleUser => c.user \in Users
           /\ c.name \in SinglePwd => c.user \in Users /\ c.pwd \in Passwords
           /\ c.name = "insert_members" => c.room \in Rooms /\ c.users \in SUBSET Users
           /\ c.name \in SingleReact =>
                 /\ c.room \in Rooms /\ c.user \in Users
                 /\ c.chat \in Nat /\ c.type \in Reacts
           /\ c.name \in SingleDelete =>
                 c.room \in Rooms /\ c.user \in Users /\ c.chat \in Nat
           /\ c.name \in MultiRoomUser => c.room \in Rooms /\ c.user \in Users
           /\ c.name = "get_members" => c.room \in Rooms
  BY IdsAssumption
     DEF Calls, AllNames, SingleUser, SinglePwd, SingleReact, SingleDelete, MultiRoomUser

(* The statements of each call. *)
LEMMA StatementNames ==
    ASSUME NEW c \in Calls, NEW i \in 1 .. Len(Statements(c))
    PROVE  /\ c.name = "insert_room" => 
                \/ i = 1 /\ Statements(c)[i] = "set_max_room"
                \/ i = 2 /\ Statements(c)[i] = "insert_room"
                \/ i = 3 /\ Statements(c)[i] = "select_max_id"
           /\ c.name = "insert_chat" =>
                \/ i = 1 /\ Statements(c)[i] = "set_max_chat"
                \/ i = 2 /\ Statements(c)[i] = "insert_chat"
           /\ c.name = "chat_list" =>
                \/ i = 1 /\ Statements(c)[i] = "mark_read"
                \/ i = 2 /\ Statements(c)[i] = "select_chats"
           /\ c.name = "get_members" =>
                \/ i = 1 /\ Statements(c)[i] = "set_last_chat"
                \/ i = 2 /\ Statements(c)[i] = "select_members"
           /\ c.name \notin {"insert_room", "insert_chat", "chat_list", "get_members"} =>
                i = 1 /\ Statements(c)[i] = c.name
  BY DEF Statements

-----------------------------------------------------------------------------
(* Message numbers.                                                        *)

(* The greatest element of an interval is its upper end. *)
LEMMA MaxInterval ==
    ASSUME NEW n \in Nat
    PROVE  Max(0 .. n) = n
  <1>1. n \in 0 .. n /\ \A y \in 0 .. n : n >= y
    OBVIOUS
  <1>2. \A x \in 0 .. n : (\A y \in 0 .. n : x >= y) => x = n
    BY <1>1
  <1> QED
    BY <1>1, <1>2 DEF Max

(* Room r has the messages 0 .. n - 1. *)
Numbered(r, d, n) == n \in Nat /\ ChatIds(r, d) = 0 .. n - 1

(* A numbered room has a next message number and a last one. *)
LEMMA NumberedNext ==
    ASSUME NEW d, NEW r, NEW n \in Nat, Numbered(r, d, n)
    PROVE  /\ NextChatId(r, d) = n
           /\ LastChatId(r, d) \in Nat
  <1>1. CASE n = 0
    BY <1>1 DEF Numbered, NextChatId, LastChatId
  <1>2. CASE n > 0
    <2>1. n - 1 \in Nat /\ Max(0 .. n - 1) = n - 1
      BY <1>2, MaxInterval
    <2>2. 0 .. n - 1 # {}
      BY <1>2
    <2> QED
      BY <2>1, <2>2 DEF Numbered, NextChatId, LastChatId
  <1> QED
    BY <1>1, <1>2

-----------------------------------------------------------------------------
(* What one statement keeps.                                               *)

(* The statement s of call c may run on the tables d. *)
MayRun(s, c, d, v) ==
    /\ d \in Db /\ c \in Calls /\ v \in Vars
    /\ \E i \in 1 .. Len(Statements(c)) : s = Statements(c)[i]
    /\ ~Rejected(s, c, d, v)

Writers == {"insert_user", "insert_token", "insert_room", "insert_members",
            "mark_read", "insert_chat", "insert_react", "update_react",
            "delete_all", "delete_self"}

(* The arguments a writing statement finds. *)
LEMMA WriterFields ==
    ASSUME NEW s, NEW c, NEW d, NEW v, MayRun(s, c, d, v)
    PROVE  /\ s \in {"insert_user", "insert_token", "mark_read", "insert_chat",
                     "insert_react", "update_react", "delete_all", "delete_self"}
                 => c.user \in Users
           /\ s \in {"insert_members", "mark_read", "insert_chat", "insert_react",
                     "update_react", "delete_all", "delete_self"} => c.room \in Rooms
           /\ s = "insert_user" => c.pwd \in Passwords
           /\ s = "insert_members" => c.users \in SUBSET Users
           /\ s \in {"insert_react", "update_react", "delete_all", "delete_self"}
                 => c.chat \in Nat
           /\ s \in {"insert_react", "update_react"} => c.type \in Reacts
           /\ s = "insert_chat" => c.name = "insert_chat" /\ v["max_id"] \in Nat
           /\ s = "insert_room" => c.name = "insert_room" /\ v["max_id"] \in Nat
  <1>1. PICK i \in 1 .. Len(Statements(c)) : s = Statements(c)[i]
    BY DEF MayRun
  <1>2. c \in Calls /\ v \in Vars /\ ~Rejected(s, c, d, v)
    BY DEF MayRun
  <1>3. /\ c.name \in AllNames
        /\ c.name = "insert_room" => s \in {"set_max_room", "insert_room", "select_max_id"}
        /\ c.name = "insert_chat" => s \in {"set_max_chat", "insert_chat"}
        /\ c.name = "chat_list" => s \in {"mark_read", "select_chats"}
        /\ c.name = "get_members" => s \in {"set_last_chat", "select_members"}
        /\ c.name \notin {"insert_room", "insert_chat", "chat_list", "get_members"} => s = c.name
    BY <1>1, <1>2, StatementNames, CallFields
  <1>4. v["max_id"] \in Nat \cup {Null}
    BY <1>2 DEF Vars, Variables
  <1>5. s \in {"insert_chat", "insert_room"} => v["max_id"] # Null
    BY <1>2 DEF Rejected
  <1> QED
    BY <1>2, <1>3, <1>4, <1>5, CallFields
       DEF AllNames, SingleUser, SinglePwd, SingleReact, SingleDelete, MultiRoomUser

(* The tables keep their types. *)
LEMMA WriteType ==
    ASSUME NEW s, NEW c, NEW d, NEW v, MayRun(s, c, d, v),
           \A r \in Rooms : NextChatId(r, d) \in Nat
    PROVE  Write(s, c, d, v) \in Db
  <1> DEFINE e == Write(s, c, d, v)
  <1>0. d \in Db
    BY DEF MayRun
  <1> DEFINE Reads == [Rooms -> [Users -> Nat \cup {NoMember}]]
  <1>r. \A g \in Reads : [d EXCEPT !.lastRead = g] \in Db
    BY <1>0 DEF Db
  <1>p. d.lastRead \in Reads /\ d = [d EXCEPT !.lastRead = d.lastRead]
    BY <1>0 DEF Db
  <1>1. CASE s = "insert_user"
    BY <1>0, <1>1, WriterFields DEF Write, Db, Accounts
  <1>2. CASE s = "insert_token"
    BY <1>0, <1>2, WriterFields DEF Write, Db
  <1>3. CASE s = "insert_room"
    BY <1>0, <1>3, WriterFields DEF Write, Db
  <1>4. CASE s = "insert_members"
    <2>1. e = AddMembers(c, d)
      BY <1>4 DEF Write
    <2> DEFINE h == [u \in Users |-> IF u \in c.users THEN 0 ELSE d.lastRead[c.room][u]]
               g == [d.lastRead EXCEPT ![c.room] = h]
    <2>2. c.room \in Rooms
      BY <1>4, WriterFields
    <2>3. h \in [Users -> Nat \cup {NoMember}]
      BY <1>p, <2>2
    <2>4. e = [d EXCEPT !.lastRead = g]
      BY <1>0, <2>1 DEF AddMembers, Db
    <2> HIDE DEF h, e
    <2>5. g \in Reads
      BY <1>p, <2>2, <2>3
    <2> HIDE DEF g, Reads
    <2> QED
      BY <1>r, <2>4, <2>5 DEF e
  <1>5. CASE s = "mark_read"
    <2>1. e = MarkRead(c, d)
      BY <1>5 DEF Write
    <2> DEFINE n == NextChatId(c.room, d)
               g == [d.lastRead EXCEPT ![c.room][c.user] = n]
    <2>2. c.room \in Rooms /\ c.user \in Users /\ n \in Nat
      BY <1>5, WriterFields
    <2>3. e \in {d, [d EXCEPT !.lastRead = g]}
      BY <1>0, <2>1 DEF MarkRead, Db
    <2> HIDE DEF n, e
    <2>4. g \in Reads
      BY <1>p, <2>2
    <2> HIDE DEF g, Reads
    <2> QED
      BY <1>0, <1>r, <2>3, <2>4 DEF e
  <1>6. CASE s = "insert_chat"
    <2>1. NewChat(c, v) \in ChatRows
      BY <1>6, WriterFields DEF NewChat, ChatRows
    <2>2. e = [d EXCEPT !.chat = d.chat \cup {NewChat(c, v)}]
      BY <1>6 DEF Write
    <2> QED
      BY <1>0, <2>1, <2>2 DEF Db
  <1>7. CASE s = "insert_react"
    BY <1>0, <1>7, WriterFields DEF Write, NewReaction, Db, ReactRows
  <1>8. CASE s = "update_react"
    <2>1. e = UpdateReaction(c, d)
      BY <1>8 DEF Write
    <2>2. \A x \in ReactRows : [x EXCEPT !.type = c.type] \in ReactRows
      BY <1>8, WriterFields DEF ReactRows
    <2>3. {IF x \in Reactions(c.user, c.room, c.chat, d)
              THEN [x EXCEPT !.type = c.type] ELSE x : x \in d.react} \in SUBSET ReactRows
      BY <1>0, <2>2 DEF Db
    <2> QED
      BY <1>0, <2>1, <2>3 DEF UpdateReaction, Db
  <1>9. CASE s = "delete_all"
    <2>1. e = DeleteAll(c, d)
      BY <1>9 DEF Write
    <2>2. \A x \in ChatRows : [x EXCEPT !.deleted = TRUE] \in ChatRows
      BY DEF ChatRows
    <2> DEFINE g(x) == IF x.room = c.room /\ x.id = c.chat THEN [x EXCEPT !.deleted = TRUE] ELSE x
    <2>3. e = [d EXCEPT !.chat = {g(x) : x \in d.chat}]
      BY <1>0, <2>1 DEF DeleteAll, Db
    <2>4. \A x \in d.chat : g(x) \in ChatRows
      BY <1>0, <2>2 DEF Db
    <2> HIDE DEF g, e
    <2>5. {g(x) : x \in d.chat} \in SUBSET ChatRows
      BY <2>4
    <2>6. \A x \in SUBSET ChatRows : [d EXCEPT !.chat = x] \in Db
      BY <1>0 DEF Db
    <2>7. e \in Db
      BY <2>3, <2>5, <2>6
    <2> QED
      BY <2>7 DEF e
  <1>10. CASE s = "delete_self"
    <2>1. e = [d EXCEPT !.hidden = @ \cup {Mark(c)}]
      BY <1>10 DEF Write
    <2>2. Mark(c) \in HiddenRows
      BY <1>10, WriterFields DEF Mark, HiddenRows
    <2>3. \A h \in SUBSET HiddenRows : [d EXCEPT !.hidden = h] \in Db
      BY <1>0 DEF Db
    <2>4. d.hidden \cup {Mark(c)} \in SUBSET HiddenRows
      BY <1>0, <2>2 DEF Db
    <2> QED
      BY <2>1, <2>3, <2>4
  <1>11. CASE s \notin Writers
    BY <1>0, <1>11 DEF Write, Writers
  <1> QED
    BY <1>1, <1>2, <1>3, <1>4, <1>5, <1>6, <1>7, <1>8, <1>9, <1>10, <1>11 DEF Writers

-----------------------------------------------------------------------------
(* The order of messages.                                                  *)

(* Inductive form of IdsDense and ReadInRange: the number of messages of a *)
(* room is named instead of read off the largest one.                      *)
Ordered(d) ==
    /\ \E n \in Nat : d.room = 0 .. n - 1
    /\ \A r \in Rooms : \E n \in Nat : Numbered(r, d, n)
    /\ \A x, y \in d.chat : x.room = y.room /\ x.id = y.id => x = y
    /\ ReadInRange(d)

(* Rooms numbered without gaps: the next room is a new one. *)
LEMMA RoomsNext ==
    ASSUME NEW d, NEW n \in Nat, d.room = 0 .. n - 1
    PROVE  NextRoomId(d) = n
  <1>1. CASE n = 0
    BY <1>1 DEF NextRoomId
  <1>2. CASE n > 0
    <2>1. n - 1 \in Nat /\ Max(0 .. n - 1) = n - 1 /\ 0 .. n - 1 # {}
      BY <1>2, MaxInterval
    <2> QED
      BY <2>1 DEF NextRoomId
  <1> QED
    BY <1>1, <1>2

(* What Ordered says of messages is what ChatIdsDense states. *)
LEMMA OrderedDense ==
    ASSUME NEW d, Ordered(d)
    PROVE  /\ IdsDense(d)
           /\ NextRoomId(d) \in Nat
           /\ \A r \in Rooms : NextChatId(r, d) \in Nat /\ LastChatId(r, d) \in Nat
  <1>1. NextRoomId(d) \in Nat /\ d.room = 0 .. NextRoomId(d) - 1
    BY RoomsNext DEF Ordered
  <1>2. ASSUME NEW r \in Rooms
        PROVE  /\ NextChatId(r, d) \in Nat /\ LastChatId(r, d) \in Nat
               /\ ChatIds(r, d) = 0 .. NextChatId(r, d) - 1
    <2>1. PICK n \in Nat : Numbered(r, d, n)
      BY DEF Ordered
    <2>2. NextChatId(r, d) = n /\ LastChatId(r, d) \in Nat
      BY <2>1, NumberedNext
    <2> QED
      BY <2>1, <2>2 DEF Numbered
  <1> QED
    BY <1>1, <1>2 DEF Ordered, IdsDense

(* Tables with the same messages and read positions. *)
LEMMA SameMessages ==
    ASSUME NEW d \in Db, NEW e, e.chat = d.chat, e.lastRead = d.lastRead, Ordered(d),
           \E n \in Nat : e.room = 0 .. n - 1
    PROVE  Ordered(e) /\ Grows(d, e)
  <1>1. \A r : ChatIds(r, e) = ChatIds(r, d) /\ NextChatId(r, e) = NextChatId(r, d)
    BY DEF ChatIds, NextChatId
  <1>2. \A r \in Rooms, u \in Users : d.lastRead[r][u] \in Int
    BY DEF Db, NoMember
  <1> QED
    BY <1>1, <1>2 DEF Ordered, Numbered, ReadInRange, Grows

(* Tables with the same messages, where some have read further. *)
LEMMA ReadFurther ==
    ASSUME NEW d \in Db, NEW e, e.chat = d.chat, e.room = d.room, Ordered(d),
           \A r \in Rooms, u \in Users :
              /\ e.lastRead[r][u] >= d.lastRead[r][u]
              /\ e.lastRead[r][u] <= NextChatId(r, d)
    PROVE  Ordered(e) /\ Grows(d, e)
  <1>1. \A r : ChatIds(r, e) = ChatIds(r, d) /\ NextChatId(r, e) = NextChatId(r, d)
    BY DEF ChatIds, NextChatId
  <1> QED
    BY <1>1 DEF Ordered, Numbered, ReadInRange, Grows

(* New rows of room_member read nothing yet. *)
LEMMA AddMembersOrdered ==
    ASSUME NEW c, NEW d, NEW v, MayRun("insert_members", c, d, v), Ordered(d)
    PROVE  LET e == AddMembers(c, d) IN Ordered(e) /\ Grows(d, e)
  <1> DEFINE e == AddMembers(c, d)
  <1>1. d \in Db /\ c.room \in Rooms /\ c.users \in SUBSET Users
    BY WriterFields DEF MayRun
  <1>2. \A u \in c.users : d.lastRead[c.room][u] = NoMember
    BY <1>1 DEF MayRun, Rejected, Members
  <1>3. \A r \in Rooms : NextChatId(r, d) \in Nat
    BY OrderedDense
  <1>4. \A r \in Rooms, u \in Users : d.lastRead[r][u] \in Nat \cup {NoMember}
    BY <1>1 DEF Db
  <1>5. \A r \in Rooms, u \in Users :
          e.lastRead[r][u] = IF r = c.room /\ u \in c.users THEN 0 ELSE d.lastRead[r][u]
    BY <1>1 DEF AddMembers, Db
  <1>6. \A r \in Rooms, u \in Users :
          /\ e.lastRead[r][u] >= d.lastRead[r][u]
          /\ e.lastRead[r][u] <= NextChatId(r, d)
    BY <1>2, <1>3, <1>4, <1>5 DEF Ordered, ReadInRange, NoMember
  <1>7. e.chat = d.chat /\ e.room = d.room
    BY <1>1 DEF AddMembers, Db
  <1> HIDE DEF e
  <1> QED
    BY <1>1, <1>6, <1>7, ReadFurther DEF e

(* get_chat_list moves last_read to the end of the room, never back. *)
LEMMA MarkReadOrdered ==
    ASSUME NEW c, NEW d, NEW v, MayRun("mark_read", c, d, v), Ordered(d)
    PROVE  LET e == MarkRead(c, d) IN Ordered(e) /\ Grows(d, e)
  <1> DEFINE e == MarkRead(c, d)
  <1>1. d \in Db /\ c.room \in Rooms /\ c.user \in Users
    BY WriterFields DEF MayRun
  <1>2. \A r \in Rooms : NextChatId(r, d) \in Nat
    BY OrderedDense
  <1>3. \A r \in Rooms, u \in Users : d.lastRead[r][u] \in Nat \cup {NoMember}
    BY <1>1 DEF Db
  <1>4. \A r \in Rooms, u \in Users :
          \/ e.lastRead[r][u] = d.lastRead[r][u]
          \/ e.lastRead[r][u] = NextChatId(r, d)
    BY <1>1 DEF MarkRead, Db
  <1>5. \A r \in Rooms, u \in Users :
          /\ e.lastRead[r][u] >= d.lastRead[r][u]
          /\ e.lastRead[r][u] <= NextChatId(r, d)
    BY <1>2, <1>3, <1>4 DEF Ordered, ReadInRange, NoMember
  <1>6. e.chat = d.chat /\ e.room = d.room
    BY <1>1 DEF MarkRead, Db
  <1> HIDE DEF e
  <1> QED
    BY <1>1, <1>5, <1>6, ReadFurther DEF e

(* The message that is inserted takes the next number of its room. *)
LEMMA InsertChatOrdered ==
    ASSUME NEW c, NEW d, NEW v, MayRun("insert_chat", c, d, v), Ordered(d),
           v["max_id"] = NextChatId(c.room, d)
    PROVE  LET e == [d EXCEPT !.chat = @ \cup {NewChat(c, v)}]
           IN  Ordered(e) /\ Grows(d, e)
  <1> DEFINE e == [d EXCEPT !.chat = @ \cup {NewChat(c, v)}]
             x0 == NewChat(c, v)
  <1>1. d \in Db /\ c.room \in Rooms /\ c.user \in Users
    BY WriterFields DEF MayRun
  <1>2. e.chat = d.chat \cup {x0} /\ e.lastRead = d.lastRead /\ e.room = d.room
    BY <1>1 DEF Db
  <1>3. PICK n \in Nat : Numbered(c.room, d, n)
    BY <1>1 DEF Ordered
  <1>4. x0.room = c.room /\ x0.id = n
    BY <1>3, NumberedNext DEF NewChat
  <1>5. ChatIds(c.room, e) = 0 .. n
    <2>1. ChatIds(c.room, e) = ChatIds(c.room, d) \cup {n}
      BY <1>2, <1>4 DEF ChatIds
    <2>2. 0 .. n = (0 .. n - 1) \cup {n}
      OBVIOUS
    <2> HIDE DEF e
    <2> QED
      BY <2>1, <2>2, <1>3 DEF Numbered
  <1>6. \A r \in Rooms : r # c.room => ChatIds(r, e) = ChatIds(r, d)
    BY <1>2, <1>4 DEF ChatIds
  <1>7. Numbered(c.room, e, n + 1)
    BY <1>5 DEF Numbered
  <1>8. \A r \in Rooms : \E m \in Nat : Numbered(r, e, m)
    <2> TAKE r \in Rooms
    <2>1. CASE r = c.room
      BY <1>7, <2>1
    <2>2. CASE r # c.room
      BY <1>6, <2>2 DEF Ordered, Numbered
    <2> QED
      BY <2>1, <2>2
  <1>9. \A x, y \in e.chat : x.room = y.room /\ x.id = y.id => x = y
    <2>1. \A x \in d.chat : x.room = c.room => x.id # n
      BY <1>3 DEF Numbered, ChatIds
    <2> QED
      BY <1>2, <1>4, <2>1 DEF Ordered
  <1>10. ReadInRange(e)
    <2>1. \A r \in Rooms : NextChatId(r, d) \in Nat
      BY OrderedDense
    <2>2. NextChatId(c.room, e) = n + 1 /\ NextChatId(c.room, d) = n
      BY <1>3, <1>7, NumberedNext
    <2>3. \A r \in Rooms : r # c.room => NextChatId(r, e) = NextChatId(r, d)
      BY <1>6 DEF NextChatId
    <2>4. \A r \in Rooms, u \in Users : d.lastRead[r][u] \in Int
      BY <1>1 DEF Db, NoMember
    <2>5. \A r \in Rooms : /\ NextChatId(r, d) \in Nat
                          /\ NextChatId(r, e) \in Nat
                          /\ NextChatId(r, e) >= NextChatId(r, d)
      <3> HIDE DEF e
      <3> QED
        BY <2>1, <2>2, <2>3
    <2> HIDE DEF e
    <2> QED
      BY <1>2, <2>4, <2>5 DEF Ordered, ReadInRange
  <1>11. Grows(d, e)
    <2>1. \A r \in Rooms, u \in Users : d.lastRead[r][u] \in Int
      BY <1>1 DEF Db, NoMember
    <2> QED
      BY <1>2, <2>1 DEF Grows
  <1> QED
    BY <1>2, <1>8, <1>9, <1>10, <1>11 DEF Ordered

(* A deletion for everybody changes a row of chat, not its key. *)
LEMMA DeleteAllOrdered ==
    ASSUME NEW c, NEW d \in Db, Ordered(d)
    PROVE  LET e == DeleteAll(c, d) IN Ordered(e) /\ Grows(d, e)
  <1> DEFINE e == DeleteAll(c, d)
             f(x) == IF x.room = c.room /\ x.id = c.chat
                     THEN [x EXCEPT !.deleted = TRUE] ELSE x
  <1>1. e.chat = {f(x) : x \in d.chat} /\ e.lastRead = d.lastRead /\ e.room = d.room
    BY DEF DeleteAll, Db
  <1>2. \A x \in d.chat : /\ f(x).room = x.room /\ f(x).user = x.user
                          /\ f(x).id = x.id /\ (x.deleted => f(x).deleted)
    BY DEF Db, ChatRows
  <1>3. \A r : ChatIds(r, e) = ChatIds(r, d)
    <2> HIDE DEF f
    <2> QED
      BY <1>1, <1>2 DEF ChatIds
  <1>4. \A r : NextChatId(r, e) = NextChatId(r, d)
    BY <1>3 DEF NextChatId
  <1>5. \A x, y \in e.chat : x.room = y.room /\ x.id = y.id => x = y
    <2> HIDE DEF f
    <2>1. \A x, y \in d.chat : f(x).room = f(y).room /\ f(x).id = f(y).id => x = y
      BY <1>2 DEF Ordered
    <2> QED
      BY <1>1, <2>1
  <1>6. \A r \in Rooms, u \in Users : d.lastRead[r][u] \in Int
    BY DEF Db, NoMember
  <1>7. Grows(d, e)
    <2> HIDE DEF f
    <2> QED
      BY <1>1, <1>2, <1>6 DEF Grows
  <1> HIDE DEF e
  <1> QED
    BY <1>1, <1>3, <1>4, <1>5, <1>7 DEF Ordered, Numbered, ReadInRange, e

(* Every statement keeps the order of messages and only adds to history,   *)
(* provided an insertion runs with the number that is next at that moment. *)
LEMMA WriteOrdered ==
    ASSUME NEW s, NEW c, NEW d, NEW v, MayRun(s, c, d, v), Ordered(d),
           s = "insert_chat" => v["max_id"] = NextChatId(c.room, d),
           s = "insert_room" => v["max_id"] = NextRoomId(d)
    PROVE  LET e == Write(s, c, d, v) IN Ordered(e) /\ Grows(d, e)
  <1> DEFINE e == Write(s, c, d, v)
  <1>0. d \in Db
    BY DEF MayRun
  <1>1. CASE s = "insert_members"
    BY <1>1, AddMembersOrdered DEF Write
  <1>2. CASE s = "mark_read"
    BY <1>2, MarkReadOrdered DEF Write
  <1>3. CASE s = "insert_chat"
    BY <1>3, InsertChatOrdered DEF Write
  <1>4. CASE s = "delete_all"
    BY <1>0, <1>4, DeleteAllOrdered DEF Write
  <1>5. CASE s = "insert_room"
    <2>1. e.chat = d.chat /\ e.lastRead = d.lastRead /\ e.room = d.room \cup {NextRoomId(d)}
      BY <1>0, <1>5 DEF Write, Db
    <2>2. PICK n \in Nat : d.room = 0 .. n - 1
      BY DEF Ordered
    <2>3. e.room = 0 .. (n + 1) - 1
      <3>1. 0 .. (n + 1) - 1 = (0 .. n - 1) \cup {n}
        OBVIOUS
      <3> HIDE DEF e
      <3> QED
        BY <2>1, <2>2, <3>1, RoomsNext
    <2> HIDE DEF e
    <2> QED
      BY <1>0, <2>1, <2>3, SameMessages DEF e
  <1>6. CASE s \notin {"insert_members", "mark_read", "insert_chat", "delete_all",
                      "insert_room"}
    <2>1. e.chat = d.chat /\ e.lastRead = d.lastRead /\ e.room = d.room
      BY <1>0, <1>6 DEF Write, UpdateReaction, Db
    <2>2. \E n \in Nat : e.room = 0 .. n - 1
      <3> HIDE DEF e
      <3> QED
        BY <2>1 DEF Ordered
    <2> HIDE DEF e
    <2> QED
      BY <1>0, <2>1, <2>2, SameMessages DEF e
  <1> QED
    BY <1>1, <1>2, <1>3, <1>4, <1>5, <1>6

-----------------------------------------------------------------------------
(* The threads.                                                            *)

(* A thread inside a call has a call and is at one of its statements; conn *)
(* can be NULL only before the first.                                      *)
ThreadOK(t) ==
    /\ pc[t] # "idle" => call[t] \in Calls
    /\ pc[t] \in {"idle", "wait", "begin", "done"} => k[t] = 1
    /\ pc[t] = "exec" => k[t] \in 1 .. Len(Statements(call[t]))
    /\ pc[t] = "exec" /\ conn = "null" => k[t] = 1
CallOK == \A t \in Threads : ThreadOK(t)

(* The inductive invariant.  That messages stay in order (Ordered) needs   *)
(* the number in @max_id to be right when the insertion runs (MaxIdIsMine),*)
(* which needs that no other thread is between its statements, which is    *)
(* what holding the mutex means (OwnerInside).                             *)
IInv == TypeOK /\ CallOK /\ OwnerInside /\ MaxIdIsMine /\ Ordered(db)

(* Every call has one to three statements. *)
LEMMA StatementsLen ==
    ASSUME NEW c
    PROVE  Len(Statements(c)) \in 1 .. 3
  BY DEF Statements

(* The tables that talks_schema.sql creates satisfy Ordered. *)
LEMMA EmptyOrdered == EmptyDb \in Db /\ Ordered(EmptyDb)
  <1>1. EmptyDb \in Db
    BY DEF EmptyDb, Db, Accounts
  <1>2. EmptyDb.room = 0 .. 0 - 1
    BY DEF EmptyDb
  <1>3. \A r : ChatIds(r, EmptyDb) = {} /\ NextChatId(r, EmptyDb) = 0
    BY DEF EmptyDb, ChatIds, NextChatId
  <1>4. \A r \in Rooms : Numbered(r, EmptyDb, 0)
    BY <1>3 DEF Numbered
  <1>5. ReadInRange(EmptyDb)
    <2>1. \A r \in Rooms, u \in Users : EmptyDb.lastRead[r][u] = -1
      BY DEF EmptyDb, NoMember
    <2> QED
      BY <1>3, <2>1 DEF ReadInRange
  <1> QED
    BY <1>1, <1>2, <1>4, <1>5 DEF Ordered, EmptyDb

(* A new connection has no user variable set. *)
LEMMA NoVarsType == NoVars \in Vars
  BY DEF NoVars, Vars

(* Assigning a user variable keeps the variables' type. *)
LEMMA AssignType ==
    ASSUME NEW c \in Calls, NEW i \in 1 .. Len(Statements(c)), NEW d, NEW v \in Vars,
           Ordered(d)
    PROVE  Assign(Statements(c)[i], c, d, v) \in Vars
  <1> DEFINE s == Statements(c)[i]
  <1>1. s \in {"set_max_chat", "set_last_chat"} => c.room \in Rooms
    BY StatementNames, CallFields
       DEF AllNames, SingleUser, SinglePwd, SingleReact, SingleDelete, MultiRoomUser
  <1>2. /\ NextRoomId(d) \in Nat
        /\ \A r \in Rooms : NextChatId(r, d) \in Nat /\ LastChatId(r, d) \in Nat
    BY OrderedDense
  <1> HIDE DEF s
  <1>3. Assign(s, c, d, v) \in Vars
    BY <1>1, <1>2 DEF Assign, Vars, Variables
  <1> QED
    BY <1>3 DEF s

(* The statement a thread is about to run, if it is not rejected, meets    *)
(* the conditions of WriteType and WriteOrdered.                           *)
LEMMA ExecuteMayRun ==
    ASSUME IInv, NEW t \in Threads, pc[t] = "exec", conn = "up",
           ~Rejected(Statement(t), call[t], db, var)
    PROVE  /\ MayRun(Statement(t), call[t], db, var)
           /\ Statement(t) = "insert_chat" => var["max_id"] = NextChatId(call[t].room, db)
           /\ Statement(t) = "insert_room" => var["max_id"] = NextRoomId(db)
  <1>1. call[t] \in Calls /\ k[t] \in 1 .. Len(Statements(call[t]))
    BY DEF IInv, CallOK, ThreadOK
  <1>2. MayRun(Statement(t), call[t], db, var)
    BY <1>1 DEF IInv, TypeOK, MayRun, Statement
  <1>3. Statement(t) = "insert_chat" => call[t].name = "insert_chat" /\ k[t] = 2
    BY <1>1, <1>2, WriterFields, StatementNames DEF Statement
  <1>4. Statement(t) = "insert_room" => call[t].name = "insert_room" /\ k[t] = 2
    BY <1>1, <1>2, WriterFields, StatementNames DEF Statement
  <1> QED
    BY <1>2, <1>3, <1>4 DEF IInv, MaxIdIsMine

(* So the tables after the statement are well typed and ordered. *)
LEMMA ExecuteTables ==
    ASSUME IInv, NEW t \in Threads, pc[t] = "exec", conn = "up",
           ~Rejected(Statement(t), call[t], db, var),
           db' = Write(Statement(t), call[t], db, var)
    PROVE  db' \in Db /\ Ordered(db') /\ Grows(db, db')
  <1>1. \A r \in Rooms : NextChatId(r, db) \in Nat
    BY OrderedDense DEF IInv
  <1> QED
    BY <1>1, ExecuteMayRun, WriteType, WriteOrdered DEF IInv

(* An answer without rows is an answer. *)
LEMMA SelectNull ==
    ASSUME NEW s, NEW c, NEW d, NEW v
    PROVE  Select(s, c, d, v).null \in BOOLEAN
  BY DEF Select, Result, NullResult

(* The state after init_mysql satisfies the invariant. *)
THEOREM InitInv == Init => IInv
  <1> SUFFICES ASSUME Init PROVE IInv
    OBVIOUS
  <1>1. TypeOK
    <2>1. DOMAIN result = Threads /\ \A t \in Threads : result[t].null \in BOOLEAN
      BY DEF Init, NullResult
    <2>2. pc \in [Threads -> CallState] /\ call \in [Threads -> Calls \cup {NoCall}]
      BY DEF Init, CallState
    <2>3. k \in [Threads -> Nat \ {0}]
      BY DEF Init
    <2> QED
      BY <2>1, <2>2, <2>3, EmptyOrdered, NoVarsType DEF Init, TypeOK
  <1>2. OwnerInside
    BY NoThreadAssumption DEF Init, OwnerInside, Holding
  <1> QED
    BY <1>1, <1>2, EmptyOrdered DEF Init, IInv, CallOK, ThreadOK, MaxIdIsMine

-----------------------------------------------------------------------------
(* Every action keeps the invariant.                                       *)

(* A request thread enters a query function. *)
LEMMA CallKeeps ==
    ASSUME IInv, NEW t \in Threads, NEW c \in IssuedCalls, Call(t, c)
    PROVE  IInv'
  <1> USE DEF Call, IssuedCalls
  <1>1. TypeOK'
    BY DEF IInv, TypeOK, CallState
  <1>2. CallOK'
    BY DEF IInv, TypeOK, CallOK, ThreadOK
  <1>3. OwnerInside'
    BY NoThreadAssumption DEF IInv, TypeOK, OwnerInside, Holding
  <1>4. MaxIdIsMine'
    BY DEF IInv, TypeOK, MaxIdIsMine, OwnerInside, Holding, CallOK, ThreadOK
  <1>5. Ordered(db')
    BY DEF IInv
  <1> QED
    BY <1>1, <1>2, <1>3, <1>4, <1>5 DEF IInv

(* pthread_mutex_lock and the reconnection after it. *)
LEMMA LockKeeps ==
    ASSUME IInv, NEW t \in Threads, Lock(t)
    PROVE  IInv'
  <1> USE DEF Lock
  <1>1. TypeOK'
    BY StatementsLen DEF IInv, TypeOK, CallState
  <1>2. CallOK'
    BY StatementsLen DEF IInv, TypeOK, CallOK, ThreadOK
  <1>3. OwnerInside'
    BY NoThreadAssumption DEF IInv, TypeOK, OwnerInside, Holding
  <1>4. MaxIdIsMine'
    BY DEF IInv, TypeOK, MaxIdIsMine, OwnerInside, Holding, CallOK, ThreadOK
  <1>5. Ordered(db')
    BY DEF IInv
  <1> QED
    BY <1>1, <1>2, <1>3, <1>4, <1>5 DEF IInv

(* mysql_ping and mysql_stmt_prepare of a single statement. *)
LEMMA CheckSingleKeeps ==
    ASSUME IInv, NEW t \in Threads, CheckSingle(t)
    PROVE  IInv'
  <1> USE DEF CheckSingle, Reconnect, Fail, NullResult
  <1>1. TypeOK'
    <2>1. var' \in Vars /\ conn' \in {"up", "down", "null"}
      BY NoVarsType DEF IInv, TypeOK
    <2>2. DOMAIN result' = Threads /\ \A u \in Threads : result'[u].null \in BOOLEAN
      <3>1. result' = result \/ result' = [result EXCEPT ![t] = NullResult]
        OBVIOUS
      <3>2. DOMAIN result = Threads /\ \A u \in Threads : result[u].null \in BOOLEAN
        BY DEF IInv, TypeOK
      <3> HIDE DEF CheckSingle, Reconnect, Fail
      <3>3. CASE result' = result
        BY <3>2, <3>3
      <3>4. CASE result' = [result EXCEPT ![t] = NullResult]
        <4>1. NullResult.null \in BOOLEAN
          OBVIOUS
        <4> HIDE DEF NullResult
        <4> QED
          BY <3>2, <3>4, <4>1
      <3> QED
        BY <3>1, <3>3, <3>4
    <2>3. pc' \in [Threads -> CallState]
      BY DEF IInv, TypeOK, CallState
    <2> QED
      BY <2>1, <2>2, <2>3 DEF IInv, TypeOK
  <1>2. CallOK'
    <2>1. \A u \in Threads : u # t => pc'[u] = pc[u] /\ pc[u] # "exec"
      BY DEF IInv, TypeOK, OwnerInside, Holding
    <2>2. 1 \in 1 .. Len(Statements(call[t]))
      BY StatementsLen
    <2>3. ThreadOK(t)'
      BY <2>2 DEF IInv, TypeOK, CallOK, ThreadOK
    <2>4. \A u \in Threads : u # t => ThreadOK(u)'
      BY <2>1 DEF IInv, CallOK, ThreadOK
    <2> QED
      BY <2>3, <2>4 DEF CallOK
  <1>3. OwnerInside'
    BY NoThreadAssumption DEF IInv, TypeOK, OwnerInside, Holding
  <1>4. MaxIdIsMine'
    BY DEF IInv, TypeOK, MaxIdIsMine, OwnerInside, Holding, CallOK, ThreadOK
  <1>5. Ordered(db')
    BY DEF IInv
  <1> QED
    BY <1>1, <1>2, <1>3, <1>4, <1>5 DEF IInv

(* mysql_stmt_prepare of one statement of several. *)
LEMMA CheckMultiKeeps ==
    ASSUME IInv, NEW t \in Threads, CheckMulti(t)
    PROVE  IInv'
  <1> USE DEF CheckMulti, Reconnect
  <1>1. TypeOK'
    BY StatementsLen, NoVarsType DEF IInv, TypeOK, CallState
  <1>2. CallOK'
    <2>1. \A u \in Threads : u # t => pc'[u] = pc[u] /\ pc[u] # "exec"
      BY DEF IInv, TypeOK, OwnerInside, Holding
    <2>2. 1 \in 1 .. Len(Statements(call[t]))
      BY StatementsLen
    <2>3. ThreadOK(t)'
      BY <2>2 DEF IInv, TypeOK, CallOK, ThreadOK
    <2>4. \A u \in Threads : u # t => ThreadOK(u)'
      BY <2>1 DEF IInv, CallOK, ThreadOK
    <2> QED
      BY <2>3, <2>4 DEF CallOK
  <1>3. OwnerInside'
    BY NoThreadAssumption DEF IInv, TypeOK, OwnerInside, Holding
  <1>4. MaxIdIsMine'
    BY DEF IInv, TypeOK, MaxIdIsMine, OwnerInside, Holding, CallOK, ThreadOK
  <1>5. Ordered(db')
    BY DEF IInv
  <1> QED
    BY <1>1, <1>2, <1>3, <1>4, <1>5 DEF IInv

(* A statement that breaks a key is answered with an error. *)
LEMMA RejectKeeps ==
    ASSUME IInv, NEW t \in Threads, Reject(t)
    PROVE  IInv'
  <1> USE DEF Reject, Fail, NullResult
  <1>1. TypeOK'
    BY DEF IInv, TypeOK, CallState
  <1>2. CallOK'
    BY DEF IInv, TypeOK, CallOK, ThreadOK
  <1>3. OwnerInside'
    BY NoThreadAssumption DEF IInv, TypeOK, OwnerInside, Holding
  <1>4. MaxIdIsMine'
    BY DEF IInv, TypeOK, MaxIdIsMine, OwnerInside, Holding, CallOK, ThreadOK
  <1>5. Ordered(db')
    BY DEF IInv
  <1> QED
    BY <1>1, <1>2, <1>3, <1>4, <1>5 DEF IInv

(* A statement that cannot be prepared ends the call. *)
LEMMA PrepareFailsKeeps ==
    ASSUME IInv, NEW t \in Threads, PrepareFails(t)
    PROVE  IInv'
  <1> USE DEF PrepareFails, Fail, NullResult
  <1>1. TypeOK'
    BY DEF IInv, TypeOK, CallState
  <1>2. CallOK'
    BY DEF IInv, TypeOK, CallOK, ThreadOK
  <1>3. OwnerInside'
    BY NoThreadAssumption DEF IInv, TypeOK, OwnerInside, Holding
  <1>4. MaxIdIsMine'
    BY DEF IInv, TypeOK, MaxIdIsMine, OwnerInside, Holding, CallOK, ThreadOK
  <1>5. Ordered(db')
    BY DEF IInv
  <1> QED
    BY <1>1, <1>2, <1>3, <1>4, <1>5 DEF IInv

(* pthread_mutex_unlock at the end of either function. *)
LEMMA UnlockKeeps ==
    ASSUME IInv, NEW t \in Threads, Unlock(t)
    PROVE  IInv'
  <1> USE DEF Unlock
  <1>1. TypeOK'
    BY DEF IInv, TypeOK, CallState
  <1>2. CallOK'
    BY DEF IInv, TypeOK, CallOK, ThreadOK
  <1>3. OwnerInside'
    BY NoThreadAssumption DEF IInv, TypeOK, OwnerInside, Holding
  <1>4. MaxIdIsMine'
    BY DEF IInv, TypeOK, MaxIdIsMine, OwnerInside, Holding, CallOK, ThreadOK
  <1>5. Ordered(db')
    BY DEF IInv
  <1> QED
    BY <1>1, <1>2, <1>3, <1>4, <1>5 DEF IInv

(* The query function hands its result to the command. *)
LEMMA ReturnKeeps ==
    ASSUME IInv, NEW t \in Threads, Return(t)
    PROVE  IInv'
  <1> USE DEF Return, NullResult
  <1>1. TypeOK'
    BY DEF IInv, TypeOK, CallState
  <1>2. CallOK'
    BY DEF IInv, TypeOK, CallOK, ThreadOK
  <1>3. OwnerInside'
    BY NoThreadAssumption DEF IInv, TypeOK, OwnerInside, Holding
  <1>4. MaxIdIsMine'
    BY DEF IInv, TypeOK, MaxIdIsMine, OwnerInside, Holding, CallOK, ThreadOK
  <1>5. Ordered(db')
    BY DEF IInv
  <1> QED
    BY <1>1, <1>2, <1>3, <1>4, <1>5 DEF IInv

(* The connection to the database is lost. *)
LEMMA DropKeeps ==
    ASSUME IInv, Drop
    PROVE  IInv'
  <1> USE DEF Drop
  <1>1. TypeOK'
    BY DEF IInv, TypeOK, CallState
  <1>2. CallOK'
    BY DEF IInv, TypeOK, CallOK, ThreadOK
  <1>3. OwnerInside'
    BY NoThreadAssumption DEF IInv, TypeOK, OwnerInside, Holding
  <1>4. MaxIdIsMine'
    BY DEF IInv, TypeOK, MaxIdIsMine, OwnerInside, Holding, CallOK, ThreadOK
  <1>5. Ordered(db')
    BY DEF IInv
  <1> QED
    BY <1>1, <1>2, <1>3, <1>4, <1>5 DEF IInv

(* The server process starts again over the same tables. *)
LEMMA RebootKeeps ==
    ASSUME IInv, Reboot
    PROVE  IInv'
  <1> USE DEF Reboot, NullResult
  <1>1. TypeOK'
    <2>1. DOMAIN result' = Threads /\ \A u \in Threads : result'[u].null \in BOOLEAN
      OBVIOUS
    <2>2. /\ pc' \in [Threads -> CallState] /\ k' \in [Threads -> Nat \ {0}]
          /\ call' \in [Threads -> Calls \cup {NoCall}]
      BY DEF CallState
    <2> QED
      BY <2>1, <2>2, NoVarsType DEF IInv, TypeOK
  <1>2. CallOK'
    BY NoVarsType DEF IInv, TypeOK, CallOK, ThreadOK
  <1>3. OwnerInside'
    BY NoThreadAssumption DEF IInv, TypeOK, OwnerInside, Holding
  <1>4. MaxIdIsMine'
    BY DEF IInv, TypeOK, MaxIdIsMine, OwnerInside, Holding, CallOK, ThreadOK
  <1>5. Ordered(db')
    BY DEF IInv
  <1> QED
    BY <1>1, <1>2, <1>3, <1>4, <1>5 DEF IInv

(* The second connection attempt, or the end of the process without it. *)
LEMMA RetryKeeps ==
    ASSUME IInv, NEW t \in Threads, Retry(t)
    PROVE  IInv'
  <1>1. CASE Reboot
    BY <1>1, RebootKeeps
  <1>2. CASE Reconnect /\ conn' = "up" /\ UNCHANGED <<owner, db, pc, call, k, result>>
    <2>1. TypeOK'
      BY <1>2, NoVarsType DEF IInv, TypeOK, Reconnect
    <2>2. CallOK'
      BY <1>2 DEF IInv, CallOK, ThreadOK
    <2>3. \A u \in Threads : pc[u] = "exec" => k[u] = 1
      BY DEF IInv, CallOK, ThreadOK, OwnerInside, Holding, Retry
    <2>4. MaxIdIsMine'
      BY <1>2, <2>3 DEF MaxIdIsMine
    <2> QED
      BY <1>2, <2>1, <2>2, <2>4 DEF IInv, OwnerInside
  <1> QED
    BY <1>1, <1>2 DEF Retry

(* No other thread is between the statements of its call. *)
LEMMA AloneInside ==
    ASSUME IInv, NEW t \in Threads, pc[t] = "exec"
    PROVE  \A u \in Threads : u # t => pc[u] \notin Holding
  BY DEF IInv, OwnerInside, Holding

(* The connection breaks after the statement was executed. *)
LEMMA LoseAnswerKeeps ==
    ASSUME IInv, NEW t \in Threads, LoseAnswer(t)
    PROVE  IInv'
  <1>1. db' \in Db /\ Ordered(db')
    BY ExecuteTables DEF LoseAnswer
  <1>2. TypeOK'
    BY <1>1 DEF IInv, TypeOK, CallState, LoseAnswer, Fail, NullResult
  <1>3. CallOK'
    BY DEF IInv, TypeOK, CallOK, ThreadOK, LoseAnswer, Fail
  <1>4. OwnerInside'
    BY DEF IInv, TypeOK, OwnerInside, Holding, LoseAnswer, Fail
  <1>5. MaxIdIsMine'
    BY DEF MaxIdIsMine, LoseAnswer
  <1> QED
    BY <1>1, <1>2, <1>3, <1>4, <1>5 DEF IInv

(* mysql_stmt_execute of one statement. *)
LEMMA ExecuteKeeps ==
    ASSUME IInv, NEW t \in Threads, Execute(t)
    PROVE  IInv'
  <1>1. db' \in Db /\ Ordered(db')
    BY ExecuteTables DEF Execute
  <1>2. call[t] \in Calls /\ k[t] \in 1 .. Len(Statements(call[t]))
    BY DEF IInv, CallOK, ThreadOK, Execute
  <1>3. var' \in Vars
    BY <1>2, AssignType DEF IInv, TypeOK, Execute, Statement
  <1>4. \A u \in Threads : u # t => pc'[u] = pc[u] /\ pc[u] \notin Holding
    BY AloneInside DEF IInv, TypeOK, Execute
  <1>5. UNCHANGED <<owner, conn, call>> /\ conn = "up" /\ pc[t] = "exec"
    BY DEF Execute
  <1>6. CASE IsLast(t)
    <2>1. /\ pc' = [pc EXCEPT ![t] = "unlock"] /\ k' = k
          /\ result' = [result EXCEPT ![t] = Select(Statement(t), call[t], db, var)]
      BY <1>6 DEF Execute
    <2>2. TypeOK'
      BY <1>1, <1>3, <1>5, <2>1, SelectNull DEF IInv, TypeOK, CallState
    <2>3. CallOK'
      BY <1>5, <2>1 DEF IInv, TypeOK, CallOK, ThreadOK
    <2>4. OwnerInside'
      BY <1>5, <2>1 DEF IInv, TypeOK, OwnerInside, Holding
    <2>5. MaxIdIsMine'
      BY <1>4, <2>1 DEF IInv, TypeOK, MaxIdIsMine, Holding
    <2> QED
      BY <1>1, <2>2, <2>3, <2>4, <2>5 DEF IInv
  <1>7. CASE ~IsLast(t)
    <2>1. k' = [k EXCEPT ![t] = k[t] + 1] /\ pc' = pc /\ result' = result
      BY <1>7 DEF Execute
    <2>2. TypeOK'
      BY <1>1, <1>3, <1>5, <2>1 DEF IInv, TypeOK
    <2>3. k[t] + 1 \in 1 .. Len(Statements(call[t]))
      BY <1>2, <1>7, StatementsLen DEF IsLast
    <2>4. CallOK'
      BY <1>5, <2>1, <2>3 DEF IInv, TypeOK, CallOK, ThreadOK
    <2>5. OwnerInside'
      BY <1>5, <2>1 DEF IInv, OwnerInside
    <2>6. MaxIdIsMine'
      <3> SUFFICES ASSUME NEW u \in Threads, pc'[u] = "exec", k'[u] = 2
                   PROVE  /\ call'[u].name = "insert_chat" =>
                                var'["max_id"] = NextChatId(call'[u].room, db')
                          /\ call'[u].name = "insert_room" =>
                                var'["max_id"] = NextRoomId(db')
                          /\ call'[u].name = "get_members" =>
                                var'["max_chat_id"] = LastChatId(call'[u].room, db')
        BY DEF MaxIdIsMine
      <3>1. u = t /\ k[t] = 1
        BY <1>2, <1>4, <2>1 DEF Holding, IInv, TypeOK
      <3>2. /\ call[t].name = "insert_chat" => Statement(t) = "set_max_chat"
            /\ call[t].name = "insert_room" => Statement(t) = "set_max_room"
            /\ call[t].name = "get_members" => Statement(t) = "set_last_chat"
        BY <1>2, <3>1, StatementNames DEF Statement
      <3>3. Statement(t) \in {"set_max_chat", "set_max_room", "set_last_chat"} => db' = db
        BY DEF Execute, Write
      <3>4. var' = Assign(Statement(t), call[t], db, var) /\ var \in Vars
        BY DEF Execute, IInv, TypeOK
      <3> QED
        BY <1>5, <3>1, <3>2, <3>3, <3>4 DEF Assign, Vars, Variables
    <2> QED
      BY <1>1, <2>2, <2>4, <2>5, <2>6 DEF IInv
  <1> QED
    BY <1>6, <1>7

(* IInv is inductive. *)
THEOREM NextInv == IInv /\ [Next]_vars => IInv'
  <1> SUFFICES ASSUME IInv, [Next]_vars PROVE IInv'
    OBVIOUS
  <1>1. ASSUME NEW t \in Threads, NEW c \in IssuedCalls, Call(t, c) PROVE IInv'
    BY <1>1, CallKeeps
  <1>2. ASSUME NEW t \in Threads, Work(t) PROVE IInv'
    BY <1>2, LockKeeps, CheckSingleKeeps, CheckMultiKeeps, RetryKeeps, ExecuteKeeps,
       RejectKeeps, PrepareFailsKeeps, LoseAnswerKeeps, UnlockKeeps, ReturnKeeps
       DEF Work
  <1>3. CASE Drop
    BY <1>3, DropKeeps
  <1>4. CASE Restart
    BY <1>4, RebootKeeps DEF Restart
  <1>5. CASE UNCHANGED vars
    BY <1>5 DEF vars, IInv, TypeOK, CallOK, ThreadOK, OwnerInside, MaxIdIsMine
  <1> QED
    BY <1>1, <1>2, <1>3, <1>4, <1>5 DEF Next

-----------------------------------------------------------------------------
(* The theorems.                                                           *)

(* The invariant holds in every reachable state. *)
THEOREM Invariance == Spec => []IInv
  BY InitInv, NextInv, PTL DEF Spec

(* The state of mysql_common.c keeps its types. *)
THEOREM Typing == Spec => []TypeOK
  <1>1. IInv => TypeOK
    BY DEF IInv
  <1> QED
    BY <1>1, Invariance, PTL

(* Of any number of threads, those inside a call hold mysql_mutex: at most *)
(* one is there.                                                           *)
THEOREM MutualExclusion == Spec => []OwnerInside
  <1>1. IInv => OwnerInside
    BY DEF IInv
  <1> QED
    BY <1>1, Invariance, PTL

(* @max_id is what the thread itself computed when it inserts with it.     *)
THEOREM VariableIsMine == Spec => []MaxIdIsMine
  <1>1. IInv => MaxIdIsMine
    BY DEF IInv
  <1> QED
    BY <1>1, Invariance, PTL

(* Rooms and messages are numbered without gaps or doubles.                *)
THEOREM DenseNumbers == Spec => []ChatIdsDense
  <1>1. IInv => ChatIdsDense
    BY OrderedDense DEF IInv, ChatIdsDense
  <1> QED
    BY <1>1, Invariance, PTL

(* Nobody has read past the end of a room.                                 *)
THEOREM ReadPositions == Spec => []LastReadInRange
  <1>1. IInv => LastReadInRange
    BY DEF IInv, LastReadInRange, Ordered
  <1> QED
    BY <1>1, Invariance, PTL

(* No step, not even a restart, loses a message or moves a read position   *)
(* backwards.                                                              *)
THEOREM HistoryKept == Spec => HistoryGrows
  <1>1. IInv /\ [Next]_vars => [Grows(db, db')]_vars
    <2> SUFFICES ASSUME IInv, Next PROVE Grows(db, db')
      OBVIOUS
    <2>1. CASE db' = db
      <3>1. \A r \in Rooms, u \in Users : db.lastRead[r][u] \in Int
        BY DEF IInv, TypeOK, Db, NoMember
      <3> QED
        BY <2>1, <3>1 DEF Grows
    <2>2. CASE \E t \in Threads : Execute(t) \/ LoseAnswer(t)
      BY <2>2, ExecuteTables DEF Execute, LoseAnswer
    <2>3. db' = db \/ \E t \in Threads : Execute(t) \/ LoseAnswer(t)
      BY DEF Next, Work, Call, Lock, CheckSingle, CheckMulti, Retry, Reject,
             PrepareFails, Unlock, Return, Drop, Restart, Reboot
    <2> QED
      BY <2>1, <2>2, <2>3
  <1> QED
    BY <1>1, Invariance, PTL DEF Spec, HistoryGrows

-----------------------------------------------------------------------------
(* One statement.                                                          *)

(* No statement changes a password or removes a room. *)
LEMMA WriteKeepsRows ==
    ASSUME NEW s, NEW c, NEW d, NEW v, MayRun(s, c, d, v)
    PROVE  LET e == Write(s, c, d, v) IN
           /\ \A u \in Users : d.account[u] # NoAccount => e.account[u] = d.account[u]
           /\ d.room \subseteq e.room
           /\ s = "insert_room" => v["max_id"] \notin d.room /\ v["max_id"] \in e.room
  <1> DEFINE e == Write(s, c, d, v)
  <1>0. d \in Db /\ ~Rejected(s, c, d, v)
    BY DEF MayRun
  <1>1. CASE s = "insert_user"
    <2>1. d.account[c.user] = NoAccount /\ c.user \in Users
      BY <1>0, <1>1, WriterFields DEF Rejected, DuplicateAccount
    <2>2. e.room = d.room /\ e.account = [d.account EXCEPT ![c.user] = c.pwd]
      BY <1>0, <1>1 DEF Write, Db
    <2>3. \A u \in Users : d.account[u] # NoAccount => e.account[u] = d.account[u]
      <3> HIDE DEF e
      <3> QED
        BY <1>0, <2>1, <2>2 DEF Db
    <2> QED
      BY <1>1, <2>2, <2>3
  <1>2. CASE s = "insert_room"
    <2>1. e.account = d.account /\ e.room = d.room \cup {v["max_id"]}
      BY <1>0, <1>2 DEF Write, Db
    <2>2. v["max_id"] \notin d.room
      BY <1>0, <1>2 DEF Rejected
    <2> QED
      BY <2>1, <2>2
  <1>3. CASE s \notin {"insert_user", "insert_room"}
    <2>1. e.account = d.account /\ e.room = d.room
      BY <1>0, <1>3 DEF Write, AddMembers, MarkRead, DeleteAll, UpdateReaction, Db
    <2> QED
      BY <1>3, <2>1
  <1> QED
    BY <1>1, <1>2, <1>3

SameKey(x, y) == x.user = y.user /\ x.room = y.room /\ x.chat = y.chat
OnePerKey(d) == \A x, y \in d.react : SameKey(x, y) => x = y

(* The primary key of chat_react, and that reactions do not vanish. *)
LEMMA WriteReactions ==
    ASSUME NEW s, NEW c, NEW d, NEW v, MayRun(s, c, d, v), OnePerKey(d)
    PROVE  LET e == Write(s, c, d, v) IN
           OnePerKey(e) /\ \A x \in d.react : \E y \in e.react : SameKey(x, y)
  <1> DEFINE e == Write(s, c, d, v)
  <1>0. d \in Db /\ ~Rejected(s, c, d, v)
    BY DEF MayRun
  <1>1. CASE s = "insert_react"
    <2>1. e.react = d.react \cup {NewReaction(c)}
      BY <1>0, <1>1 DEF Write, Db
    <2>2. \A x \in d.react : ~SameKey(x, NewReaction(c)) /\ ~SameKey(NewReaction(c), x)
      BY <1>0, <1>1 DEF Rejected, DuplicateReaction, Reactions, SameKey, NewReaction
    <2> HIDE DEF e
    <2>3. OnePerKey(e) /\ \A x \in d.react : \E y \in e.react : SameKey(x, y)
      BY <2>1, <2>2 DEF OnePerKey, SameKey
    <2> QED
      BY <2>3 DEF e
  <1>2. CASE s = "update_react"
    <2> DEFINE R == Reactions(c.user, c.room, c.chat, d)
               f(x) == IF x \in R THEN [x EXCEPT !.type = c.type] ELSE x
    <2>1. e = [d EXCEPT !.react = {f(x) : x \in d.react}]
      BY <1>2 DEF Write, UpdateReaction
    <2>2. e.react = {f(x) : x \in d.react}
      BY <1>0, <2>1 DEF Db
    <2>3. \A x \in d.react : SameKey(x, f(x)) /\ SameKey(f(x), x)
      BY <1>0 DEF Db, ReactRows, SameKey
    <2> HIDE DEF e, f
    <2>4. OnePerKey(e)
      <3> SUFFICES ASSUME NEW y \in e.react, NEW z \in e.react, SameKey(y, z) PROVE y = z
        BY DEF OnePerKey
      <3>1. PICK x \in d.react : y = f(x)
        BY <2>2
      <3>2. PICK w \in d.react : z = f(w)
        BY <2>2
      <3>3. SameKey(x, w)
        BY <2>3, <3>1, <3>2 DEF SameKey
      <3> QED
        BY <3>1, <3>2, <3>3 DEF OnePerKey
    <2>5. \A x \in d.react : \E y \in e.react : SameKey(x, y)
      BY <2>2, <2>3
    <2> QED
      BY <2>4, <2>5 DEF e
  <1>3. CASE s \notin {"insert_react", "update_react"}
    <2>1. e.react = d.react
      BY <1>0, <1>3 DEF Write, AddMembers, MarkRead, DeleteAll, Db
    <2> HIDE DEF e
    <2>2. OnePerKey(e) /\ \A x \in d.react : \E y \in e.react : SameKey(x, y)
      BY <2>1 DEF OnePerKey, SameKey
    <2> QED
      BY <2>2 DEF e
  <1> QED
    BY <1>1, <1>2, <1>3

-----------------------------------------------------------------------------
(* A step of the program runs a statement on the tables, or none.          *)

StatementRuns ==
    \E t \in Threads :
        /\ MayRun(Statement(t), call[t], db, var)
        /\ db' = Write(Statement(t), call[t], db, var)

LEMMA OneStatement ==
    ASSUME IInv, [Next]_vars
    PROVE  db' = db \/ StatementRuns
  <1>1. CASE \E t \in Threads : Execute(t) \/ LoseAnswer(t)
    BY <1>1, ExecuteMayRun DEF Execute, LoseAnswer, StatementRuns
  <1>2. db' = db \/ \E t \in Threads : Execute(t) \/ LoseAnswer(t)
    BY DEF Next, Work, Call, Lock, CheckSingle, CheckMulti, Retry, Reject,
           PrepareFails, Unlock, Return, Drop, Restart, Reboot, vars
  <1> QED
    BY <1>1, <1>2

(* The password an account was created with stays, whoever else inserts.   *)
THEOREM FirstPassword == Spec => PasswordKept
  <1>1. IInv /\ [Next]_vars =>
            [\A u \in Users : db.account[u] # NoAccount => db'.account[u] = db.account[u]]_vars
    BY OneStatement, WriteKeepsRows DEF StatementRuns
  <1> QED
    BY <1>1, Invariance, PTL DEF Spec, PasswordKept

(* The invariant of the reactions. *)
LEMMA ReactionsStep ==
    ASSUME IInv, OnePerKey(db), [Next]_vars
    PROVE  OnePerKey(db') /\ \A x \in db.react : \E y \in db'.react : SameKey(x, y)
  <1>1. CASE db' = db
    BY <1>1 DEF OnePerKey, SameKey
  <1>2. CASE StatementRuns
    BY <1>2, WriteReactions DEF StatementRuns
  <1> QED
    BY <1>1, <1>2, OneStatement

(* A user who has reacted to a message has one reaction to it for ever.    *)
THEOREM OneReaction == Spec => ReactionKept
  <1> DEFINE Kept == \A x \in db.react : Cardinality(Reactions(x.user, x.room, x.chat, db')) = 1
  <1>1. Init => OnePerKey(db)
    BY DEF Init, EmptyDb, OnePerKey
  <1>2. IInv /\ OnePerKey(db) /\ [Next]_vars => OnePerKey(db)'
    <2> SUFFICES ASSUME IInv, OnePerKey(db), [Next]_vars PROVE OnePerKey(db')
      OBVIOUS
    <2> QED
      BY ReactionsStep
  <1>3. IInv /\ OnePerKey(db) /\ [Next]_vars => Kept
    <2> SUFFICES ASSUME IInv, OnePerKey(db), [Next]_vars, NEW x \in db.react
                 PROVE  Cardinality(Reactions(x.user, x.room, x.chat, db')) = 1
      OBVIOUS
    <2>1. PICK y \in db'.react : SameKey(x, y)
      BY ReactionsStep
    <2>2. Reactions(x.user, x.room, x.chat, db') = {y}
      BY <2>1, ReactionsStep DEF Reactions, OnePerKey, SameKey
    <2> QED
      BY <2>2, FS_Singleton
  <1>4. Spec => []OnePerKey(db)
    BY <1>1, <1>2, Invariance, PTL DEF Spec
  <1>5. IInv /\ OnePerKey(db) /\ [Next]_vars => [Kept]_vars
    BY <1>3
  <1> QED
    BY <1>4, <1>5, Invariance, PTL DEF Spec, ReactionKept

-----------------------------------------------------------------------------
(* The ids of new rooms.                                                   *)

(* Thread t has the answer of a creation in hand, or is about to read it.  *)
Answered(t) == pc[t] \in {"unlock", "done"} /\ call[t].name = "insert_room"
Reading(t) == pc[t] = "exec" /\ call[t].name = "insert_room" /\ k[t] = 3

(* What a creation answers is the id of an existing room, and of another   *)
(* one than any other answer; the variable about to be read is one too.    *)
AnswersExist == \A t \in Threads : Answered(t) => result[t].rows \subseteq db.room
AnswersDiffer ==
    \A t, u \in Threads :
        t # u /\ Answered(t) /\ Answered(u) => result[t].rows \cap result[u].rows = {}
NextDiffers ==
    \A t \in Threads : Reading(t) /\ conn = "up" =>
        /\ var["max_id"] \in db.room
        /\ \A u \in Threads : u # t /\ Answered(u) => var["max_id"] \notin result[u].rows
RoomAnswers == AnswersExist /\ AnswersDiffer /\ NextDiffers

Others(t) == \A u \in Threads \ {t} :
    pc'[u] = pc[u] /\ k'[u] = k[u] /\ call'[u] = call[u] /\ result'[u] = result[u]

(* A step of thread t that answers nothing and brings t to no reading.     *)
LEMMA ElsewhereKeeps ==
    ASSUME RoomAnswers, NEW t \in Threads, Others(t), db.room \subseteq db'.room,
           ~Reading(t)',
           Answered(t)' => result'[t].rows = {} \/ (Answered(t) /\ result'[t] = result[t]),
           UNCHANGED <<conn, var>> \/ \A u \in Threads \ {t} : pc[u] # "exec"
    PROVE  RoomAnswers'
  <1>1. \A u \in Threads \ {t} :
           /\ Answered(u)' <=> Answered(u)
           /\ Reading(u)' <=> Reading(u)
           /\ result'[u] = result[u]
    BY DEF Others, Answered, Reading
  <1>2. AnswersExist'
    BY <1>1 DEF RoomAnswers, AnswersExist
  <1>3. AnswersDiffer'
    BY <1>1 DEF RoomAnswers, AnswersDiffer
  <1>4. ASSUME NEW u \in Threads \ {t}, Reading(u), conn' = "up"
        PROVE  conn = "up" /\ var' = var
    BY <1>4 DEF Reading
  <1>5. NextDiffers'
    BY <1>1, <1>4 DEF RoomAnswers, NextDiffers
  <1> QED
    BY <1>2, <1>3, <1>5 DEF RoomAnswers

LEMMA RoomsGrow ==
    ASSUME IInv, [Next]_vars
    PROVE  db.room \subseteq db'.room
  BY OneStatement, WriteKeepsRows DEF StatementRuns

(* A restart forgets all answers. *)
LEMMA RebootAnswers ==
    ASSUME Reboot
    PROVE  RoomAnswers'
  BY DEF Reboot, RoomAnswers, AnswersExist, AnswersDiffer, NextDiffers, Answered, Reading

(* The steps other than Execute.                                           *)
LEMMA OutsideAnswers ==
    ASSUME IInv, RoomAnswers, [Next]_vars, NEW t \in Threads,
           (\E c \in IssuedCalls : Call(t, c)) \/ Lock(t) \/ Unlock(t) \/ Return(t)
    PROVE  RoomAnswers'
  <1>1. Others(t) /\ db.room \subseteq db'.room /\ UNCHANGED <<conn, var>>
    <2>1. UNCHANGED <<conn, var>>
      BY DEF Call, Lock, Unlock, Return
    <2>2. Others(t)
      BY DEF Call, Lock, Unlock, Return, Others, IInv, TypeOK
    <2> QED
      BY <2>1, <2>2, RoomsGrow
  <1>2. ~Reading(t)'
    BY DEF Call, Lock, Unlock, Return, Reading, IInv, TypeOK
  <1>3. Answered(t)' => Answered(t) /\ result'[t] = result[t]
    BY DEF Call, Lock, Unlock, Return, Answered, IInv, TypeOK
  <1> QED
    BY <1>1, <1>2, <1>3, ElsewhereKeeps

LEMMA FailAnswers ==
    ASSUME IInv, RoomAnswers, [Next]_vars, NEW t \in Threads,
           \/ CheckSingle(t) \/ CheckMulti(t) \/ Reject(t)
           \/ PrepareFails(t) \/ LoseAnswer(t) \/ (Retry(t) /\ ~Reboot)
    PROVE  RoomAnswers'
  <1>1. Others(t)
    BY DEF CheckSingle, CheckMulti, Retry, Reject, PrepareFails, LoseAnswer, Fail, Others,
           IInv, TypeOK
  <1>2. pc[t] \in Holding
    BY DEF CheckSingle, CheckMulti, Retry, Reject, PrepareFails, LoseAnswer, Holding
  <1>3. \A u \in Threads \ {t} : pc[u] # "exec"
    BY <1>2 DEF IInv, OwnerInside, Holding
  <1>4. ~Reading(t)'
    BY DEF CheckSingle, CheckMulti, Retry, Reject, PrepareFails, LoseAnswer, Fail, Reading,
           IInv, TypeOK, CallOK, ThreadOK
  <1>5. Answered(t)' => result'[t].rows = {}
    BY DEF CheckSingle, CheckMulti, Retry, Reject, PrepareFails, LoseAnswer, Fail, Answered,
           IInv, TypeOK, NullResult
  <1> QED
    BY <1>1, <1>3, <1>4, <1>5, RoomsGrow, ElsewhereKeeps

(* The insertion makes a new id, and the statement after it reads it.      *)
LEMMA ExecuteAnswers ==
    ASSUME IInv, RoomAnswers, [Next]_vars, NEW t \in Threads, Execute(t)
    PROVE  RoomAnswers'
  <1>1. /\ call[t] \in Calls /\ k[t] \in 1 .. Len(Statements(call[t]))
        /\ call' = call /\ conn' = conn /\ conn = "up" /\ pc[t] = "exec"
    BY DEF Execute, IInv, CallOK, ThreadOK
  <1>2. Others(t) /\ \A u \in Threads \ {t} : pc[u] \notin Holding
    BY AloneInside DEF Execute, Others, IInv, TypeOK
  <1>3. db.room \subseteq db'.room
    BY RoomsGrow
  <1>4. CASE call[t].name # "insert_room"
    <2>1. ~Answered(t)' /\ ~Reading(t)'
      BY <1>1, <1>4 DEF Answered, Reading
    <2> QED
      BY <1>2, <1>3, <2>1, ElsewhereKeeps DEF Holding
  <1>5. ASSUME call[t].name = "insert_room"
        PROVE  Statements(call[t]) = <<"set_max_room", "insert_room", "select_max_id">>
               /\ (IsLast(t) <=> k[t] = 3) /\ k[t] \in 1 .. 3
    BY <1>1, <1>5 DEF Statements, IsLast
  <1>6. CASE call[t].name = "insert_room" /\ k[t] = 1
    <2>1. ~IsLast(t) /\ k' = [k EXCEPT ![t] = 2] /\ pc' = pc
      BY <1>5, <1>6 DEF Execute
    <2>2. ~Answered(t)' /\ ~Reading(t)'
      BY <1>1, <2>1 DEF Answered, Reading, IInv, TypeOK
    <2> QED
      BY <1>2, <1>3, <2>2, ElsewhereKeeps DEF Holding
  <1>7. CASE call[t].name = "insert_room" /\ k[t] = 2
    <2>1. Statement(t) = "insert_room" /\ ~IsLast(t)
      BY <1>5, <1>7 DEF Statement
    <2>2. pc' = pc /\ result' = result /\ var' = var
      BY <2>1 DEF Execute, Assign
    <2>3. var["max_id"] \notin db.room /\ var["max_id"] \in db'.room
      BY <1>1, <2>1, ExecuteMayRun, WriteKeepsRows DEF Execute
    <2>4. \A u \in Threads : Answered(u)' <=> Answered(u)
      BY <1>1, <2>2 DEF Answered
    <2>5. AnswersExist' /\ AnswersDiffer'
      BY <1>3, <2>2, <2>4 DEF RoomAnswers, AnswersExist, AnswersDiffer
    <2>6. \A u \in Threads \ {t} : ~Reading(u)'
      BY <1>2, <2>2 DEF Reading, Holding
    <2>7. NextDiffers'
      BY <2>2, <2>3, <2>4, <2>6 DEF RoomAnswers, AnswersExist, NextDiffers
    <2> QED
      BY <2>5, <2>7 DEF RoomAnswers
  <1>8. CASE call[t].name = "insert_room" /\ k[t] = 3
    <2>1. Statement(t) = "select_max_id" /\ IsLast(t)
      BY <1>5, <1>8 DEF Statement
    <2>2. /\ pc'[t] = "unlock" /\ result'[t] = Result({var["max_id"]})
      BY <2>1 DEF Execute, Select, IInv, TypeOK
    <2>3. result'[t].rows = {var["max_id"]}
      BY <2>2 DEF Result
    <2>4. /\ var["max_id"] \in db.room
          /\ \A u \in Threads : u # t /\ Answered(u) => var["max_id"] \notin result[u].rows
      BY <1>1, <1>8 DEF RoomAnswers, NextDiffers, Reading
    <2>5. \A u \in Threads \ {t} : (Answered(u)' <=> Answered(u)) /\ result'[u] = result[u]
      BY <1>2 DEF Others, Answered
    <2>6. AnswersExist'
      BY <1>3, <2>3, <2>4, <2>5 DEF RoomAnswers, AnswersExist
    <2>7. AnswersDiffer'
      BY <2>3, <2>4, <2>5 DEF RoomAnswers, AnswersDiffer
    <2>8. \A u \in Threads : ~Reading(u)'
      BY <1>2, <2>2 DEF Others, Reading, Holding
    <2> QED
      BY <2>6, <2>7, <2>8 DEF RoomAnswers, NextDiffers
  <1> QED
    BY <1>4, <1>5, <1>6, <1>7, <1>8

LEMMA AnswersStep == IInv /\ RoomAnswers /\ [Next]_vars => RoomAnswers'
  <1> SUFFICES ASSUME IInv, RoomAnswers, [Next]_vars PROVE RoomAnswers'
    OBVIOUS
  <1>1. ASSUME NEW t \in Threads, \E c \in IssuedCalls : Call(t, c) PROVE RoomAnswers'
    BY <1>1, OutsideAnswers
  <1>2. ASSUME NEW t \in Threads, Work(t), ~Reboot PROVE RoomAnswers'
    BY <1>2, OutsideAnswers, FailAnswers, ExecuteAnswers DEF Work
  <1>3. CASE Reboot
    BY <1>3, RebootAnswers
  <1>4. CASE Drop \/ UNCHANGED vars
    BY <1>4 DEF Drop, vars, RoomAnswers, AnswersExist, AnswersDiffer, NextDiffers,
                Answered, Reading
  <1> QED
    BY <1>1, <1>2, <1>3, <1>4 DEF Next, Restart

(* However many threads create rooms on the shared connection, with lost   *)
(* connections and restarts, no two are told the same id.                  *)
THEOREM OwnRoomId == Spec => []RoomIdsPrivate
  <1>1. Init => RoomAnswers
    BY DEF Init, RoomAnswers, AnswersExist, AnswersDiffer, NextDiffers, Answered, Reading
  <1>2. RoomAnswers => RoomIdsPrivate
    BY DEF RoomAnswers, AnswersDiffer, RoomIdsPrivate, Answered
  <1> QED
    BY <1>1, <1>2, AnswersStep, Invariance, PTL DEF Spec

-----------------------------------------------------------------------------
(* The refinement of ChatStore.                                            *)
(*                                                                         *)
(* ChatStore has the tables and calls of MysqlQuery too: its operators are *)
(* the same, name by name.                                                 *)

(* The constants and the calls. *)
LEMMA SameNames ==
    /\ Store!EmptyDb = EmptyDb /\ Store!NullResult = NullResult /\ Store!NoCall = NoCall
    /\ Store!NoVars = NoVars /\ Store!NoMember = NoMember /\ Store!Null = Null
    /\ Store!IssuedCalls = IssuedCalls
  BY DEF Store!EmptyDb, EmptyDb, Store!NullResult, NullResult, Store!NoCall, NoCall,
         Store!NoVars, NoVars, Store!Variables, Variables, Store!Null, Null,
         Store!NoMember, NoMember, Store!NoAccount, NoAccount,
         Store!IssuedCalls, IssuedCalls, Store!Calls, Calls,
         Store!SingleUser, SingleUser, Store!SinglePwd, SinglePwd,
         Store!SingleReact, SingleReact, Store!SingleDelete, SingleDelete,
         Store!MultiRoomUser, MultiRoomUser

(* The rows of a room. *)
LEMMA SameRows ==
    ASSUME NEW r, NEW d
    PROVE  /\ Store!Members(r, d) = Members(r, d)
           /\ Store!RoomChats(r, d) = RoomChats(r, d)
           /\ Store!ChatIds(r, d) = ChatIds(r, d)
           /\ Store!LastChatId(r, d) = LastChatId(r, d)
           /\ Store!NextChatId(r, d) = NextChatId(r, d)
           /\ \A u, c : Store!Reactions(u, r, c, d) = Reactions(u, r, c, d)
  BY DEF Store!Members, Members, Store!NoMember, NoMember, Store!RoomChats, RoomChats,
         Store!LastChatId, LastChatId, Store!NextChatId, NextChatId, Store!ChatIds, ChatIds,
         Store!Max, Max, Store!Reactions, Reactions

(* What a statement writes, and when it is rejected. *)
LEMMA SameWrite ==
    ASSUME NEW s, NEW c, NEW d, NEW v
    PROVE  /\ Store!Rejected(s, c, d, v) <=> Rejected(s, c, d, v)
           /\ Store!Write(s, c, d, v) = Write(s, c, d, v)
  BY DEF Store!Rejected, Rejected, Store!DuplicateAccount, DuplicateAccount,
         Store!DuplicateReaction, DuplicateReaction, Store!Mark, Mark,
         Store!Write, Write, Store!AddMembers, AddMembers, Store!MarkRead, MarkRead,
         Store!NewChat, NewChat, Store!NewReaction, NewReaction, Store!DeleteAll, DeleteAll,
         Store!UpdateReaction, UpdateReaction, 
         Store!Members, Members, Store!NoMember, NoMember, Store!NoAccount, NoAccount,
         Store!Null, Null,
         Store!NextChatId, NextChatId, Store!ChatIds, ChatIds,
         Store!Max, Max, Store!Reactions, Reactions

(* What a call does to the tables. *)
LEMMA SameEffect ==
    ASSUME NEW c, NEW d
    PROVE  Store!Effect(c, d) = Effect(c, d)
  BY SameWrite, SameNames DEF Store!Effect, Effect, Store!Statements, Statements,
     Store!RoomChats, RoomChats, Store!Cardinality, Cardinality

(* What a call answers. *)
LEMMA SameAnswer ==
    ASSUME NEW c, NEW d
    PROVE  Store!Answer(c, d) = Answer(c, d)
  BY DEF Store!Answer, Answer, Store!NoVars, NoVars, Store!Variables, Variables,
     Store!RoomChats, RoomChats, Store!Cardinality, Cardinality, Store!Select, Select,
     Store!Result, Result, Store!NullResult, NullResult,
     Store!RoomItem, RoomItem, Store!ChatItem, ChatItem, Store!MemberItem, MemberItem,
     Store!Unread, Unread, Store!Reactions, Reactions, Store!Members, Members,
     Store!NoMember, NoMember, Store!NoAccount, NoAccount, Store!Null, Null,
     Store!LastChatId, LastChatId, Store!ChatIds, ChatIds, Store!Max, Max

-----------------------------------------------------------------------------
(* ChatStore counts messages and rooms where the statements take the       *)
(* largest number.                                                         *)

(* The messages of a room. *)
LEMMA CountChats ==
    ASSUME NEW d, Ordered(d), NEW r \in Rooms
    PROVE  /\ Cardinality(RoomChats(r, d)) = NextChatId(r, d)
           /\ LastChatId(r, d) = IF RoomChats(r, d) = {} THEN 0
                                 ELSE Cardinality(RoomChats(r, d)) - 1
  <1> DEFINE R == RoomChats(r, d)
             f == [x \in R |-> x.id]
  <1>1. PICK n \in Nat : Numbered(r, d, n)
    BY DEF Ordered
  <1>2. ChatIds(r, d) = 0 .. n - 1 /\ ChatIds(r, d) = {x.id : x \in R}
    BY <1>1 DEF Numbered, ChatIds, RoomChats
  <1>3. \A x, y \in R : x.id = y.id => x = y
    BY DEF Ordered, RoomChats
  <1>4. Cardinality(R) = n
    <2> HIDE DEF R
    <2>1. f \in Bijection(R, 0 .. n - 1)
      BY <1>2, <1>3, Fun_IsBij
    <2>2. ExistsBijection(0 .. n - 1, R)
      BY <2>1, Fun_ExistsBijSymmetric DEF ExistsBijection
    <2>3. IsFiniteSet(0 .. n - 1) /\ Cardinality(0 .. n - 1) = n
      BY FS_Interval
    <2> QED
      BY <2>2, <2>3, FS_Bijection
  <1>5. NextChatId(r, d) = n
    BY <1>1, NumberedNext
  <1>6. R = {} <=> n = 0
    <2> HIDE DEF R
    <2>1. R = {} <=> ChatIds(r, d) = {}
      BY <1>2
    <2>2. 0 .. n - 1 = {} <=> n = 0
      OBVIOUS
    <2> QED
      BY <1>2, <2>1, <2>2
  <1>7. LastChatId(r, d) = IF n = 0 THEN 0 ELSE n - 1
    <2>1. CASE n = 0
      BY <1>2, <2>1 DEF LastChatId
    <2>2. CASE n > 0
      <3>1. n - 1 \in Nat /\ 0 .. n - 1 # {}
        BY <2>2
      <3> QED
        BY <1>2, <2>2, <3>1, MaxInterval DEF LastChatId
    <2> QED
      BY <2>1, <2>2
  <1> QED
    BY <1>4, <1>5, <1>6, <1>7

(* The rooms. *)
LEMMA CountRooms ==
    ASSUME NEW d, Ordered(d)
    PROVE  /\ Cardinality(d.room) = NextRoomId(d)
           /\ Cardinality(d.room \cup {NextRoomId(d)}) - 1 = NextRoomId(d)
  <1>1. PICK n \in Nat : d.room = 0 .. n - 1
    BY DEF Ordered
  <1>2. NextRoomId(d) = n
    BY <1>1, RoomsNext
  <1>3. d.room \cup {n} = 0 .. n
    BY <1>1
  <1>4. Cardinality(0 .. n - 1) = n /\ Cardinality(0 .. n) - 1 = n
    <2>1. Cardinality(0 .. n) = n + 1
      BY FS_Interval
    <2>2. Cardinality(0 .. n - 1) = n
      BY FS_Interval
    <2> QED
      BY <2>1, <2>2
  <1>5. d.room \cup {NextRoomId(d)} = 0 .. n
    BY <1>2, <1>3
  <1> QED
    BY <1>1, <1>2, <1>4, <1>5

-----------------------------------------------------------------------------
(* What the statements of a call do together.                              *)

(* The statement that takes effect, run with what the ones before it left  *)
(* in the variables, does what the call promises.                          *)
LEMMA EffectOfCall ==
    ASSUME IInv, NEW t \in Threads, pc[t] = "exec", conn = "up", k[t] = EffectAt(call[t]),
           ~Rejected(Statement(t), call[t], db, var)
    PROVE  Write(Statement(t), call[t], db, var) = Effect(call[t], db)
  <1> DEFINE c == call[t]
             s == Statement(t)
  <1>1. c \in Calls /\ k[t] \in 1 .. Len(Statements(c)) /\ s = Statements(c)[k[t]]
    BY DEF IInv, CallOK, ThreadOK, Statement
  <1>2. MayRun(s, c, db, var) /\ Ordered(db)
    BY ExecuteMayRun DEF IInv
  <1> HIDE DEF c, s
  <1>3. CASE c.name = "insert_chat"
    <2>1. s = "insert_chat"
      BY <1>1, <1>3, StatementNames DEF c, EffectAt
    <2>2. var["max_id"] = NextChatId(c.room, db) /\ c.room \in Rooms
      BY <1>2, <2>1, ExecuteMayRun, WriterFields DEF c, s
    <2>3. Cardinality(RoomChats(c.room, db)) = var["max_id"]
      BY <1>2, <2>2, CountChats
    <2> QED
      BY <1>3, <2>1, <2>3 DEF Write, Effect, NewChat, c, s
  <1>4. CASE c.name = "insert_room"
    <2>1. s = "insert_room"
      BY <1>1, <1>4, StatementNames DEF c, EffectAt
    <2>2. var["max_id"] = Cardinality(db.room)
      BY <1>2, <2>1, ExecuteMayRun, CountRooms DEF c, s
    <2> QED
      BY <1>4, <2>1, <2>2 DEF Write, Effect, c, s
  <1>5. CASE c.name = "chat_list"
    <2>1. s = "mark_read"
      BY <1>1, <1>5, StatementNames DEF c, EffectAt
    <2> QED
      BY <1>5, <2>1 DEF Write, Effect, c, s
  <1>6. CASE c.name = "get_members"
    <2>1. s = "select_members"
      BY <1>1, <1>6, StatementNames DEF c, EffectAt
    <2> QED
      BY <1>6, <2>1 DEF Write, Effect, c, s
  <1>7. CASE c.name \notin {"insert_chat", "insert_room", "chat_list", "get_members"}
    <2>1. s = c.name /\ Statements(c)[1] = s
      BY <1>1, <1>7, StatementNames DEF c, EffectAt
    <2>2. ~Rejected(s, c, db, NoVars)
      BY <1>2, <1>7, <2>1 DEF MayRun, Rejected
    <2>3. Write(s, c, db, var) = Write(s, c, db, NoVars)
      BY <1>7, <2>1 DEF Write
    <2> QED
      BY <1>7, <2>1, <2>2, <2>3 DEF Effect, c, s
  <1> QED
    BY <1>3, <1>4, <1>5, <1>6, <1>7

(* The rows that are read do not depend on the other user variable. *)
LEMMA MembersRead ==
    ASSUME IInv, NEW t \in Threads, pc[t] = "exec", conn = "up", k[t] = 2,
           call[t].name = "get_members"
    PROVE  Select("select_members", call[t], db, var) = Answer(call[t], db)
  <1> DEFINE r == call[t].room
             last == IF RoomChats(r, db) = {} THEN 0 ELSE Cardinality(RoomChats(r, db)) - 1
             w == [NoVars EXCEPT !["max_chat_id"] = last]
  <1>1. r \in Rooms
    BY CallFields DEF IInv, CallOK, ThreadOK
  <1>2. var["max_chat_id"] = LastChatId(r, db)
    BY DEF IInv, MaxIdIsMine
  <1>3. LastChatId(r, db) = last
    BY <1>1, CountChats DEF IInv
  <1>4. w["max_chat_id"] = last
    BY DEF NoVars, Variables
  <1>5. \A u : MemberItem(r, u, db, var) = MemberItem(r, u, db, w)
    <2> HIDE DEF w, r, last
    <2> QED
      BY <1>2, <1>3, <1>4 DEF MemberItem
  <1>6. Select("select_members", call[t], db, var) =
            Result({MemberItem(r, u, db, var) : u \in Members(r, db)})
    BY DEF Select
  <1>7. Answer(call[t], db) = Result({MemberItem(r, u, db, w) : u \in Members(r, db)})
    BY DEF Answer
  <1>8. {MemberItem(r, u, db, var) : u \in Members(r, db)}
          = {MemberItem(r, u, db, w) : u \in Members(r, db)}
    <2> HIDE DEF w, r
    <2> QED
      BY <1>5
  <1> QED
    BY <1>6, <1>7, <1>8

(* The answer of a call is computed from the tables it leaves. *)
LEMMA AnswerOfCall ==
    ASSUME IInv, NEW t \in Threads, Execute(t), k[t] = EffectAt(call[t])
    PROVE  Outcome(t)' = Answer(call[t], db')
  <1> DEFINE c == call[t]
             s == Statement(t)
  <1>1. c \in Calls /\ k[t] \in 1 .. Len(Statements(c)) /\ s = Statements(c)[k[t]]
    BY DEF IInv, CallOK, ThreadOK, Statement, Execute
  <1>2. /\ pc[t] = "exec" /\ conn = "up" /\ call' = call
        /\ ~Rejected(s, c, db, var)
        /\ db' = Write(s, c, db, var) /\ var' = Assign(s, c, db, var)
    BY DEF Execute
  <1>3. MayRun(s, c, db, var) /\ Ordered(db) /\ db \in Db
    BY <1>2, ExecuteMayRun DEF IInv, TypeOK
  <1>4. ASSUME ~IsLast(t) PROVE pc'[t] = "exec" /\ k'[t] = k[t] + 1
    BY <1>2, <1>4 DEF Execute, IInv, TypeOK
  <1>5. ASSUME IsLast(t) PROVE Outcome(t)' = Select(s, c, db, var)
    <2>1. pc'[t] = "unlock" /\ result'[t] = Select(s, c, db, var)
      BY <1>2, <1>5 DEF Execute, IInv, TypeOK
    <2> QED
      BY <2>1 DEF Outcome
  <1>6. CASE c.name = "insert_room"
    <2>1. s = "insert_room" /\ ~IsLast(t)
      BY <1>1, <1>6, StatementNames DEF EffectAt, IsLast, Statements
    <2>2. var' = var /\ var["max_id"] = NextRoomId(db)
      BY <1>2, <2>1, ExecuteMayRun DEF Assign
    <2>3. db'.room = db.room \cup {NextRoomId(db)}
      BY <1>2, <1>3, <2>1, <2>2 DEF Write, Db
    <2>4. Outcome(t)' = Result({var["max_id"]})
      BY <1>2, <1>4, <1>6, <2>1, <2>2 DEF Outcome, EffectAt
    <2> QED
      BY <1>3, <1>6, <2>2, <2>3, <2>4, CountRooms DEF Answer
  <1>7. CASE c.name = "chat_list"
    <2>1. s = "mark_read" /\ ~IsLast(t)
      BY <1>1, <1>7, StatementNames DEF EffectAt, IsLast, Statements
    <2>2. Outcome(t)' = Select("select_chats", c, db', var')
      BY <1>2, <1>4, <1>7, <2>1 DEF Outcome, EffectAt
    <2> QED
      BY <1>7, <2>2 DEF Select, Answer, RoomChats
  <1>8. CASE c.name = "get_members"
    <2>1. s = "select_members" /\ IsLast(t) /\ k[t] = 2
      BY <1>1, <1>8, StatementNames DEF EffectAt, IsLast, Statements
    <2>2. db' = db
      BY <1>2, <2>1 DEF Write
    <2> QED
      BY <1>2, <1>5, <1>8, <2>1, <2>2, MembersRead
  <1>9. CASE c.name = "insert_chat"
    <2>1. s = "insert_chat" /\ IsLast(t)
      BY <1>1, <1>9, StatementNames DEF EffectAt, IsLast, Statements
    <2> QED
      BY <1>5, <1>9, <2>1 DEF Select, Answer
  <1>10. CASE c.name \notin {"insert_chat", "insert_room", "chat_list", "get_members"}
    <2>1. s = c.name /\ IsLast(t)
      BY <1>1, <1>10, StatementNames DEF EffectAt, IsLast, Statements
    <2>2. CASE s \in Writers
      BY <1>5, <1>10, <2>1, <2>2 DEF Select, Answer, Writers
    <2>3. CASE s \notin Writers
      <3>1. db' = db
        BY <1>2, <2>3 DEF Write, Writers
      <3>2. Select(s, c, db, var) = Select(s, c, db, NoVars)
        BY <1>1, <1>10, <2>1, CallFields
           DEF Select, AllNames, SingleUser, SinglePwd, SingleReact, SingleDelete,
               MultiRoomUser
      <3> QED
        BY <1>5, <1>10, <2>1, <3>1, <3>2 DEF Answer
    <2> QED
      BY <2>2, <2>3
  <1> QED
    BY <1>6, <1>7, <1>8, <1>9, <1>10

-----------------------------------------------------------------------------
(* The steps.                                                              *)

(* The other threads stay where they are for ChatStore. *)
Unmoved(t) == \A u \in Threads \ {t} : Phase(u)' = Phase(u) /\ Outcome(u)' = Outcome(u)

(* What t does with the mutex in hand, or without touching the tables,     *)
(* moves nobody else.                                                      *)
LEMMA OthersUnmoved ==
    ASSUME IInv, NEW t \in Threads, Others(t),
           UNCHANGED <<db, var>> \/ pc[t] \in Holding
    PROVE  Unmoved(t)
  <1> SUFFICES ASSUME NEW u \in Threads \ {t}
               PROVE  Phase(u)' = Phase(u) /\ Outcome(u)' = Outcome(u)
    BY DEF Unmoved
  <1>1. /\ pc'[u] = pc[u] /\ k'[u] = k[u] /\ call'[u] = call[u]
        /\ result'[u] = result[u]
    BY DEF Others
  <1>2. Phase(u)' = Phase(u)
    BY <1>1 DEF Phase
  <1>3. CASE pc[u] = "exec"
    <2>1. UNCHANGED <<db, var>>
      BY <1>3 DEF IInv, OwnerInside, Holding
    <2> QED
      BY <1>1, <1>2, <2>1 DEF Outcome
  <1>4. CASE pc[u] # "exec"
    BY <1>1, <1>2, <1>4 DEF Outcome
  <1> QED
    BY <1>3, <1>4

(* What thread t's own step does to phase and result of ChatStore. *)
LEMMA OneMoves ==
    ASSUME NEW t \in Threads, Unmoved(t)
    PROVE  /\ [u \in Threads |-> Phase(u)]'
                 = [[u \in Threads |-> Phase(u)] EXCEPT ![t] = Phase(t)']
           /\ [u \in Threads |-> Outcome(u)]'
                 = [[u \in Threads |-> Outcome(u)] EXCEPT ![t] = Outcome(t)']
  BY DEF Unmoved

(* A step that ChatStore does not see. *)
LEMMA Stutters ==
    ASSUME NEW t \in Threads, Unmoved(t), UNCHANGED <<db, call>>,
           Phase(t)' = Phase(t), Outcome(t)' = Outcome(t)
    PROVE  UNCHANGED Store!vars
  <1>1. [u \in Threads |-> Phase(u)]' = [u \in Threads |-> Phase(u)]
    BY DEF Unmoved
  <1>2. [u \in Threads |-> Outcome(u)]' = [u \in Threads |-> Outcome(u)]
    BY DEF Unmoved
  <1> QED
    BY <1>1, <1>2 DEF Store!vars

(* A step that ChatStore sees as a failure. *)
LEMMA Fails ==
    ASSUME NEW t \in Threads, Unmoved(t), UNCHANGED <<db, call>>,
           Phase(t) \in {"pending", "applied"}, Phase(t)' = "applied",
           Outcome(t)' = NullResult
    PROVE  Store!Fail(t)
  BY OneMoves, SameNames DEF Store!Fail

(* A step that ChatStore sees as the call taking effect. *)
LEMMA Applies ==
    ASSUME NEW t \in Threads, Unmoved(t), UNCHANGED call,
           Phase(t) = "pending", Phase(t)' = "applied",
           db' = Effect(call[t], db), Outcome(t)' \in {Answer(call[t], db'), NullResult}
    PROVE  Store!Apply(t)
  BY OneMoves, SameNames, SameEffect, SameAnswer DEF Store!Apply

(* A call is issued, and its answer given back.                            *)
LEMMA MapsEnds ==
    ASSUME IInv, NEW t \in Threads,
           (\E c \in IssuedCalls : Call(t, c)) \/ Unlock(t) \/ Return(t) \/ Lock(t)
    PROVE  [Store!Next]_(Store!vars)
  <1>1. Unmoved(t)
    <2>1. Others(t)
      BY DEF Call, Lock, Unlock, Return, Others, IInv, TypeOK
    <2> QED
      BY <2>1, OthersUnmoved DEF Call, Lock, Unlock, Return
  <1>2. ASSUME NEW c \in IssuedCalls, Call(t, c) PROVE Store!Call(t, c)
    <2>1. pc[t] = "idle" /\ pc'[t] = "wait" /\ result' = result
      BY <1>2 DEF Call, IInv, TypeOK
    <2>2. Phase(t) = "idle" /\ Phase(t)' = "pending" /\ Outcome(t)' = Outcome(t)
      BY <2>1 DEF Phase, Outcome
    <2>3. [u \in Threads |-> Outcome(u)]' = [u \in Threads |-> Outcome(u)]
      BY <1>1, <2>2 DEF Unmoved
    <2> QED
      BY <1>1, <1>2, <2>2, <2>3, OneMoves DEF Store!Call, Call
  <1>3. CASE Lock(t)
    <2>1. pc[t] = "wait" /\ pc'[t] = "begin" /\ UNCHANGED <<db, call, result>>
      BY <1>3 DEF Lock, IInv, TypeOK
    <2>2. Phase(t)' = Phase(t) /\ Outcome(t)' = Outcome(t)
      BY <2>1 DEF Phase, Outcome
    <2> QED
      BY <1>1, <2>1, <2>2, Stutters
  <1>4. CASE Unlock(t)
    <2>1. pc[t] = "unlock" /\ pc'[t] = "done" /\ UNCHANGED <<db, call, result>>
      BY <1>4 DEF Unlock, IInv, TypeOK
    <2>2. Phase(t) = "applied" /\ Phase(t)' = "done" /\ Outcome(t)' = Outcome(t)
      BY <2>1 DEF Phase, Outcome
    <2>3. [u \in Threads |-> Outcome(u)]' = [u \in Threads |-> Outcome(u)]
      BY <1>1, <2>2 DEF Unmoved
    <2>4. Store!Finish(t)
      BY <1>1, <2>1, <2>2, <2>3, OneMoves DEF Store!Finish
    <2> QED
      BY <2>4 DEF Store!Next
  <1>5. CASE Return(t)
    <2>1. /\ pc[t] = "done" /\ pc'[t] = "idle" /\ result'[t] = NullResult
          /\ UNCHANGED db /\ call' = [call EXCEPT ![t] = NoCall]
      BY <1>5 DEF Return, IInv, TypeOK
    <2>2. Phase(t) = "done" /\ Phase(t)' = "idle" /\ Outcome(t)' = NullResult
      BY <2>1 DEF Phase, Outcome
    <2>3. Store!Return(t)
      BY <1>1, <2>1, <2>2, OneMoves, SameNames DEF Store!Return
    <2> QED
      BY <2>3 DEF Store!Next
  <1> QED
    BY <1>2, <1>3, <1>4, <1>5, SameNames DEF Store!Next

(* A restart. *)
LEMMA MapsReboot ==
    ASSUME Reboot
    PROVE  [Store!Next]_(Store!vars)
  <1>1. \A u \in Threads : Phase(u)' = "idle" /\ Outcome(u)' = NullResult
    BY DEF Reboot, Phase, Outcome
  <1>2. /\ [u \in Threads |-> Phase(u)]' = [u \in Threads |-> "idle"]
        /\ [u \in Threads |-> Outcome(u)]' = [u \in Threads |-> NullResult]
    BY <1>1
  <1>3. Store!Restart
    BY <1>2, SameNames DEF Store!Restart, Reboot
  <1> QED
    BY <1>3 DEF Store!Next

(* Before the first statement. *)
LEMMA MapsBegin ==
    ASSUME IInv, NEW t \in Threads,
           CheckSingle(t) \/ CheckMulti(t) \/ (Retry(t) /\ ~Reboot)
    PROVE  [Store!Next]_(Store!vars)
  <1>1. Unmoved(t) /\ UNCHANGED <<db, call, k>>
    <2>1. Others(t) /\ pc[t] \in Holding
      BY DEF CheckSingle, CheckMulti, Retry, Fail, Others, Holding, IInv, TypeOK
    <2> QED
      BY <2>1, OthersUnmoved DEF CheckSingle, CheckMulti, Retry
  <1>2. k[t] = 1 /\ ~(k[t] > EffectAt(call[t]))
    <2>1. k[t] = 1
      BY DEF CheckSingle, CheckMulti, Retry, IInv, CallOK, ThreadOK
    <2> QED
      BY <2>1 DEF EffectAt
  <1>3. pc[t] \in {"begin", "exec"} /\ Phase(t) = "pending" /\ Outcome(t) = result[t]
    BY <1>2 DEF CheckSingle, CheckMulti, Retry, Phase, Outcome
  <1>4. CASE pc'[t] = "exec" /\ result' = result
    <2>1. Phase(t)' = "pending" /\ Outcome(t)' = result[t]
      BY <1>1, <1>2, <1>4 DEF Phase, Outcome
    <2> QED
      BY <1>1, <1>3, <2>1, Stutters
  <1>5. CASE pc'[t] = "unlock" /\ result'[t] = NullResult
    <2>1. Phase(t)' = "applied" /\ Outcome(t)' = NullResult
      BY <1>5 DEF Phase, Outcome
    <2> QED
      BY <1>1, <1>3, <2>1, Fails DEF Store!Next
  <1>6. (pc'[t] = "exec" /\ result' = result) \/ (pc'[t] = "unlock" /\ result'[t] = NullResult)
    BY DEF CheckSingle, CheckMulti, Retry, Fail, IInv, TypeOK
  <1> QED
    BY <1>4, <1>5, <1>6

(* Every statement but the one at EffectAt leaves the tables alone. *)
LEMMA NoEffect ==
    ASSUME IInv, NEW t \in Threads, pc[t] = "exec", k[t] # EffectAt(call[t])
    PROVE  Write(Statement(t), call[t], db, var) = db
  <1>1. call[t] \in Calls /\ k[t] \in 1 .. Len(Statements(call[t]))
    BY DEF IInv, CallOK, ThreadOK
  <1>2. Statement(t) \in {"set_max_room", "select_max_id", "set_max_chat", "select_chats",
                          "set_last_chat"}
    BY <1>1, StatementNames DEF Statement, EffectAt
  <1> QED
    BY <1>2 DEF Write

(* The call fails at one of its statements.                                *)
LEMMA MapsFailure ==
    ASSUME IInv, NEW t \in Threads, Reject(t) \/ PrepareFails(t) \/ LoseAnswer(t)
    PROVE  [Store!Next]_(Store!vars)
  <1>1. Unmoved(t) /\ pc[t] = "exec" /\ UNCHANGED call
    <2>1. Others(t) /\ pc[t] \in Holding
      BY DEF Reject, PrepareFails, LoseAnswer, Fail, Others, Holding, IInv, TypeOK
    <2> QED
      BY <2>1, OthersUnmoved DEF Reject, PrepareFails, LoseAnswer
  <1>2. Phase(t) \in {"pending", "applied"}
    BY <1>1 DEF Phase
  <1>3. pc'[t] = "unlock" /\ result'[t] = NullResult
    BY DEF Reject, PrepareFails, LoseAnswer, Fail, IInv, TypeOK
  <1>4. Phase(t)' = "applied" /\ Outcome(t)' = NullResult
    BY <1>3 DEF Phase, Outcome
  <1>5. CASE db' = db
    BY <1>1, <1>2, <1>4, <1>5, Fails DEF Store!Next
  <1>6. CASE LoseAnswer(t) /\ k[t] = EffectAt(call[t])
    <2>1. db' = Effect(call[t], db)
      BY <1>6, EffectOfCall DEF LoseAnswer
    <2>2. Phase(t) = "pending"
      <3>1. ~(k[t] > EffectAt(call[t]))
        BY <1>6 DEF EffectAt
      <3> QED
        BY <1>1, <3>1 DEF Phase
    <2>3. Store!Apply(t)
      BY <1>1, <1>4, <2>1, <2>2, Applies
    <2> QED
      BY <2>3 DEF Store!Next
  <1>7. LoseAnswer(t) /\ k[t] # EffectAt(call[t]) => db' = db
    BY <1>1, NoEffect DEF LoseAnswer
  <1> QED
    BY <1>5, <1>6, <1>7 DEF Reject, PrepareFails

(* A statement runs: before the effect nothing is promised yet, at the     *)
(* effect the answer is fixed, and after it the answer stays.              *)
LEMMA MapsExecute ==
    ASSUME IInv, NEW t \in Threads, Execute(t)
    PROVE  [Store!Next]_(Store!vars)
  <1>1. Unmoved(t) /\ pc[t] = "exec" /\ UNCHANGED call
    <2>1. Others(t) /\ pc[t] \in Holding
      BY DEF Execute, Others, Holding, IInv, TypeOK
    <2> QED
      BY <2>1, OthersUnmoved DEF Execute
  <1>2. /\ call[t] \in Calls /\ k[t] \in 1 .. Len(Statements(call[t]))
        /\ Statement(t) = Statements(call[t])[k[t]]
    BY <1>1 DEF IInv, CallOK, ThreadOK, Statement
  <1>3. /\ db' = Write(Statement(t), call[t], db, var)
        /\ var' = Assign(Statement(t), call[t], db, var)
    BY DEF Execute
  <1>4. IsLast(t) => /\ pc'[t] = "unlock"
                     /\ result'[t] = Select(Statement(t), call[t], db, var)
    BY DEF Execute, IInv, TypeOK
  <1>5. ~IsLast(t) => pc'[t] = "exec" /\ k'[t] = k[t] + 1 /\ result' = result
    BY <1>1 DEF Execute, IInv, TypeOK
  <1>6. CASE k[t] < EffectAt(call[t])
    <2>1. k[t] = 1 /\ EffectAt(call[t]) = 2 /\ ~IsLast(t)
      BY <1>2, <1>6 DEF EffectAt, IsLast, Statements
    <2>2. Phase(t) = "pending" /\ Outcome(t) = result[t]
      BY <1>1, <2>1 DEF Phase, Outcome
    <2>3. Phase(t)' = "pending" /\ Outcome(t)' = result[t]
      BY <1>1, <1>5, <2>1 DEF Phase, Outcome
    <2>4. db' = db
      BY <1>1, <1>3, <2>1, NoEffect
    <2> QED
      BY <1>1, <2>2, <2>3, <2>4, Stutters
  <1>7. CASE k[t] = EffectAt(call[t])
    <2>1. db' = Effect(call[t], db)
      BY <1>1, <1>7, EffectOfCall DEF Execute
    <2>2. Outcome(t)' = Answer(call[t], db')
      BY <1>7, AnswerOfCall
    <2>3. Phase(t) = "pending"
      <3>1. ~(k[t] > EffectAt(call[t]))
        BY <1>7 DEF EffectAt
      <3> QED
        BY <1>1, <3>1 DEF Phase
    <2>4. Phase(t)' = "applied"
      <3>1. CASE IsLast(t)
        BY <1>4, <3>1 DEF Phase
      <3>2. CASE ~IsLast(t)
        <4>1. EffectAt(call[t])' = EffectAt(call[t]) /\ EffectAt(call[t]) \in Nat
          BY <1>1 DEF EffectAt
        <4>2. k'[t] > EffectAt(call[t])'
          BY <1>5, <1>7, <3>2, <4>1
        <4> QED
          BY <1>5, <3>2, <4>2 DEF Phase
      <3> QED
        BY <3>1, <3>2
    <2>5. Store!Apply(t)
      BY <1>1, <2>1, <2>2, <2>3, <2>4, Applies
    <2> QED
      BY <2>5 DEF Store!Next
  <1>8. CASE k[t] > EffectAt(call[t])
    <2>1. /\ IsLast(t)
          /\ \/ call[t].name = "insert_room" /\ Statement(t) = "select_max_id"
             \/ call[t].name = "chat_list" /\ Statement(t) = "select_chats"
      BY <1>2, <1>8, StatementNames DEF EffectAt, IsLast, Statements
    <2>2. Phase(t) = "applied" /\ Phase(t)' = "applied"
      BY <1>1, <1>4, <1>8, <2>1 DEF Phase
    <2>3. Outcome(t) = Select(Statement(t), call[t], db, var)
      BY <1>1, <1>8, <2>1 DEF Outcome, Select
    <2>4. Outcome(t)' = Outcome(t)
      BY <1>4, <2>1, <2>3 DEF Outcome
    <2>5. db' = db
      BY <1>1, <1>3, <1>8, NoEffect DEF EffectAt
    <2> QED
      BY <1>1, <2>2, <2>4, <2>5, Stutters
  <1> QED
    BY <1>2, <1>6, <1>7, <1>8 DEF EffectAt

(* Every step is a step of ChatStore, or none. *)
LEMMA StoreStep == IInv /\ [Next]_vars => [Store!Next]_(Store!vars)
  <1> SUFFICES ASSUME IInv, [Next]_vars PROVE [Store!Next]_(Store!vars)
    OBVIOUS
  <1>1. ASSUME NEW t \in Threads, \E c \in IssuedCalls : Call(t, c)
        PROVE  [Store!Next]_(Store!vars)
    BY <1>1, MapsEnds
  <1>2. ASSUME NEW t \in Threads, Work(t), ~Reboot PROVE [Store!Next]_(Store!vars)
    BY <1>2, MapsEnds, MapsBegin, MapsFailure, MapsExecute DEF Work
  <1>3. CASE Reboot
    BY <1>3, MapsReboot
  <1>4. CASE Drop \/ UNCHANGED vars
    <2>1. UNCHANGED <<db, var, pc, call, k, result>>
      BY <1>4 DEF Drop, vars
    <2>2. \A u \in Threads : Phase(u)' = Phase(u) /\ Outcome(u)' = Outcome(u)
      BY <2>1 DEF Phase, Outcome
    <2>3. /\ [u \in Threads |-> Phase(u)]' = [u \in Threads |-> Phase(u)]
          /\ [u \in Threads |-> Outcome(u)]' = [u \in Threads |-> Outcome(u)]
      BY <2>2
    <2> QED
      BY <2>1, <2>3 DEF Store!vars
  <1> QED
    BY <1>1, <1>2, <1>3, <1>4 DEF Next, Restart

(* Both start with empty tables and no calls. *)
LEMMA StoreInit == Init => Store!Init
  <1> SUFFICES ASSUME Init PROVE Store!Init
    OBVIOUS
  <1>1. \A u \in Threads : Phase(u) = "idle" /\ Outcome(u) = NullResult
    BY DEF Init, Phase, Outcome
  <1>2. /\ [u \in Threads |-> Phase(u)] = [u \in Threads |-> "idle"]
        /\ [u \in Threads |-> Outcome(u)] = [u \in Threads |-> NullResult]
    BY <1>1
  <1> QED
    BY <1>2, SameNames DEF Init, Store!Init

(* The calls of mysql_common.c are atomic: with any number of threads, and *)
(* whatever connection and process do, they are calls of ChatStore.        *)
THEOREM CallsAreAtomic == Spec => ImplementsStore
  BY StoreInit, StoreStep, Invariance, PTL DEF Spec, ImplementsStore, Store!Spec
=============================================================================
